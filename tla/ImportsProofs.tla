----------------------------- MODULE ImportsProofs ------------------------------
(***************************************************************************)
(* Theorems about Imports and ImportAccounts, for every file, answer of a  *)
(* provider, number of imports and operations: the type invariant, that no *)
(* source record is left without its publication, what a rejection may take*)
(* away, what the integrity audit can find, and that the reports agree with*)
(* the tables and with each other.                                         *)
(*                                                                         *)
(* First what the model's own operators return, each a fold over a set or a*)
(* sequence: the duplicate groups, the records of a file, the results of a *)
(* search.  Then the inductive invariant, and one lemma for each action.   *)
(* Then the accounts: an invariant of their own, kept by every action, and *)
(* the sums that it makes equal.                                           *)
(***************************************************************************)
EXTENDS ImportAccounts, SetFacts

----------------------------------------------------------------------------
(* What the operators return *)

\* The publication a DOI is linked to is one of the table, wherever the chain of
\* supersessions starts.
LEMMA CanonicalIsThere ==
  ASSUME NEW rs, IsFiniteSet(DOMAIN rs), NEW r \in DOMAIN rs,
         \A x \in DOMAIN rs : rs[x].superseded \in {None} \cup DOMAIN rs
  PROVE  Canonical(rs, r) \in DOMAIN rs
<1> DEFINE G == [x \in DOMAIN rs |-> IF rs[x].superseded = None THEN x ELSE rs[x].superseded]
           N == Cardinality(DOMAIN rs)
           Chain(f) == f = [n \in 0..N |-> IF n = 0 THEN r
                              ELSE IF rs[f[n - 1]].superseded = None THEN f[n - 1] ELSE rs[f[n - 1]].superseded]
<1>1. N \in Nat
  BY FS_CardinalityType
<1>2. G \in [DOMAIN rs -> DOMAIN rs]
  OBVIOUS
<1>3. PICK f : IsIteration(f, N, DOMAIN rs, r, G)
  <2> HIDE DEF G, N
  <2>1. QED
    BY <1>1, <1>2, IterationExists, Zenon
<1>4. Chain(f)
  <2>1. \A n \in 0..N : n # 0 => f[n - 1] \in DOMAIN rs
    <3>1. \A n \in 0..N : n # 0 => n - 1 \in 0..N
      BY <1>1
    <3>2. QED
      BY <1>3, <3>1 DEF IsIteration
  <2>2. \A n \in 0..N : (IF n = 0 THEN r ELSE G[f[n - 1]])
           = IF n = 0 THEN r ELSE IF rs[f[n - 1]].superseded = None THEN f[n - 1] ELSE rs[f[n - 1]].superseded
    BY <2>1
  <2>3. QED
    BY <1>3, <2>2 DEF IsIteration
<1> DEFINE end == CHOOSE g : Chain(g)
<1>5. Chain(end)
  <2> HIDE DEF Chain
  <2>1. QED
    BY <1>4
<1>6. Canonical(rs, r) = end[N]
  BY DEF Canonical
<1> DEFINE Q == {k \in Nat : k \in 0..N => end[k] \in DOMAIN rs}
<1>7. \A n \in Nat : n \in Q
  <2> HIDE DEF end
  <2>1. 0 \in Q
    BY <1>1, <1>5
  <2>2. ASSUME NEW n \in Nat, n \in Q PROVE n + 1 \in Q
    <3> SUFFICES ASSUME n + 1 \in 0..N PROVE end[n + 1] \in DOMAIN rs
      OBVIOUS
    <3>1. n \in 0..N /\ end[n] \in DOMAIN rs
      BY <1>1, <2>2
    <3>2. end[n + 1] = IF rs[end[n]].superseded = None THEN end[n] ELSE rs[end[n]].superseded
      BY <1>1, <1>5, <3>1
    <3>3. QED
      BY <3>1, <3>2
  <2>3. QED
    <3> HIDE DEF Q
    <3>1. QED
      BY <2>1, <2>2, NatSetInduction
<1>8. QED
  BY <1>1, <1>6, <1>7

\* Joining components of a set leaves each member in a component of the set.
LEMMA UnionAllStays ==
  ASSUME NEW S, NEW root \in [S -> S], NEW pairs \in SUBSET (S \X S), IsFiniteSet(pairs)
  PROVE  UnionAll(root, pairs) \in [S -> S]
<1> DEFINE D == [S -> S]
           G == [e \in pairs |-> [y \in D |-> Union(y, e[1], e[2])]]
           Fold(f) == f = [s \in SUBSET pairs |-> IF s = {} THEN root
                             ELSE Union(f[s \ {Pick(s)}], Pick(s)[1], Pick(s)[2])]
           iter == CHOOSE g : Fold(g)
<1>1. \A s \in SUBSET pairs : s # {} => Pick(s) \in pairs
  BY PickIsMember
<1>2. \A e \in pairs, y \in D : Union(y, e[1], e[2]) \in D
  BY DEF Union
<1>3. \A e \in pairs : G[e] \in [D -> D]
  BY <1>2
<1>4. PICK f : IsSetFold(f, pairs, D, root, G)
  <2>1. root \in D
    OBVIOUS
  <2> HIDE DEF D, G
  <2>2. QED
    BY <1>3, <2>1, SetFoldExists
<1>5. Fold(f)
  <2>1. ASSUME NEW s \in SUBSET pairs, s # {}
        PROVE  G[Pick(s)][f[s \ {Pick(s)}]] = Union(f[s \ {Pick(s)}], Pick(s)[1], Pick(s)[2])
    <3>1. f[s \ {Pick(s)}] \in D
      BY <1>4, <2>1 DEF IsSetFold
    <3>2. QED
      BY <1>1, <2>1, <3>1
  <2>2. QED
    <3> HIDE DEF D, G
    <3>1. QED
      BY <1>4, <2>1 DEF IsSetFold
<1>6. Fold(iter)
  <2> HIDE DEF Fold
  <2>1. QED
    BY <1>5
<1>7. UnionAll(root, pairs) = iter[pairs]
  BY DEF UnionAll, FoldSet, MapThenFoldSet, Pick
<1>8. iter[pairs] \in D
  <2> HIDE DEF iter
  <2>1. iter[{}] \in D
    BY <1>6
  <2>2. ASSUME NEW s \in SUBSET pairs, s # {}, iter[s \ {Pick(s)}] \in D PROVE iter[s] \in D
    <3>1. iter[s] = Union(iter[s \ {Pick(s)}], Pick(s)[1], Pick(s)[2])
      BY <1>6, <2>2
    <3>2. QED
      <4> HIDE DEF D
      <4>1. QED
        BY <1>1, <1>2, <2>2, <3>1
  <2>3. QED
    <3> HIDE DEF D
    <3>1. QED
      BY <2>1, <2>2, SetFoldStays
<1>9. QED
  BY <1>7, <1>8

\* A finite set listed as a sequence.
LEMMA SetToSeqLists ==
  ASSUME NEW S, IsFiniteSet(S)
  PROVE  SetToSeq(S) \in Seq(S) /\ ToSet(SetToSeq(S)) = S
<1>1. Cardinality(S) \in Nat /\ \E f : f \in [1..Cardinality(S) -> S] /\ IsInjective(f)
  BY FS_CardinalityType DEF ExistsBijection, Bijection, Injection
<1> DEFINE f == SetToSeq(S)
<1>2. f \in [1..Cardinality(S) -> S] /\ IsInjective(f)
  BY <1>1 DEF SetToSeq
<1>3. f \in Injection(1..Cardinality(S), S)
  BY <1>2 DEF Injection
<1>4. IsFiniteSet(1..Cardinality(S)) /\ Cardinality(1..Cardinality(S)) = Cardinality(S)
  BY <1>1, FS_Interval
<1>5. f \in Surjection(1..Cardinality(S), S)
  <2> HIDE DEF f
  <2>1. QED
    BY <1>3, <1>4, FS_Injection
<1>6. \A x \in S : \E n \in DOMAIN f : f[n] = x
  <2> HIDE DEF f
  <2>1. QED
    BY <1>2, <1>5 DEF Surjection
<1>7. f \in Seq(S)
  BY <1>1, <1>2
<1>8. ToSet(f) = S
  <2> HIDE DEF f
  <2>1. QED
    BY <1>2, <1>6 DEF ToSet
<1>9. QED
  BY <1>7, <1>8

\* The components the builder starts from relate records of the set it is given.
LEMMA CertainIsPartition ==
  ASSUME NEW rs, NEW S, IsFiniteSet(S)
  PROVE  Certain(rs, S) \in [S -> S]
<1> DEFINE P == SharedIdentifier(rs, S) \cup SharedTitle(rs, S)
<1>1. P \in SUBSET (S \X S)
  BY DEF SharedIdentifier, SharedTitle
<1>2. IsFiniteSet(P)
  BY <1>1, FS_Product, FS_Subset
<1>3. [x \in S |-> x] \in [S -> S]
  OBVIOUS
<1>4. UnionAll([x \in S |-> x], P) \in [S -> S]
  <2> HIDE DEF P
  <2>1. QED
    BY <1>1, <1>2, <1>3, UnionAllStays
<1>5. QED
  BY <1>4 DEF Certain

\* What the loop of the builder does with one record, and the groups it ends with.
BuilderStep(files, similar, acc, x) ==
  IF acc.done \/ \A y \in files : acc.root[y] = acc.root[x] THEN [acc EXCEPT !.done = TRUE]
  ELSE [acc EXCEPT !.root = UnionAll(@, {e \in similar : e[1] = x})]

Built(files, similar, certain) ==
  LET step(acc, x) == BuilderStep(files, similar, acc, x)
  IN Groups(FoldLeft(step, [done |-> FALSE, root |-> certain], SetToSeq(files)).root)

\* The builder, over what it reads of the rows.
LEMMA BuildGroupsIsBuilt ==
  \A rs, S : BuildGroups(rs, S) =
    Built({x \in S : FromFile(rs[x])}, SimilarTitle(rs, S), Certain(rs, S))
BY DEF BuildGroups, Built, BuilderStep

\* Whatever pairs are similar and wherever the loop of the builder stops, a group
\* has at least two members, all from the given publications.
LEMMA BuiltGroupsAreOf ==
  ASSUME NEW S, IsFiniteSet(S), NEW files \in SUBSET S, NEW similar \in SUBSET (S \X S),
         NEW certain \in [S -> S]
  PROVE  \A g \in Built(files, similar, certain) : g \subseteq S /\ Cardinality(g) > 1
<1> DEFINE D == [done : BOOLEAN, root : [S -> S]]
           q == SetToSeq(files)
           G == [n \in DOMAIN q |-> [a \in D |-> BuilderStep(files, similar, a, q[n])]]
           b == [done |-> FALSE, root |-> certain]
           Fold(f) == f = [s \in SUBSET DOMAIN q |-> IF s = {} THEN b
                             ELSE BuilderStep(files, similar, f[s \ {Max(s)}], q[Max(s)])]
           iter == CHOOSE g : Fold(g)
<1>1. q \in Seq(files)
  BY FS_Subset, SetToSeqLists
<1>2. b \in D
  OBVIOUS
<1>3. IsFiniteSet(similar)
  BY FS_Product, FS_Subset
<1>4. \A a \in D, x \in files : BuilderStep(files, similar, a, x) \in D
  <2> SUFFICES ASSUME NEW a \in D, NEW x \in files PROVE BuilderStep(files, similar, a, x) \in D
    OBVIOUS
  <2> DEFINE P == {e \in similar : e[1] = x}
  <2>1. P \in SUBSET (S \X S) /\ IsFiniteSet(P)
    BY <1>3, FS_Subset
  <2>2. a.root \in [S -> S]
    OBVIOUS
  <2>3. UnionAll(a.root, P) \in [S -> S]
    <3> HIDE DEF P
    <3>1. QED
      BY <2>1, <2>2, UnionAllStays
  <2>4. [a EXCEPT !.root = UnionAll(a.root, P)] \in D
    BY <2>3
  <2>5. [a EXCEPT !.done = TRUE] \in D
    OBVIOUS
  <2>6. QED
    BY <2>4, <2>5 DEF BuilderStep
<1>5. \A n \in DOMAIN q : q[n] \in files
  <2> HIDE DEF q
  <2>1. QED
    BY <1>1
<1>6. \A n \in DOMAIN q : G[n] \in [D -> D]
  <2> HIDE DEF D, q
  <2>1. QED
    BY <1>4, <1>5
<1>7. PICK f : IsSequenceFold(f, q, D, b, G)
  <2> HIDE DEF D, q, G, b
  <2>1. QED
    BY <1>1, <1>2, <1>6, SequenceFoldExists
<1>8. \A s \in SUBSET DOMAIN q : s # {} => Max(s) \in DOMAIN q
  <2> HIDE DEF q
  <2>1. QED
    BY <1>1, LastPosition
<1>9. Fold(f)
  <2> HIDE DEF q, b
  <2>1. ASSUME NEW s \in SUBSET DOMAIN q, s # {}
        PROVE  G[Max(s)][f[s \ {Max(s)}]] = BuilderStep(files, similar, f[s \ {Max(s)}], q[Max(s)])
    <3> HIDE DEF D
    <3>1. f[s \ {Max(s)}] \in D
      BY <1>7, <2>1 DEF IsSequenceFold
    <3>2. QED
      BY <1>8, <2>1, <3>1
  <2>2. QED
    <3> HIDE DEF D, G
    <3>1. QED
      BY <1>7, <2>1 DEF IsSequenceFold
<1>10. Fold(iter)
  <2> HIDE DEF Fold
  <2>1. QED
    BY <1>9
<1>11. Built(files, similar, certain) = Groups(iter[DOMAIN q].root)
  BY DEF Built, FoldLeft, MapThenFoldSet
<1>12. iter[DOMAIN q] \in D
  <2> HIDE DEF iter, q, b, D
  <2>1. iter[{}] \in D
    BY <1>2, <1>10
  <2>2. ASSUME NEW s \in SUBSET DOMAIN q, s # {}, iter[s \ {Max(s)}] \in D PROVE iter[s] \in D
    <3>1. iter[s] = BuilderStep(files, similar, iter[s \ {Max(s)}], q[Max(s)])
      BY <1>10, <2>2
    <3>2. QED
      BY <1>4, <1>5, <1>8, <2>2, <3>1
  <2>3. QED
    BY <1>1, <2>1, <2>2, SequenceFoldStays
<1>13. QED
  <2> HIDE DEF iter
  <2>1. iter[DOMAIN q].root \in [S -> S]
    BY <1>12
  <2>2. QED
    BY <1>11, <2>1 DEF Groups

\* The lines of a RIS file that start a record.
StartsRecord(line) == line.kind = "tag" /\ line.tag = "TY"

\* The records a RIS file is read into are a sequence, one for each line that
\* starts a record, when the file is read at all.
LEMMA RisRecordsAreListed ==
  ASSUME NEW lines, lines \in Seq(ToSet(lines)),
         \A line \in ToSet(lines) : /\ line.kind \in {"tag", "text", "malformed", "ignored"}
                                    /\ line.value \in Seq(ToSet(line.value)),
         LET words == UNION {ToSet(line.value) : line \in ToSet(lines)}
         IN \A S \in SUBSET ({line.tag : line \in ToSet(lines)} \cup {"TY"}) : None \notin [S -> Seq(Seq(words))]
  PROVE  /\ \E k \in Nat : DOMAIN Formats!ParseRis(lines).records = 1..k
         /\ Formats!ParseRis(lines).ok =>
              Cardinality(DOMAIN Formats!ParseRis(lines).records) = Cardinality({n \in DOMAIN lines : StartsRecord(lines[n])})
<1> DEFINE L == ToSet(lines)
           Words == UNION {ToSet(line.value) : line \in L}
           Tags == {line.tag : line \in L} \cup {"TY"}
           Values == Seq(Seq(Words))
           Record == UNION {[S -> Values] : S \in SUBSET Tags}
           D == [ok : BOOLEAN, records : Seq(Record), open : Record \cup {None}, last : Tags \cup {None}]
           b == [ok |-> TRUE, records |-> <<>>, open |-> None, last |-> None]
           G == [n \in DOMAIN lines |-> [a \in D |-> Formats!RisLine(a, lines[n])]]
           Fold(f) == f = [s \in SUBSET DOMAIN lines |-> IF s = {} THEN b
                             ELSE Formats!RisLine(f[s \ {Max(s)}], lines[Max(s)])]
           iter == CHOOSE g : Fold(g)
<1>1. \A line \in L : line.value \in Seq(Words) /\ line.tag \in Tags
  <2> SUFFICES ASSUME NEW line \in L PROVE line.value \in Seq(Words) /\ line.tag \in Tags
    OBVIOUS
  <2>1. ToSet(line.value) \subseteq Words
    OBVIOUS
  <2>2. QED
    BY <2>1
<1>2. \A t \in Tags, v \in Seq(Words) :
        /\ [x \in {"TY"} |-> <<v>>] \in Record
        /\ \A r \in Record : Formats!Put(r, t, IF t \in DOMAIN r THEN Append(r[t], v) ELSE <<v>>) \in Record
  <2> SUFFICES ASSUME NEW t \in Tags, NEW v \in Seq(Words)
               PROVE  /\ [x \in {"TY"} |-> <<v>>] \in Record
                      /\ \A r \in Record :
                           Formats!Put(r, t, IF t \in DOMAIN r THEN Append(r[t], v) ELSE <<v>>) \in Record
    OBVIOUS
  <2>1. <<v>> \in Values
    OBVIOUS
  <2>2. [x \in {"TY"} |-> <<v>>] \in Record
    <3>1. [x \in {"TY"} |-> <<v>>] \in [{"TY"} -> Values] /\ {"TY"} \in SUBSET Tags
      BY <2>1
    <3>2. QED
      <4> HIDE DEF Values, Tags
      <4>1. QED
        BY <3>1
  <2>3. ASSUME NEW r \in Record
        PROVE  Formats!Put(r, t, IF t \in DOMAIN r THEN Append(r[t], v) ELSE <<v>>) \in Record
    <3>1. PICK S \in SUBSET Tags : r \in [S -> Values]
      BY <2>3
    <3>2. t \in DOMAIN r => Append(r[t], v) \in Values
      BY <3>1
    <3>3. Formats!Put(r, t, IF t \in DOMAIN r THEN Append(r[t], v) ELSE <<v>>) \in [S \cup {t} -> Values]
      <4> HIDE DEF Values
      <4>1. QED
        BY <2>1, <3>1, <3>2 DEF Formats!Put
    <3>4. S \cup {t} \in SUBSET Tags
      OBVIOUS
    <3>5. QED
      <4> HIDE DEF Values, Tags
      <4>1. QED
        BY <3>3, <3>4
  <2>4. QED
    BY <2>2, <2>3
<1>3. \A a \in D, line \in L : a.open # None /\ line.value \in Seq(Words) =>
        LET z == [a EXCEPT !.open[a.last] = Formats!Continued(@, line.value)] IN z \in D /\ z.open \in Record
  <2> SUFFICES ASSUME NEW a \in D, NEW line \in L, a.open # None, line.value \in Seq(Words)
               PROVE  LET z == [a EXCEPT !.open[a.last] = Formats!Continued(@, line.value)] IN z \in D /\ z.open \in Record
    OBVIOUS
  <2>1. PICK S \in SUBSET Tags : a.open \in [S -> Values]
    OBVIOUS
  <2> DEFINE new(q) == Formats!Continued(q, line.value)
  <2>2. \A q \in Values : new(q) \in Values
    <3> SUFFICES ASSUME NEW q \in Values PROVE new(q) \in Values
      OBVIOUS
    <3>1. q \in [1..Len(q) -> Seq(Words)] /\ Len(q) \in Nat
      OBVIOUS
    <3>2. Len(q) \in 1..Len(q) => q[Len(q)] \o line.value \in Seq(Words)
      BY <3>1
    <3>3. new(q) \in [1..Len(q) -> Seq(Words)]
      <4> HIDE DEF Words
      <4>1. QED
        BY <3>1, <3>2 DEF Formats!Continued
    <3>4. QED
      <4> HIDE DEF Words, new
      <4>1. QED
        BY <3>1, <3>3, ListedIsSequence
  <2>3. [a.open EXCEPT ![a.last] = new(a.open[a.last])] \in [S -> Values]
    <3> HIDE DEF Values, new
    <3>1. QED
      BY <2>1, <2>2
  <2>4. [a.open EXCEPT ![a.last] = new(a.open[a.last])] \in Record
    <3> HIDE DEF Values, new
    <3>1. QED
      BY <2>3
  <2>5. [a EXCEPT !.open = [a.open EXCEPT ![a.last] = new(a.open[a.last])]] \in D
    <3> HIDE DEF Record, Tags, new
    <3>1. QED
      BY <2>4
  <2>6. [a EXCEPT !.open = [a.open EXCEPT ![a.last] = new(a.open[a.last])]].open \in Record
    <3> HIDE DEF Record, Tags, new
    <3>1. a = [ok |-> a.ok, records |-> a.records, open |-> a.open, last |-> a.last]
      OBVIOUS
    <3>2. QED
      BY <2>4, <3>1
  <2>7. QED
    BY <2>5, <2>6
<1>4. \A a \in D, line \in L : Formats!RisLine(a, line) \in D
  <2> SUFFICES ASSUME NEW a \in D, NEW line \in L PROVE Formats!RisLine(a, line) \in D
    OBVIOUS
  <2>0. "TY" \in Tags
    OBVIOUS
  <2> HIDE DEF Record, Tags, Words, L
  <2>1. /\ a.ok \in BOOLEAN /\ a.records \in Seq(Record) /\ a.open \in Record \cup {None} /\ a.last \in Tags \cup {None}
        /\ line.value \in Seq(Words) /\ line.tag \in Tags
    BY <1>1
  <2>2. [a EXCEPT !.ok = FALSE] \in D
    OBVIOUS
  <2>3. CASE ~ a.ok \/ line.kind = "ignored"
    BY <2>3 DEF Formats!RisLine
  <2>4. CASE ~ (~ a.ok \/ line.kind = "ignored") /\ (line.kind = "malformed" \/ (a.open = None /\ (line.kind = "text" \/ line.tag # "TY")))
    BY <2>2, <2>4 DEF Formats!RisLine
  <2>5. CASE /\ ~ (~ a.ok \/ line.kind = "ignored")
             /\ ~ (line.kind = "malformed" \/ (a.open = None /\ (line.kind = "text" \/ line.tag # "TY")))
             /\ line.kind = "tag"
    <3>1. Formats!RisLine(a, line) = Formats!RisTag(a, line.tag, line.value)
      BY <2>5 DEF Formats!RisLine
    <3>2. CASE line.tag = "TY"
      <4> DEFINE o == [x \in {"TY"} |-> <<line.value>>]
      <4>1. o \in Record
        BY <1>2, <2>0, <2>1
      <4>2. [a EXCEPT !.open = o, !.last = "TY"] \in D
        <5> HIDE DEF o
        <5>1. QED
          BY <2>0, <4>1
      <4>3. QED
        BY <2>2, <3>1, <3>2, <4>2 DEF Formats!RisTag
    <3>3. CASE line.tag = "ER"
      <4>1. a.open \in Record
        BY <2>1, <2>5, <3>3
      <4>2. Append(a.records, a.open) \in Seq(Record)
        BY <2>1, <4>1
      <4>3. [a EXCEPT !.records = Append(a.records, a.open), !.open = None] \in D
        BY <4>2
      <4>4. QED
        BY <3>1, <3>3, <4>3 DEF Formats!RisTag
    <3>4. CASE line.tag # "TY" /\ line.tag # "ER"
      <4> DEFINE P == Formats!Put(a.open, line.tag, IF line.tag \in DOMAIN a.open THEN Append(a.open[line.tag], line.value)
                                              ELSE <<line.value>>)
      <4>1. P \in Record
        BY <1>2, <2>1, <2>5, <3>4
      <4>2. [a EXCEPT !.last = line.tag, !.open = P] \in D
        <5> HIDE DEF P
        <5>1. QED
          BY <2>1, <4>1
      <4>3. QED
        BY <3>1, <3>4, <4>2 DEF Formats!RisTag
    <3>5. QED
      BY <3>2, <3>3, <3>4
  <2>6. CASE /\ ~ (~ a.ok \/ line.kind = "ignored")
             /\ ~ (line.kind = "malformed" \/ (a.open = None /\ (line.kind = "text" \/ line.tag # "TY")))
             /\ line.kind # "tag"
    <3>1. a.open # None
      BY <2>6 DEF L
    <3>2. Formats!RisLine(a, line) = [a EXCEPT !.open[a.last] = Formats!Continued(@, line.value)]
      BY <2>6 DEF Formats!RisLine
    <3>3. QED
      <4> HIDE DEF D
      <4>1. QED
        BY <1>3, <2>1, <3>1, <3>2
  <2>7. QED
    BY <2>3, <2>4, <2>5, <2>6
<1>5. b \in D
  OBVIOUS
<1>6. \A n \in DOMAIN lines : lines[n] \in L
  BY DEF ToSet
<1>7. \A n \in DOMAIN lines : G[n] \in [D -> D]
  <2> HIDE DEF D, L
  <2>1. QED
    BY <1>4, <1>6
<1>8. PICK f : IsSequenceFold(f, lines, D, b, G)
  <2> HIDE DEF D, b, G
  <2>1. QED
    BY <1>5, <1>7, SequenceFoldExists
<1>9. \A s \in SUBSET DOMAIN lines : s # {} => Max(s) \in DOMAIN lines
  BY LastPosition
<1>10. Fold(f)
  <2> HIDE DEF b
  <2>1. ASSUME NEW s \in SUBSET DOMAIN lines, s # {}
        PROVE  G[Max(s)][f[s \ {Max(s)}]] = Formats!RisLine(f[s \ {Max(s)}], lines[Max(s)])
    <3> HIDE DEF D
    <3>1. f[s \ {Max(s)}] \in D
      BY <1>8, <2>1 DEF IsSequenceFold
    <3>2. QED
      BY <1>9, <2>1, <3>1
  <2>2. QED
    <3> HIDE DEF D, G
    <3>1. QED
      BY <1>8, <2>1 DEF IsSequenceFold
<1>11. Fold(iter)
  <2> HIDE DEF Fold
  <2>1. QED
    BY <1>10
<1>12. iter[DOMAIN lines] \in D
  <2> HIDE DEF iter, b, D, L
  <2>1. iter[{}] \in D
    BY <1>5, <1>11
  <2>2. ASSUME NEW s \in SUBSET DOMAIN lines, s # {}, iter[s \ {Max(s)}] \in D PROVE iter[s] \in D
    <3>1. iter[s] = Formats!RisLine(iter[s \ {Max(s)}], lines[Max(s)])
      BY <1>11, <2>2
    <3>2. QED
      BY <1>4, <1>6, <1>9, <2>2, <3>1
  <2>3. QED
    BY <2>1, <2>2, SequenceFoldStays
<1>13. Formats!ParseRis(lines) = IF iter[DOMAIN lines].ok /\ iter[DOMAIN lines].open = None
                                 THEN [ok |-> TRUE, records |-> iter[DOMAIN lines].records] ELSE Formats!Refused
  BY DEF Formats!ParseRis, Formats!FoldLeft, Formats!MapThenFoldSet, Formats!Max, Max
<1>14. None \notin Record
  OBVIOUS
<1> DEFINE Count(a) == Len(a.records) + (IF a.open = None THEN 0 ELSE 1)
           Starts(s) == {n \in s : StartsRecord(lines[n])}
<1>15. \A a \in D, line \in L : Formats!RisLine(a, line).ok =>
         a.ok /\ Count(Formats!RisLine(a, line)) = Count(a) + (IF StartsRecord(line) THEN 1 ELSE 0)
  <2> SUFFICES ASSUME NEW a \in D, NEW line \in L, Formats!RisLine(a, line).ok
               PROVE  a.ok /\ Count(Formats!RisLine(a, line)) = Count(a) + (IF StartsRecord(line) THEN 1 ELSE 0)
    OBVIOUS
  <2> HIDE DEF Record, Tags, Words, L
  <2>1. /\ a = [ok |-> a.ok, records |-> a.records, open |-> a.open, last |-> a.last]
        /\ a.ok \in BOOLEAN /\ a.records \in Seq(Record) /\ a.open \in Record \cup {None} /\ Len(a.records) \in Nat
        /\ line.value \in Seq(Words) /\ line.tag \in Tags
    BY <1>1
  <2>2. ~ [a EXCEPT !.ok = FALSE].ok
    BY <2>1
  <2>3. CASE ~ a.ok \/ line.kind = "ignored"
    <3>1. Formats!RisLine(a, line) = a /\ a.ok
      BY <2>3 DEF Formats!RisLine
    <3>2. ~ StartsRecord(line)
      BY <2>3, <3>1 DEF StartsRecord
    <3>3. Count(a) \in Nat
      BY <2>1
    <3> HIDE DEF Count
    <3>4. QED
      BY <3>1, <3>2, <3>3
  <2>4. CASE ~ (~ a.ok \/ line.kind = "ignored") /\ (line.kind = "malformed" \/ (a.open = None /\ (line.kind = "text" \/ line.tag # "TY")))
    BY <2>2, <2>4 DEF Formats!RisLine
  <2>5. CASE /\ ~ (~ a.ok \/ line.kind = "ignored")
             /\ ~ (line.kind = "malformed" \/ (a.open = None /\ (line.kind = "text" \/ line.tag # "TY")))
             /\ line.kind = "tag"
    <3>1. Formats!RisLine(a, line) = Formats!RisTag(a, line.tag, line.value) /\ a.ok
      BY <2>5 DEF Formats!RisLine
    <3>2. CASE line.tag = "TY"
      <4> DEFINE o == [x \in {"TY"} |-> <<line.value>>]
      <4>1. o \in Record /\ o # None
        <5>1. "TY" \in Tags
          BY DEF Tags
        <5>2. o \in Record
          BY <1>2, <2>1, <5>1
        <5> HIDE DEF o
        <5>3. QED
          BY <1>14, <5>2
      <4>2. a.open = None
        BY <2>2, <3>1, <3>2 DEF Formats!RisTag
      <4>3. Formats!RisLine(a, line) = [a EXCEPT !.open = o, !.last = "TY"]
        BY <3>1, <3>2, <4>2 DEF Formats!RisTag
      <4> HIDE DEF o
      <4>4. [a EXCEPT !.open = o, !.last = "TY"].records = a.records /\ [a EXCEPT !.open = o, !.last = "TY"].open = o
        BY <2>1
      <4>5. Count(Formats!RisLine(a, line)) = Len(a.records) + 1 /\ Count(a) = Len(a.records)
        BY <2>1, <4>1, <4>2, <4>3, <4>4
      <4>6. StartsRecord(line)
        BY <2>5, <3>2 DEF StartsRecord
      <4> HIDE DEF Count
      <4>7. QED
        BY <3>1, <4>5, <4>6
    <3>3. CASE line.tag = "ER"
      <4>1. a.open # None /\ a.open \in Record
        BY <2>1, <2>5, <3>3
      <4>2. Formats!RisLine(a, line) = [a EXCEPT !.records = Append(a.records, a.open), !.open = None]
        BY <3>1, <3>3 DEF Formats!RisTag
      <4>3. Len(Append(a.records, a.open)) = Len(a.records) + 1
        BY <2>1, <4>1
      <4>4. /\ [a EXCEPT !.records = Append(a.records, a.open), !.open = None].records = Append(a.records, a.open)
            /\ [a EXCEPT !.records = Append(a.records, a.open), !.open = None].open = None
        BY <2>1
      <4>5. QED
        BY <2>1, <3>1, <3>3, <4>1, <4>2, <4>3, <4>4 DEF StartsRecord
    <3>4. CASE line.tag # "TY" /\ line.tag # "ER"
      <4> DEFINE P == Formats!Put(a.open, line.tag, IF line.tag \in DOMAIN a.open THEN Append(a.open[line.tag], line.value)
                                              ELSE <<line.value>>)
      <4>1. P \in Record
        BY <1>2, <2>1, <2>5, <3>4
      <4>2. Formats!RisLine(a, line) = [a EXCEPT !.last = line.tag, !.open = P]
        BY <3>1, <3>4 DEF Formats!RisTag
      <4> HIDE DEF P
      <4>3. [a EXCEPT !.last = line.tag, !.open = P].records = a.records /\ [a EXCEPT !.last = line.tag, !.open = P].open = P
        BY <2>1
      <4>4. a.open # None /\ P # None
        BY <1>14, <2>5, <3>4, <4>1
      <4>5. QED
        BY <2>1, <3>1, <3>4, <4>2, <4>3, <4>4 DEF StartsRecord
    <3>5. QED
      BY <3>2, <3>3, <3>4
  <2>6. CASE /\ ~ (~ a.ok \/ line.kind = "ignored")
             /\ ~ (line.kind = "malformed" \/ (a.open = None /\ (line.kind = "text" \/ line.tag # "TY")))
             /\ line.kind # "tag"
    <3> DEFINE z == [a EXCEPT !.open[a.last] = Formats!Continued(@, line.value)]
    <3>1. a.open # None
      BY <2>6 DEF L
    <3>2. Formats!RisLine(a, line) = z
      BY <2>6 DEF Formats!RisLine
    <3>3. z.open \in Record
      BY <1>3, <2>1, <3>1
    <3>4. z.records = a.records /\ z.ok = a.ok /\ z.open = [a.open EXCEPT ![a.last] = Formats!Continued(@, line.value)]
      BY <2>1
    <3> HIDE DEF z
    <3>5. z.open # None
      BY <1>14, <3>3
    <3>6. QED
      BY <2>1, <2>6, <3>1, <3>2, <3>4, <3>5 DEF StartsRecord
  <2>7. QED
    BY <2>3, <2>4, <2>5, <2>6
<1>16. iter[DOMAIN lines].ok => Count(iter[DOMAIN lines]) = Cardinality(Starts(DOMAIN lines))
  <2> DEFINE Q == {s \in SUBSET DOMAIN lines : iter[s] \in D /\ (iter[s].ok => Count(iter[s]) = Cardinality(Starts(s)))}
  <2>1. ASSUME NEW s \in SUBSET DOMAIN lines, \A t \in SUBSET s : t # s => t \in Q PROVE s \in Q
    <3>1. CASE s = {}
      <4>1. Starts(s) = {} /\ Cardinality({}) = 0
        BY <3>1, FS_EmptySet
      <4>2. iter[s] = b
        <5> HIDE DEF iter, b
        <5>1. QED
          BY <1>11, <3>1
      <4>3. Count(b) = 0
        OBVIOUS
      <4> HIDE DEF iter, D, Starts, b, Count
      <4>4. QED
        BY <1>5, <3>1, <4>1, <4>2, <4>3
    <3>2. CASE s # {}
      <4> DEFINE m == Max(s)
                 t == s \ {m}
      <4>1. m \in s /\ m \in DOMAIN lines
        BY <3>2, LastPosition
      <4>2. iter[s] = Formats!RisLine(iter[t], lines[m])
        <5> HIDE DEF iter, b
        <5>1. QED
          BY <1>11, <3>2
      <4> HIDE DEF m
      <4>3. t \in Q
        BY <2>1, <4>1
      <4>4. Starts(s) = IF StartsRecord(lines[m]) THEN Starts(t) \cup {m} ELSE Starts(t)
        BY <4>1
      <4>5. IsFiniteSet(Starts(t)) /\ m \notin Starts(t)
        <5>1. IsFiniteSet(DOMAIN lines) /\ Starts(t) \subseteq DOMAIN lines
          BY LastPosition
        <5>2. IsFiniteSet(Starts(t))
          <6> HIDE DEF Starts
          <6>1. QED
            BY <5>1, FS_Subset
        <5>3. QED
          BY <5>2
      <4> HIDE DEF iter, D, Starts, Count, L
      <4>6. Cardinality(Starts(s)) = Cardinality(Starts(t)) + (IF StartsRecord(lines[m]) THEN 1 ELSE 0) /\ Cardinality(Starts(t)) \in Nat
        <5>1. /\ Cardinality(Starts(t) \cup {m}) = Cardinality(Starts(t)) + 1
              /\ Cardinality(Starts(t)) \in Nat
          BY <4>5, FS_AddElement, FS_CardinalityType
        <5>2. QED
          BY <4>4, <5>1
      <4>7. iter[t] \in D /\ lines[m] \in L
        BY <1>6, <4>1, <4>3
      <4>8. iter[s] \in D
        BY <1>4, <4>2, <4>7
      <4>9. iter[s].ok => Count(iter[s]) = Cardinality(Starts(s))
        BY <1>15, <4>2, <4>3, <4>6, <4>7
      <4>10. QED
        BY <4>8, <4>9
    <3>3. QED
      BY <3>1, <3>2
  <2>2. \A s \in SUBSET DOMAIN lines : s \in Q
    <3>1. IsFiniteSet(DOMAIN lines)
      BY LastPosition
    <3> HIDE DEF Q
    <3>2. QED
      BY <2>1, <3>1, SubsetInduction
  <2>3. QED
    BY <2>2
<1>17. QED
  <2> HIDE DEF iter, Record
  <2>1. iter[DOMAIN lines].records \in Seq(Record)
    BY <1>12
  <2>2. \E k \in Nat : DOMAIN iter[DOMAIN lines].records = 1..k
    BY <2>1
  <2>3. DOMAIN <<>> = 1..0
    OBVIOUS
  <2>4. \/ Formats!ParseRis(lines).records = iter[DOMAIN lines].records /\ iter[DOMAIN lines].ok /\ iter[DOMAIN lines].open = None
        \/ Formats!ParseRis(lines).records = <<>> /\ ~ Formats!ParseRis(lines).ok
    BY <1>13 DEF Formats!Refused
  <2>5. iter[DOMAIN lines].ok /\ iter[DOMAIN lines].open = None =>
          Cardinality(DOMAIN iter[DOMAIN lines].records) = Cardinality(Starts(DOMAIN lines))
    <3>1. Len(iter[DOMAIN lines].records) \in Nat /\ DOMAIN iter[DOMAIN lines].records = 1..Len(iter[DOMAIN lines].records)
      BY <2>1
    <3>2. Cardinality(1..Len(iter[DOMAIN lines].records)) = Len(iter[DOMAIN lines].records)
      BY <3>1, FS_Interval
    <3> HIDE DEF Starts
    <3>3. QED
      BY <1>16, <3>1, <3>2
  <2>6. QED
    BY <2>2, <2>3, <2>4, <2>5

\* The entries a BibTeX file is read into are a sequence.
LEMMA BibtexRecordsAreListed ==
  ASSUME NEW tokens, tokens \in Seq(ToSet(tokens))
  PROVE  \E k \in Nat : DOMAIN Formats!ParseBibtex(tokens).records = 1..k
<1> DEFINE L == ToSet(tokens)
           V == {t.word : t \in L} \cup {t.kind : t \in L} \cup {None}
           States == {"refused", "braced", "quoted", "skipped", "key", "entry", "type", "body", "field",
                      "separator", "equals", "value"}
           Fields == UNION {[S -> Seq(V)] : S \in SUBSET V}
           E == [type : V, key : Seq(V), fields : Fields]
           D == [expect : States, depth : Int, records : Seq(E), entry : E, field : V, text : Seq(V)]
           G == [n \in DOMAIN tokens |-> [a \in D |-> Formats!BibStep(a, tokens[n])]]
           Fold(f) == f = [s \in SUBSET DOMAIN tokens |-> IF s = {} THEN Formats!BibStart
                             ELSE Formats!BibStep(f[s \ {Max(s)}], tokens[Max(s)])]
           iter == CHOOSE g : Fold(g)
<1>1. \A t \in L : t.word \in V /\ t.kind \in V
  OBVIOUS
<1>2. Formats!Entry \in E
  <2>1. <<>> \in [{} -> Seq(V)] /\ {} \in SUBSET V
    OBVIOUS
  <2>2. <<>> \in Fields
    <3> HIDE DEF V
    <3>1. QED
      BY <2>1
  <2>3. None \in V /\ <<>> \in Seq(V)
    OBVIOUS
  <2>4. QED
    <3> HIDE DEF V, Fields
    <3>1. QED
      BY <2>2, <2>3 DEF Formats!Entry
<1>3. \A f \in Fields, x \in V, v \in Seq(V) : Formats!Put(f, x, v) \in Fields
  <2> SUFFICES ASSUME NEW f \in Fields, NEW x \in V, NEW v \in Seq(V) PROVE Formats!Put(f, x, v) \in Fields
    OBVIOUS
  <2> HIDE DEF V
  <2>1. PICK S \in SUBSET V : f \in [S -> Seq(V)]
    OBVIOUS
  <2>2. Formats!Put(f, x, v) \in [S \cup {x} -> Seq(V)]
    BY <2>1 DEF Formats!Put
  <2>3. S \cup {x} \in SUBSET V
    OBVIOUS
  <2>4. QED
    BY <2>2, <2>3
<1>4. \A a \in D, t \in L : Formats!BibStep(a, t) \in D
  <2> SUFFICES ASSUME NEW a \in D, NEW t \in L PROVE Formats!BibStep(a, t) \in D
    OBVIOUS
  <2>0. t.word \in V /\ t.kind \in V
    BY <1>1
  <2>1. /\ a.expect \in States /\ a.depth \in Int /\ a.records \in Seq(E) /\ a.entry \in E /\ a.field \in V /\ a.text \in Seq(V)
        /\ a.entry.key \in Seq(V) /\ a.entry.fields \in Fields
    <3> HIDE DEF V, Fields, States
    <3>1. QED
      OBVIOUS
  <2> HIDE DEF V, Fields, L
  <2>2. \A w \in States : [a EXCEPT !.expect = w] \in D
    OBVIOUS
  <2>3. [a EXCEPT !.text = Append(a.text, t.word)] \in D
    <3>1. Append(a.text, t.word) \in Seq(V)
      BY <2>0, <2>1
    <3>2. QED
      <4> HIDE DEF E, States
      <4>1. QED
        BY <3>1
  <2>4. Formats!Assign(a) \in D
    <3> DEFINE p == Formats!Put(a.entry.fields, a.field, a.text)
    <3>1. p \in Fields
      BY <1>3, <2>1
    <3>2. [a.entry EXCEPT !.fields = p] \in E
      <4> HIDE DEF p
      <4>1. QED
        BY <2>1, <3>1
    <3>3. [a EXCEPT !.expect = "separator", !.entry = [a.entry EXCEPT !.fields = p]] \in D
      <4> HIDE DEF p, E
      <4>1. QED
        BY <3>2
    <3>4. QED
      <4> HIDE DEF D, E
      <4>1. QED
        BY <3>3 DEF Formats!Assign
  <2>5. Formats!Emit(a) \in D
    <3>1. Append(a.records, a.entry) \in Seq(E)
      BY <2>1
    <3>2. QED
      <4> HIDE DEF E
      <4>1. QED
        BY <3>1 DEF Formats!Emit
  <2>6. \A v \in V : [a EXCEPT !.entry.key = Append(a.entry.key, v)] \in D
    <3> SUFFICES ASSUME NEW v \in V PROVE [a EXCEPT !.entry.key = Append(a.entry.key, v)] \in D
      OBVIOUS
    <3>0. Append(a.entry.key, v) \in Seq(V)
      BY <2>1
    <3>1. [a.entry EXCEPT !.key = Append(a.entry.key, v)] \in E
      BY <2>1, <3>0
    <3>2. [a EXCEPT !.entry = [a.entry EXCEPT !.key = Append(a.entry.key, v)]] \in D
      <4> HIDE DEF E
      <4>1. QED
        BY <3>1
    <3>3. QED
      BY <3>2
  <2>7. [a EXCEPT !.depth = a.depth + 1] \in D /\ [a EXCEPT !.depth = a.depth - 1] \in D
    <3>1. \A d \in Int : [a EXCEPT !.depth = d] \in D
      <4> HIDE DEF E, States
      <4>1. QED
        OBVIOUS
    <3>2. a.depth + 1 \in Int /\ a.depth - 1 \in Int
      BY <2>1
    <3>3. QED
      <4> HIDE DEF D
      <4>1. QED
        BY <3>1, <3>2
  <2>8. /\ [a EXCEPT !.expect = "type", !.entry = Formats!Entry] \in D
        /\ [a EXCEPT !.expect = "body", !.entry.type = t.word] \in D
    <3>1. [a.entry EXCEPT !.type = t.word] \in E
      BY <2>0, <2>1
    <3>2. [a EXCEPT !.expect = "body", !.entry = [a.entry EXCEPT !.type = t.word]] \in D
      <4> HIDE DEF E
      <4>1. QED
        BY <3>1
    <3>3. QED
      BY <1>2, <3>2
  <2>9. /\ \A w \in States : [a EXCEPT !.expect = w, !.depth = 1] \in D
        /\ \A w \in States : [a EXCEPT !.expect = w, !.depth = 1, !.text = <<>>] \in D
        /\ [a EXCEPT !.expect = "equals", !.field = t.word] \in D
    <3>1. "equals" \in States /\ <<>> \in Seq(V) /\ 1 \in Int
      OBVIOUS
    <3> HIDE DEF E, States
    <3>2. \A w \in States : [a EXCEPT !.expect = w, !.depth = 1] \in D
      BY <3>1
    <3>3. \A w \in States : [a EXCEPT !.expect = w, !.depth = 1, !.text = <<>>] \in D
      BY <3>1
    <3>4. [a EXCEPT !.expect = "equals", !.field = t.word] \in D
      BY <2>0, <3>1
    <3>5. QED
      BY <3>2, <3>3, <3>4
  <2>10. CASE a.expect = "refused"
    BY <2>10 DEF Formats!BibStep
  <2>11. CASE a.expect \in {"braced", "quoted", "skipped"}
    <3> HIDE DEF D
    <3>1. QED
      BY <2>2, <2>3, <2>4, <2>7, <2>11 DEF Formats!BibStep, Formats!Expect, States
  <2>12. CASE a.expect = "key"
    <3> HIDE DEF D
    <3>1. QED
      BY <2>0, <2>2, <2>5, <2>6, <2>12 DEF Formats!BibStep, Formats!Expect, States
  <2>13. CASE a.expect \in {"entry", "type", "body"}
    <3> HIDE DEF D
    <3>1. QED
      BY <2>2, <2>8, <2>9, <2>13 DEF Formats!BibStep, Formats!Expect, States
  <2>14. CASE a.expect \in {"field", "separator", "equals", "value"}
    <3> HIDE DEF D
    <3>1. QED
      BY <2>2, <2>5, <2>9, <2>14 DEF Formats!BibStep, Formats!Expect, States
  <2>15. QED
    BY <2>1, <2>10, <2>11, <2>12, <2>13, <2>14
<1>5. Formats!BibStart \in D
  <2> HIDE DEF E
  <2>1. None \in V
    OBVIOUS
  <2>2. QED
    <3> HIDE DEF V
    <3>1. QED
      BY <1>2, <2>1 DEF Formats!BibStart
<1>6. \A n \in DOMAIN tokens : tokens[n] \in L
  BY DEF ToSet
<1>7. \A n \in DOMAIN tokens : G[n] \in [D -> D]
  <2> HIDE DEF D, L
  <2>1. QED
    BY <1>4, <1>6
<1>8. PICK f : IsSequenceFold(f, tokens, D, Formats!BibStart, G)
  <2> HIDE DEF D, G
  <2>1. QED
    BY <1>5, <1>7, SequenceFoldExists
<1>9. \A s \in SUBSET DOMAIN tokens : s # {} => Max(s) \in DOMAIN tokens
  BY LastPosition
<1>10. Fold(f)
  <2>1. ASSUME NEW s \in SUBSET DOMAIN tokens, s # {}
        PROVE  G[Max(s)][f[s \ {Max(s)}]] = Formats!BibStep(f[s \ {Max(s)}], tokens[Max(s)])
    <3> HIDE DEF D
    <3>1. f[s \ {Max(s)}] \in D
      BY <1>8, <2>1 DEF IsSequenceFold
    <3>2. QED
      BY <1>9, <2>1, <3>1
  <2>2. QED
    <3> HIDE DEF D, G
    <3>1. QED
      BY <1>8, <2>1 DEF IsSequenceFold
<1>11. Fold(iter)
  <2> HIDE DEF Fold
  <2>1. QED
    BY <1>10
<1>12. iter[DOMAIN tokens] \in D
  <2> HIDE DEF iter, D, L
  <2>1. iter[{}] \in D
    BY <1>5, <1>11
  <2>2. ASSUME NEW s \in SUBSET DOMAIN tokens, s # {}, iter[s \ {Max(s)}] \in D PROVE iter[s] \in D
    <3>1. iter[s] = Formats!BibStep(iter[s \ {Max(s)}], tokens[Max(s)])
      BY <1>11, <2>2
    <3>2. QED
      BY <1>4, <1>6, <1>9, <2>2, <3>1
  <2>3. QED
    BY <2>1, <2>2, SequenceFoldStays
<1>13. Formats!ParseBibtex(tokens) = IF iter[DOMAIN tokens].expect = "entry"
                                     THEN [ok |-> TRUE, records |-> iter[DOMAIN tokens].records] ELSE Formats!Refused
  BY DEF Formats!ParseBibtex, Formats!FoldLeft, Formats!MapThenFoldSet, Formats!Max, Max
<1>14. QED
  <2> HIDE DEF iter, E
  <2>1. iter[DOMAIN tokens].records \in Seq(E)
    BY <1>12
  <2>2. \E k \in Nat : DOMAIN iter[DOMAIN tokens].records = 1..k
    BY <2>1
  <2>3. DOMAIN <<>> = 1..0
    OBVIOUS
  <2>4. Formats!ParseBibtex(tokens).records = iter[DOMAIN tokens].records \/ Formats!ParseBibtex(tokens).records = <<>>
    BY <1>13 DEF Formats!Refused
  <2>5. QED
    BY <2>2, <2>3, <2>4

\* What the proofs need to know of the entries of a file: they are numbered, the
\* occurrences are distinct ids of rows, and no occurrence or row is None.
EntriesAreGiven(es) ==
  /\ \E k \in Nat : DOMAIN es = 1..k
  /\ \A m, n \in DOMAIN es : es[m].occ = es[n].occ => m = n
  /\ \A n \in DOMAIN es : /\ es[n].occ # None /\ es[n].occ[1] \in FileLabels /\ es[n].key[1] \in FileLabels
                          /\ \A i \in 1..MaxImports : FileRow(i, n) # None

\* Equal records of a file are told apart by how many came before them.
LEMMA OccurrencesDiffer ==
  ASSUME NEW label, NEW name, NEW contents, NEW m \in Nat, NEW n \in Nat, m < n
  PROVE  Occurrence(label, name, contents, m) # Occurrence(label, name, contents, n)
<1> SUFFICES ASSUME Occurrence(label, name, contents, m) = Occurrence(label, name, contents, n) PROVE FALSE
  OBVIOUS
<1> DEFINE A == {j \in 1..m : contents[j] = contents[m]}
           B == {j \in 1..n : contents[j] = contents[n]}
<1>1. contents[m] = contents[n] /\ Cardinality(A) = Cardinality(B)
  BY DEF Occurrence
<1>2. IsFiniteSet(B)
  <2>1. IsFiniteSet(1..n) /\ B \in SUBSET (1..n)
    BY FS_Interval
  <2>2. QED
    BY <2>1, FS_Subset
<1>3. A \in SUBSET B
  BY <1>1
<1>4. A = B
  <2> HIDE DEF A, B
  <2>1. QED
    BY <1>1, <1>2, <1>3, FS_Subset
<1>5. CASE n > 0
  BY <1>4, <1>5
<1>6. CASE n = 0
  BY <1>6
<1>7. QED
  BY <1>5, <1>6

\* Every file that is read gives records with occurrences of their own.
LEMMA FilesGiveEntries ==
  \A f \in DOMAIN Files : EntriesAreGiven(Uploads[f].entries)
<1> SUFFICES ASSUME NEW f \in DOMAIN Files PROVE EntriesAreGiven(Uploads[f].entries)
  OBVIOUS
<1> DEFINE file == Files[f]
           read == Formats!ReadFile(file)
           reads == [x \in DOMAIN Files |-> Formats!ReadFile(Files[x])]
           prints == RawFingerprints(read, RawRecords(reads))
           es == Uploads[f].entries
<1>1. es = [n \in DOMAIN read.docs |->
              [occ |-> Occurrence(file.format, file.name, prints, n), doi |-> read.docs[n].doi,
               work |-> read.docs[n].title, key |-> <<file.format, read.docs[n].key>>]]
  <2>1. reads[f] = read
    OBVIOUS
  <2> HIDE DEF reads, read
  <2>2. Uploads = Uploaded(Files, reads)
    BY DEF Uploads, reads
  <2>3. Uploads[f] = Upload(file, read, prints)
    BY <2>1, <2>2 DEF Uploaded, UploadsOf
  <2>4. QED
    <3> HIDE DEF prints
    <3>1. QED
      BY <2>3 DEF Upload
<1>2. \E k \in Nat : DOMAIN read.docs = 1..k
  <2> DEFINE parsed == IF file.format = "ris" THEN Formats!ParseRis(file.content) ELSE Formats!ParseBibtex(file.content)
  <2>1. \E k \in Nat : DOMAIN parsed.records = 1..k
    <3>1. CASE file.format = "ris"
      BY <3>1, RisRecordsAreListed, ImportsAssumption, OpenRecordAssumption
    <3>2. CASE file.format # "ris"
      BY <3>2, BibtexRecordsAreListed, ImportsAssumption
    <3>3. QED
      BY <3>1, <3>2
  <2>2. read.docs = Formats!Documents(file.format, parsed.records)
    <3> HIDE DEF file
    <3>1. read = Formats!Outcome(parsed, Formats!Documents(file.format, parsed.records))
      BY DEF Formats!ReadFile, Formats!Mapped
    <3> HIDE DEF read, parsed
    <3>2. QED
      BY <3>1 DEF Formats!Outcome
  <2>3. DOMAIN read.docs = DOMAIN parsed.records
    <3> HIDE DEF read, parsed
    <3>1. QED
      BY <2>2 DEF Formats!Documents
  <2>4. QED
    <3> HIDE DEF read, parsed
    <3>1. QED
      BY <2>1, <2>3
<1> HIDE DEF read, prints
<1>3. ASSUME NEW m \in DOMAIN es, NEW n \in DOMAIN es, es[m].occ = es[n].occ PROVE m = n
  <2> HIDE DEF es
  <2>1. m \in Nat /\ n \in Nat
    BY <1>1, <1>2
  <2>2. Occurrence(file.format, file.name, prints, m) = Occurrence(file.format, file.name, prints, n)
    BY <1>1, <1>3
  <2>3. ~ (m < n) /\ ~ (n < m)
    BY <2>1, <2>2, OccurrencesDiffer
  <2>4. QED
    BY <2>1, <2>3
<1>4. file.format \in FileLabels
  BY ImportsAssumption
<1>5. \A n \in DOMAIN es : es[n].occ # None /\ \A i \in 1..MaxImports : FileRow(i, n) # None
  <2> HIDE DEF es
  <2>1. QED
    BY IdentifiersAssumption DEF Records, es
<1>6. \A n \in DOMAIN es : es[n].occ[1] \in FileLabels /\ es[n].key[1] \in FileLabels
  <2> HIDE DEF es
  <2>1. QED
    BY <1>1, <1>4 DEF Occurrence
<1>7. QED
  <2> HIDE DEF es
  <2>1. QED
    <3>1. \E k \in Nat : DOMAIN es = 1..k
      BY <1>1, <1>2
    <3>2. EntriesAreGiven(es)
      BY <1>3, <1>5, <1>6, <3>1 DEF EntriesAreGiven
    <3>3. QED
      BY <3>2 DEF es

\* An upload has the format of its file, and one that is read has a record.
LEMMA UploadsAreRead ==
  ASSUME NEW f \in DOMAIN Files
  PROVE  /\ Uploads[f].format = Files[f].format
         /\ Uploads[f].ok = Formats!ReadFile(Files[f]).ok /\ Records(f) = DOMAIN Formats!ReadFile(Files[f]).docs
         /\ Uploads[f].ok => Records(f) # {}
<1> DEFINE file == Files[f]
           read == Formats!ReadFile(file)
           reads == [x \in DOMAIN Files |-> Formats!ReadFile(Files[x])]
           prints == RawFingerprints(read, RawRecords(reads))
<1>1. Uploads[f] = Upload(file, read, prints)
  <2>1. reads[f] = read
    OBVIOUS
  <2> HIDE DEF reads, read
  <2>2. Uploads = Uploaded(Files, reads)
    BY DEF Uploads, reads
  <2>3. QED
    BY <2>1, <2>2 DEF Uploaded, UploadsOf
<1>2. read.ok => DOMAIN read.docs # {}
  <2> DEFINE parsed == IF file.format = "ris" THEN Formats!ParseRis(file.content) ELSE Formats!ParseBibtex(file.content)
             docs == Formats!Documents(file.format, parsed.records)
  <2>1. read = Formats!Outcome(parsed, docs)
    <3> HIDE DEF file
    <3>1. QED
      BY DEF Formats!ReadFile, Formats!Mapped
  <2>2. docs = [n \in DOMAIN docs |-> docs[n]]
    <3> HIDE DEF parsed, file
    <3>1. QED
      BY DEF Formats!Documents
  <2> HIDE DEF read, docs, parsed
  <2>3. read.ok => docs # <<>>
    BY <2>1 DEF Formats!Outcome
  <2>4. read.docs = docs
    BY <2>1 DEF Formats!Outcome
  <2>5. DOMAIN docs = {} => docs = <<>>
    BY <2>2
  <2>6. QED
    BY <2>3, <2>4, <2>5
<1> HIDE DEF read, prints
<1>3. Uploads[f].format = file.format /\ Uploads[f].ok = read.ok /\ DOMAIN Uploads[f].entries = DOMAIN read.docs
  BY <1>1 DEF Upload
<1>4. QED
  BY <1>2, <1>3 DEF Records, read, file

\* A RIS file that is read gives an entry for each of its TY lines.
LEMMA RisFilesAreCounted ==
  ASSUME NEW f \in DOMAIN Files, Files[f].format = "ris", Uploads[f].ok
  PROVE  Cardinality(Records(f)) = Entries("ris", Files[f].content)
<1> DEFINE file == Files[f]
           parsed == Formats!ParseRis(file.content)
           docs == Formats!Documents(file.format, parsed.records)
           read == Formats!ReadFile(file)
<1>1. read = Formats!Outcome(parsed, docs)
  <2> HIDE DEF file
  <2>1. file.format = "ris"
    BY DEF file
  <2>2. QED
    BY <2>1 DEF Formats!ReadFile, Formats!Mapped
<1>2. DOMAIN docs = DOMAIN parsed.records
  <2> HIDE DEF parsed, file
  <2>1. QED
    BY DEF Formats!Documents
<1>3. parsed.ok => Cardinality(DOMAIN parsed.records) = Cardinality({n \in DOMAIN file.content : StartsRecord(file.content[n])})
  BY RisRecordsAreListed, ImportsAssumption, OpenRecordAssumption
<1>4. Uploads[f].ok = read.ok /\ Records(f) = DOMAIN read.docs
  BY UploadsAreRead
<1> HIDE DEF read, parsed, docs
<1>5. (read.ok => parsed.ok) /\ read.docs = docs
  BY <1>1 DEF Formats!Outcome
<1>6. Cardinality({n \in DOMAIN file.content : StartsRecord(file.content[n])}) = Entries("ris", file.content)
  BY DEF Entries, StartsRecord
<1>7. QED
  BY <1>2, <1>3, <1>4, <1>5, <1>6

\* The publications a search handles, over given keys, values, texts and
\* verdicts; what it knows of abstracts; and key lists that start with a key.
KeyLists(K) == {s \in Seq(K) : s # <<>> /\ s[1] # None}
PublicationsOf(K, V, T, F) ==
  [prov : KeyLists(K), doi : V, work : V, text : [title : T, abstract : T], fits : F]
KnownOf(L, V, T) == UNION {[S -> [text : T, source : L]] : S \in SUBSET V}

\* Appending the key of another provider leaves the first key of a list.
LEMMA KeysAppend ==
  ASSUME NEW K, NEW s \in KeyLists(K), NEW k \in K
  PROVE  Append(s, k) \in KeyLists(K)
<1>1. s \in Seq(K) /\ s # <<>> /\ s[1] # None /\ Len(s) \in Nat /\ Len(s) # 0
  BY DEF KeyLists
<1>2. Append(s, k) \in Seq(K) /\ Append(s, k) # <<>> /\ Append(s, k)[1] = s[1]
  BY <1>1
<1>3. QED
  BY <1>1, <1>2 DEF KeyLists

\* What the merging of two key lists does with one key.
KeyStep(old, keys, k) == IF k \in ToSet(old) THEN keys ELSE Append(keys, k)

\* Merging the keys of two records leaves a list that starts with a key.
LEMMA KeysMerge ==
  ASSUME NEW K, NEW old \in KeyLists(K), NEW new \in KeyLists(K)
  PROVE  FoldLeft(LAMBDA keys, k : IF k \in ToSet(old) THEN keys ELSE Append(keys, k), old, new) \in KeyLists(K)
<1> DEFINE D == KeyLists(K)
           G == [n \in DOMAIN new |-> [a \in D |-> KeyStep(old, a, new[n])]]
           Fold(f) == f = [s \in SUBSET DOMAIN new |-> IF s = {} THEN old
                             ELSE KeyStep(old, f[s \ {Max(s)}], new[Max(s)])]
           iter == CHOOSE g : Fold(g)
<1>1. new \in Seq(K)
  BY DEF KeyLists
<1>2. \A a \in D, x \in K : KeyStep(old, a, x) \in D
  BY KeysAppend DEF KeyStep
<1>3. old \in D
  OBVIOUS
<1>4. \A n \in DOMAIN new : new[n] \in K
  BY <1>1
<1>5. \A n \in DOMAIN new : G[n] \in [D -> D]
  <2> HIDE DEF D
  <2>1. QED
    BY <1>2, <1>4
<1>6. PICK f : IsSequenceFold(f, new, D, old, G)
  <2> HIDE DEF D, G
  <2>1. QED
    BY <1>3, <1>5, <1>1, SequenceFoldExists
<1>7. \A s \in SUBSET DOMAIN new : s # {} => Max(s) \in DOMAIN new
  BY <1>1, LastPosition
<1>8. Fold(f)
  <2>1. ASSUME NEW s \in SUBSET DOMAIN new, s # {}
        PROVE  G[Max(s)][f[s \ {Max(s)}]] = KeyStep(old, f[s \ {Max(s)}], new[Max(s)])
    <3> HIDE DEF D
    <3>1. f[s \ {Max(s)}] \in D
      BY <1>6, <2>1 DEF IsSequenceFold
    <3>2. QED
      BY <1>7, <2>1, <3>1
  <2>2. QED
    <3> HIDE DEF D, G
    <3>1. QED
      BY <1>6, <2>1 DEF IsSequenceFold
<1>9. Fold(iter)
  <2> HIDE DEF Fold
  <2>1. QED
    BY <1>8
<1>10. iter[DOMAIN new] \in D
  <2> HIDE DEF D, iter
  <2>1. iter[{}] \in D
    BY <1>3, <1>9
  <2>2. ASSUME NEW s \in SUBSET DOMAIN new, s # {}, iter[s \ {Max(s)}] \in D PROVE iter[s] \in D
    <3>1. iter[s] = KeyStep(old, iter[s \ {Max(s)}], new[Max(s)])
      BY <1>9, <2>2
    <3>2. QED
      BY <1>2, <1>4, <1>7, <2>2, <3>1
  <2>3. QED
    BY <1>1, <2>1, <2>2, SequenceFoldStays
<1>11. FoldLeft(LAMBDA keys, k : IF k \in ToSet(old) THEN keys ELSE Append(keys, k), old, new) = iter[DOMAIN new]
  BY DEF FoldLeft, MapThenFoldSet, KeyStep
<1>12. QED
  <2> HIDE DEF iter
  <2>1. QED
    BY <1>10, <1>11

\* Two merged results are a result with a leading key.
LEMMA MergeTwoStays ==
  ASSUME NEW K, NEW V, NEW T, NEW F, NEW a \in PublicationsOf(K, V, T, F), NEW b \in PublicationsOf(K, V, T, F)
  PROVE  MergeTwo(a, b) \in PublicationsOf(K, V, T, F)
<1> DEFINE text == [f \in DOMAIN a.text |-> IF a.text[f] = None THEN b.text[f] ELSE a.text[f]]
           prov == FoldLeft(LAMBDA keys, k : IF k \in ToSet(a.prov) THEN keys ELSE Append(keys, k), a.prov, b.prov)
<1>1. a.prov \in KeyLists(K) /\ b.prov \in KeyLists(K)
  BY DEF PublicationsOf
<1>2. prov \in KeyLists(K)
  BY <1>1, KeysMerge
<1>3. text \in [title : T, abstract : T]
  BY DEF PublicationsOf
<1>4. MergeTwo(a, b) = [a EXCEPT !.text = text, !.prov = prov]
  BY DEF MergeTwo
<1>5. QED
  <2> HIDE DEF text, prov
  <2>1. QED
    BY <1>2, <1>3, <1>4 DEF PublicationsOf

\* What the filter by the query does with one publication.
RetainStep(query, kept, p) == IF QueryStatus(query, p) = "non_match" THEN kept ELSE Append(kept, p)

\* The filter by the query returns results it was given.
LEMMA RetainedStays ==
  ASSUME NEW P, NEW query, NEW ps \in Seq(P)
  PROVE  Retained(query, ps) \in Seq(P)
<1> DEFINE D == Seq(P)
           G == [n \in DOMAIN ps |-> [a \in D |-> RetainStep(query, a, ps[n])]]
           Fold(f) == f = [s \in SUBSET DOMAIN ps |-> IF s = {} THEN <<>>
                             ELSE RetainStep(query, f[s \ {Max(s)}], ps[Max(s)])]
           iter == CHOOSE g : Fold(g)
<1>1. ps \in Seq(P)
  OBVIOUS
<1>2. \A a \in D, x \in P : RetainStep(query, a, x) \in D
  BY DEF RetainStep
<1>3. <<>> \in D
  OBVIOUS
<1>4. \A n \in DOMAIN ps : ps[n] \in P
  BY <1>1
<1>5. \A n \in DOMAIN ps : G[n] \in [D -> D]
  <2> HIDE DEF D
  <2>1. QED
    BY <1>2, <1>4
<1>6. PICK f : IsSequenceFold(f, ps, D, <<>>, G)
  <2> HIDE DEF D, G
  <2>1. QED
    BY <1>3, <1>5, <1>1, SequenceFoldExists
<1>7. \A s \in SUBSET DOMAIN ps : s # {} => Max(s) \in DOMAIN ps
  BY <1>1, LastPosition
<1>8. Fold(f)
  <2>1. ASSUME NEW s \in SUBSET DOMAIN ps, s # {}
        PROVE  G[Max(s)][f[s \ {Max(s)}]] = RetainStep(query, f[s \ {Max(s)}], ps[Max(s)])
    <3> HIDE DEF D
    <3>1. f[s \ {Max(s)}] \in D
      BY <1>6, <2>1 DEF IsSequenceFold
    <3>2. QED
      BY <1>7, <2>1, <3>1
  <2>2. QED
    <3> HIDE DEF D, G
    <3>1. QED
      BY <1>6, <2>1 DEF IsSequenceFold
<1>9. Fold(iter)
  <2> HIDE DEF Fold
  <2>1. QED
    BY <1>8
<1>10. iter[DOMAIN ps] \in D
  <2> HIDE DEF D, iter
  <2>1. iter[{}] \in D
    BY <1>3, <1>9
  <2>2. ASSUME NEW s \in SUBSET DOMAIN ps, s # {}, iter[s \ {Max(s)}] \in D PROVE iter[s] \in D
    <3>1. iter[s] = RetainStep(query, iter[s \ {Max(s)}], ps[Max(s)])
      BY <1>9, <2>2
    <3>2. QED
      BY <1>2, <1>4, <1>7, <2>2, <3>1
  <2>3. QED
    BY <1>1, <2>1, <2>2, SequenceFoldStays
<1>11. Retained(query, ps) = iter[DOMAIN ps]
  BY DEF Retained, FoldLeft, MapThenFoldSet, RetainStep
<1>12. QED
  <2> HIDE DEF iter
  <2>1. QED
    BY <1>10, <1>11

\* What one result adds to the known abstracts.
KnownStep(provider, k, p) ==
  IF p.doi = None \/ p.text.abstract = None THEN k
  ELSE Put(k, p.doi, [text |-> p.text.abstract, source |-> provider])

\* What is known of abstracts comes from a provider of the request and its texts.
LEMMA KnownStays ==
  ASSUME NEW K, NEW V, NEW T, NEW F, NEW L, NEW known \in KnownOf(L, V, T), NEW provider \in L,
         NEW ps \in Seq(PublicationsOf(K, V, T, F))
  PROVE  KnownAbstracts(known, provider, ps) \in KnownOf(L, V, T)
<1> DEFINE D == KnownOf(L, V, T)
           P == PublicationsOf(K, V, T, F)
           G == [n \in DOMAIN ps |-> [a \in D |-> KnownStep(provider, a, ps[n])]]
           Fold(f) == f = [s \in SUBSET DOMAIN ps |-> IF s = {} THEN known
                             ELSE KnownStep(provider, f[s \ {Max(s)}], ps[Max(s)])]
           iter == CHOOSE g : Fold(g)
<1>1. ps \in Seq(P)
  OBVIOUS
<1>2. \A a \in D, x \in P : KnownStep(provider, a, x) \in D
  <2> SUFFICES ASSUME NEW a \in D, NEW x \in P PROVE KnownStep(provider, a, x) \in D
    OBVIOUS
  <2>1. PICK S \in SUBSET V : a \in [S -> [text : T, source : L]]
    BY DEF KnownOf
  <2> DEFINE entry == [text |-> x.text.abstract, source |-> provider]
  <2>2. x.doi \in V /\ entry \in [text : T, source : L]
    BY DEF PublicationsOf
  <2>3. Put(a, x.doi, entry) \in [S \cup {x.doi} -> [text : T, source : L]]
    <3> HIDE DEF entry
    <3>1. QED
      BY <2>1, <2>2 DEF Put
  <2>4. S \cup {x.doi} \in SUBSET V
    BY <2>2
  <2>5. Put(a, x.doi, entry) \in D
    <3> HIDE DEF entry
    <3>1. QED
      BY <2>3, <2>4 DEF KnownOf
  <2>6. QED
    BY <2>5 DEF KnownStep
<1>3. known \in D
  OBVIOUS
<1>4. \A n \in DOMAIN ps : ps[n] \in P
  BY <1>1
<1>5. \A n \in DOMAIN ps : G[n] \in [D -> D]
  <2> HIDE DEF D, P
  <2>1. QED
    BY <1>2, <1>4
<1>6. PICK f : IsSequenceFold(f, ps, D, known, G)
  <2> HIDE DEF D, P, G
  <2>1. QED
    BY <1>3, <1>5, <1>1, SequenceFoldExists
<1>7. \A s \in SUBSET DOMAIN ps : s # {} => Max(s) \in DOMAIN ps
  BY <1>1, LastPosition
<1>8. Fold(f)
  <2>1. ASSUME NEW s \in SUBSET DOMAIN ps, s # {}
        PROVE  G[Max(s)][f[s \ {Max(s)}]] = KnownStep(provider, f[s \ {Max(s)}], ps[Max(s)])
    <3> HIDE DEF D, P
    <3>1. f[s \ {Max(s)}] \in D
      BY <1>6, <2>1 DEF IsSequenceFold
    <3>2. QED
      BY <1>7, <2>1, <3>1
  <2>2. QED
    <3> HIDE DEF D, P, G
    <3>1. QED
      BY <1>6, <2>1 DEF IsSequenceFold
<1>9. Fold(iter)
  <2> HIDE DEF Fold
  <2>1. QED
    BY <1>8
<1>10. iter[DOMAIN ps] \in D
  <2> HIDE DEF D, P, iter
  <2>1. iter[{}] \in D
    BY <1>3, <1>9
  <2>2. ASSUME NEW s \in SUBSET DOMAIN ps, s # {}, iter[s \ {Max(s)}] \in D PROVE iter[s] \in D
    <3>1. iter[s] = KnownStep(provider, iter[s \ {Max(s)}], ps[Max(s)])
      BY <1>9, <2>2
    <3>2. QED
      BY <1>2, <1>4, <1>7, <2>2, <3>1
  <2>3. QED
    BY <1>1, <2>1, <2>2, SequenceFoldStays
<1>11. KnownAbstracts(known, provider, ps) = iter[DOMAIN ps]
  BY DEF KnownAbstracts, FoldLeft, MapThenFoldSet, KnownStep
<1>12. QED
  <2> HIDE DEF iter
  <2>1. QED
    BY <1>10, <1>11

\* A result that gets an abstract from another provider is a result.
LEMMA EnrichedStays ==
  ASSUME NEW K, NEW V, NEW T, NEW F, NEW L, NEW known \in KnownOf(L, V, T), L \X V \subseteq K,
         NEW p \in PublicationsOf(K, V, T, F)
  PROVE  Enriched(known, p) \in PublicationsOf(K, V, T, F)
<1>1. CASE p.text.abstract # None \/ p.doi \notin DOMAIN known
  BY <1>1 DEF Enriched
<1>2. CASE ~ (p.text.abstract # None \/ p.doi \notin DOMAIN known)
  <2> DEFINE key == <<known[p.doi].source, p.doi>>
             text == [p.text EXCEPT !.abstract = known[p.doi].text]
             prov == Append(p.prov, key)
  <2>1. known[p.doi] \in [text : T, source : L]
    BY <1>2 DEF KnownOf
  <2>2. p.doi \in V /\ p.prov \in KeyLists(K) /\ p.text \in [title : T, abstract : T]
    BY DEF PublicationsOf
  <2>3. known[p.doi].text \in T /\ known[p.doi].source \in L
    BY <2>1
  <2>4. prov \in KeyLists(K)
    BY <2>2, <2>3, KeysAppend
  <2>5. text \in [title : T, abstract : T]
    BY <2>2, <2>3
  <2>6. Enriched(known, p) = [p EXCEPT !.text = text, !.prov = prov]
    BY <1>2 DEF Enriched
  <2>7. QED
    <3> HIDE DEF text, prov
    <3>1. QED
      BY <2>4, <2>5, <2>6 DEF PublicationsOf
<1>3. QED
  BY <1>1, <1>2

\* What the merger does with one publication.
MergeStep(acc, p) ==
  LET same == {i \in DOMAIN acc : acc[i].doi = p.doi}
  IN IF p.doi = None \/ same = {} THEN Append(acc, p)
     ELSE LET i == CHOOSE j \in same : TRUE IN [acc EXCEPT ![i] = MergeTwo(@, p)]

\* Merging results by DOI gives results.
LEMMA MergedStays ==
  ASSUME NEW K, NEW V, NEW T, NEW F, NEW ps \in Seq(PublicationsOf(K, V, T, F))
  PROVE  MergedByDoi(ps) \in Seq(PublicationsOf(K, V, T, F))
<1> DEFINE P == PublicationsOf(K, V, T, F)
           D == Seq(P)
           G == [n \in DOMAIN ps |-> [a \in D |-> MergeStep(a, ps[n])]]
           Fold(f) == f = [s \in SUBSET DOMAIN ps |-> IF s = {} THEN <<>>
                             ELSE MergeStep(f[s \ {Max(s)}], ps[Max(s)])]
           iter == CHOOSE g : Fold(g)
<1>1. ps \in Seq(P)
  OBVIOUS
<1>2. \A a \in D, x \in P : MergeStep(a, x) \in D
  <2> SUFFICES ASSUME NEW a \in D, NEW x \in P PROVE MergeStep(a, x) \in D
    OBVIOUS
  <2> DEFINE same == {i \in DOMAIN a : a[i].doi = x.doi}
             i == CHOOSE j \in same : TRUE
  <2>1. Append(a, x) \in D
    <3> HIDE DEF P
    <3>1. QED
      OBVIOUS
  <2>2. ASSUME same # {} PROVE [a EXCEPT ![i] = MergeTwo(a[i], x)] \in D
    <3>1. i \in DOMAIN a
      <4>1. i \in same
        BY <2>2
      <4>2. QED
        BY <4>1
    <3> HIDE DEF P, i
    <3>2. a[i] \in P /\ Len(a) \in Nat /\ DOMAIN a = 1..Len(a) /\ a \in [1..Len(a) -> P]
      BY <3>1
    <3>3. MergeTwo(a[i], x) \in P
      BY <3>2, MergeTwoStays DEF P
    <3>4. [a EXCEPT ![i] = MergeTwo(a[i], x)] \in [1..Len(a) -> P]
      BY <3>2, <3>3
    <3>5. QED
      BY <3>2, <3>4, ListedIsSequence
  <2>3. MergeStep(a, x) = Append(a, x) \/ (same # {} /\ MergeStep(a, x) = [a EXCEPT ![i] = MergeTwo(a[i], x)])
    BY DEF MergeStep
  <2>4. QED
    <3> HIDE DEF D, i, same
    <3>1. QED
      BY <2>1, <2>2, <2>3
<1>3. <<>> \in D
  OBVIOUS
<1>4. \A n \in DOMAIN ps : ps[n] \in P
  BY <1>1
<1>5. \A n \in DOMAIN ps : G[n] \in [D -> D]
  <2> HIDE DEF D, P
  <2>1. QED
    BY <1>2, <1>4
<1>6. PICK f : IsSequenceFold(f, ps, D, <<>>, G)
  <2> HIDE DEF D, P, G
  <2>1. QED
    BY <1>3, <1>5, <1>1, SequenceFoldExists
<1>7. \A s \in SUBSET DOMAIN ps : s # {} => Max(s) \in DOMAIN ps
  BY <1>1, LastPosition
<1>8. Fold(f)
  <2>1. ASSUME NEW s \in SUBSET DOMAIN ps, s # {}
        PROVE  G[Max(s)][f[s \ {Max(s)}]] = MergeStep(f[s \ {Max(s)}], ps[Max(s)])
    <3> HIDE DEF D, P
    <3>1. f[s \ {Max(s)}] \in D
      BY <1>6, <2>1 DEF IsSequenceFold
    <3>2. QED
      BY <1>7, <2>1, <3>1
  <2>2. QED
    <3> HIDE DEF D, P, G
    <3>1. QED
      BY <1>6, <2>1 DEF IsSequenceFold
<1>9. Fold(iter)
  <2> HIDE DEF Fold
  <2>1. QED
    BY <1>8
<1>10. iter[DOMAIN ps] \in D
  <2> HIDE DEF D, P, iter
  <2>1. iter[{}] \in D
    BY <1>3, <1>9
  <2>2. ASSUME NEW s \in SUBSET DOMAIN ps, s # {}, iter[s \ {Max(s)}] \in D PROVE iter[s] \in D
    <3>1. iter[s] = MergeStep(iter[s \ {Max(s)}], ps[Max(s)])
      BY <1>9, <2>2
    <3>2. QED
      BY <1>2, <1>4, <1>7, <2>2, <3>1
  <2>3. QED
    BY <1>1, <2>1, <2>2, SequenceFoldStays
<1>11. MergedByDoi(ps) = iter[DOMAIN ps]
  BY DEF MergedByDoi, FoldLeft, MapThenFoldSet, MergeStep
<1>12. QED
  <2> HIDE DEF iter
  <2>1. QED
    BY <1>10, <1>11

\* What the engine does with the answer of one provider.
ExecuteStep(query, acc, r) ==
  IF r.failed THEN acc
  ELSE LET known == KnownAbstracts(acc.known, r.provider, r.hits)
       IN [known |-> known,
           found |-> acc.found \o Retained(query, [i \in DOMAIN r.hits |-> Enriched(known, r.hits[i])])]

\* A run of the search over all its responses gives results.
LEMMA ExecuteStays ==
  ASSUME NEW K, NEW V, NEW T, NEW F, NEW L, L \X V \subseteq K, NEW query, NEW rs, rs \in Seq(ToSet(rs)),
         \A r \in ToSet(rs) : r.provider \in L /\ (~ r.failed => r.hits \in Seq(PublicationsOf(K, V, T, F)))
  PROVE  Execute(query, rs) \in Seq(PublicationsOf(K, V, T, F))
<1> DEFINE P == PublicationsOf(K, V, T, F)
           N == KnownOf(L, V, T)
           R == ToSet(rs)
           D == [known : N, found : Seq(P)]
           b == [known |-> <<>>, found |-> <<>>]
           G == [n \in DOMAIN rs |-> [a \in D |-> ExecuteStep(query, a, rs[n])]]
           Fold(f) == f = [s \in SUBSET DOMAIN rs |-> IF s = {} THEN b
                             ELSE ExecuteStep(query, f[s \ {Max(s)}], rs[Max(s)])]
           iter == CHOOSE g : Fold(g)
<1>1. rs \in Seq(R)
  OBVIOUS
<1>2. \A a \in D, x \in R : ExecuteStep(query, a, x) \in D
  <2> SUFFICES ASSUME NEW a \in D, NEW x \in R PROVE ExecuteStep(query, a, x) \in D
    OBVIOUS
  <2>1. CASE x.failed
    <3> HIDE DEF D
    <3>1. QED
      BY <2>1 DEF ExecuteStep
  <2>2. CASE ~ x.failed
    <3> DEFINE known == KnownAbstracts(a.known, x.provider, x.hits)
               all == [i \in DOMAIN x.hits |-> Enriched(known, x.hits[i])]
    <3>1. x.hits \in Seq(P) /\ x.provider \in L
      <4> HIDE DEF P
      <4>1. QED
        BY <2>2 DEF P
    <3>2. a.known \in N /\ a.found \in Seq(P)
      <4> HIDE DEF P, N
      <4>1. QED
        OBVIOUS
    <3>3. known \in N
      BY <3>1, <3>2, KnownStays
    <3>4. \A p \in P : Enriched(known, p) \in P
      <4> HIDE DEF known
      <4>1. QED
        BY <3>3, EnrichedStays
    <3> HIDE DEF P, N, known
    <3>5. Len(x.hits) \in Nat /\ x.hits \in [1..Len(x.hits) -> P] /\ DOMAIN x.hits = 1..Len(x.hits)
      BY <3>1
    <3>6. all \in [1..Len(x.hits) -> P]
      BY <3>4, <3>5
    <3>7. all \in Seq(P)
      BY <3>5, <3>6, ListedIsSequence
    <3>8. Retained(query, all) \in Seq(P)
      BY <3>7, RetainedStays
    <3>9. a.found \o Retained(query, all) \in Seq(P)
      <4> HIDE DEF all
      <4>1. QED
        BY <3>2, <3>8
    <3>10. ExecuteStep(query, a, x) = [known |-> known, found |-> a.found \o Retained(query, all)]
      BY <2>2 DEF ExecuteStep, known
    <3>11. QED
      <4> HIDE DEF all
      <4>1. QED
        BY <3>3, <3>9, <3>10
  <2>3. QED
    BY <2>1, <2>2
<1>3. b \in D
  <2>1. <<>> \in [{} -> [text : T, source : L]] /\ {} \in SUBSET V
    OBVIOUS
  <2>2. <<>> \in N
    BY <2>1 DEF KnownOf
  <2>3. <<>> \in Seq(P)
    OBVIOUS
  <2>4. QED
    <3> HIDE DEF N, P
    <3>1. QED
      BY <2>2, <2>3
<1>4. \A n \in DOMAIN rs : rs[n] \in R
  BY <1>1
<1>5. \A n \in DOMAIN rs : G[n] \in [D -> D]
  <2> HIDE DEF D, R, b
  <2>1. QED
    BY <1>2, <1>4
<1>6. PICK f : IsSequenceFold(f, rs, D, b, G)
  <2> HIDE DEF D, R, b, G
  <2>1. QED
    BY <1>3, <1>5, <1>1, SequenceFoldExists
<1>7. \A s \in SUBSET DOMAIN rs : s # {} => Max(s) \in DOMAIN rs
  BY <1>1, LastPosition
<1>8. Fold(f)
  <2>1. ASSUME NEW s \in SUBSET DOMAIN rs, s # {}
        PROVE  G[Max(s)][f[s \ {Max(s)}]] = ExecuteStep(query, f[s \ {Max(s)}], rs[Max(s)])
    <3> HIDE DEF D, R, b
    <3>1. f[s \ {Max(s)}] \in D
      BY <1>6, <2>1 DEF IsSequenceFold
    <3>2. QED
      BY <1>7, <2>1, <3>1
  <2>2. QED
    <3> HIDE DEF D, R, b, G
    <3>1. QED
      BY <1>6, <2>1 DEF IsSequenceFold
<1>9. Fold(iter)
  <2> HIDE DEF Fold
  <2>1. QED
    BY <1>8
<1>10. iter[DOMAIN rs] \in D
  <2> HIDE DEF D, R, b, iter
  <2>1. iter[{}] \in D
    BY <1>3, <1>9
  <2>2. ASSUME NEW s \in SUBSET DOMAIN rs, s # {}, iter[s \ {Max(s)}] \in D PROVE iter[s] \in D
    <3>1. iter[s] = ExecuteStep(query, iter[s \ {Max(s)}], rs[Max(s)])
      BY <1>9, <2>2
    <3>2. QED
      BY <1>2, <1>4, <1>7, <2>2, <3>1
  <2>3. QED
    BY <1>1, <2>1, <2>2, SequenceFoldStays
<1>11. Execute(query, rs) = iter[DOMAIN rs].found
  BY DEF Execute, FoldLeft, MapThenFoldSet, ExecuteStep
<1>12. QED
  <2> HIDE DEF iter, P, N
  <2>1. iter[DOMAIN rs].found \in Seq(P)
    BY <1>10
  <2>2. QED
    BY <1>11, <2>1 DEF P

\* A publication with the leading key an import identifies it by.
IsKeyed(d) == d.prov \in Seq(ToSet(d.prov)) /\ d.prov # <<>> /\ d.prov[1] # None

\* Whatever the providers answer, every result of a search has a leading key.
LEMMA SearchResultsAreKeyed ==
  ASSUME NEW query, NEW rs, rs \in Seq(ToSet(rs)),
         \A r \in ToSet(rs) : ~ r.failed =>
           r.hits \in Seq(ToSet(r.hits)) /\ \A d \in ToSet(r.hits) : IsPublication(d)
  PROVE  \A d \in SearchResults(query, rs) : IsKeyed(d)
<1> DEFINE H == UNION {ToSet(r.hits) : r \in {x \in ToSet(rs) : ~ x.failed}}
           L == {r.provider : r \in ToSet(rs)}
           V == {d.doi : d \in H} \cup {d.work : d \in H}
           T == {d.text.title : d \in H} \cup {d.text.abstract : d \in H}
           F == {d.fits : d \in H}
           K == (UNION {ToSet(d.prov) : d \in H}) \cup (L \X V)
           P == PublicationsOf(K, V, T, F)
<1>1. \A d \in H : d \in P
  <2> SUFFICES ASSUME NEW d \in H PROVE d \in P
    OBVIOUS
  <2>1. IsPublication(d)
    OBVIOUS
  <2>2. d.doi \in V /\ d.work \in V /\ d.text.title \in T /\ d.text.abstract \in T /\ d.fits \in F
    OBVIOUS
  <2>3. ToSet(d.prov) \subseteq K
    OBVIOUS
  <2> HIDE DEF K, V, T, F, H
  <2>4. d.prov \in Seq(K) /\ d.prov # <<>> /\ d.prov[1] # None
    <3>1. d.prov \in Seq(ToSet(d.prov)) /\ d.prov # <<>> /\ d.prov[1] # None
      BY <2>1 DEF IsPublication
    <3>2. QED
      BY <2>3, <3>1
  <2>5. /\ d = [prov |-> d.prov, doi |-> d.doi, work |-> d.work, text |-> d.text, fits |-> d.fits]
        /\ d.text = [title |-> d.text.title, abstract |-> d.text.abstract]
    BY <2>1 DEF IsPublication
  <2>6. d.text \in [title : T, abstract : T]
    BY <2>2, <2>5
  <2>7. d.prov \in KeyLists(K)
    BY <2>4 DEF KeyLists
  <2>8. QED
    BY <2>2, <2>5, <2>6, <2>7 DEF PublicationsOf
<1>2. ASSUME NEW r \in ToSet(rs), ~ r.failed PROVE r.hits \in Seq(P)
  <2>1. r.hits \in Seq(ToSet(r.hits)) /\ ToSet(r.hits) \subseteq H
    BY <1>2
  <2> HIDE DEF P, H
  <2>2. QED
    BY <1>1, <2>1
<1>3. L \X V \subseteq K /\ \A r \in ToSet(rs) : r.provider \in L
  <2> HIDE DEF H, V, T, F, P
  <2>1. QED
    OBVIOUS
<1>4. Execute(query, rs) \in Seq(P)
  <2> HIDE DEF K, V, T, F, H, L
  <2>1. QED
    BY <1>2, <1>3, ExecuteStays
<1>5. MergedByDoi(Execute(query, rs)) \in Seq(P)
  <2> HIDE DEF K, V, T, F, H, L
  <2>1. QED
    BY <1>4, MergedStays
<1>6. \A d \in SearchResults(query, rs) : d \in P
  <2> HIDE DEF P
  <2>1. QED
    BY <1>5 DEF SearchResults, ToSet
<1>7. QED
  <2> HIDE DEF K, V, T, F, H, L
  <2>1. \A d \in P : d.prov \in Seq(K) /\ d.prov # <<>> /\ d.prov[1] # None
    BY DEF PublicationsOf, KeyLists
  <2>2. \A s \in Seq(K) : s \in Seq(ToSet(s))
    <3> SUFFICES ASSUME NEW s \in Seq(K) PROVE s \in Seq(ToSet(s))
      OBVIOUS
    <3>1. s \in [1..Len(s) -> ToSet(s)] /\ Len(s) \in Nat
      BY DEF ToSet
    <3>2. QED
      BY <3>1, ListedIsSequence
  <2> HIDE DEF P
  <2>3. QED
    BY <1>6, <2>1, <2>2 DEF IsKeyed

----------------------------------------------------------------------------
(* The inductive invariant *)

IsRow(x) ==
  /\ x = [lead |-> x.lead, prov |-> x.prov, doi |-> x.doi, work |-> x.work, import |-> x.import,
          superseded |-> x.superseded, status |-> x.status]
  /\ x.lead \in x.prov /\ x.status \in {"retained", "removed"}

HistoryEntries ==
  [kind : {"provider", "file"}, label : Providers \cup FileLabels, file : DOMAIN Files \cup {None},
   count : Nat, status : {"success", "warning", "failed"}]

\* Only the import of a file ends with a warning.
HistoryInv ==
  /\ history \in Seq(HistoryEntries) /\ Len(history) <= MaxImports
  /\ \A i \in Imported : history[i].status = "warning" => history[i].kind = "file"

RowsInv ==
  /\ IsFiniteSet(DOMAIN rows) /\ rows = [r \in DOMAIN rows |-> rows[r]]
  /\ \A r \in DOMAIN rows : /\ IsRow(rows[r]) /\ rows[r].import \in 0..Len(history)
                            /\ rows[r].superseded \in {None} \cup (DOMAIN rows \ {r})

LedgerInv ==
  /\ exists \in BOOLEAN /\ ops \in 0..MaxOps
  /\ \A d \in snapshots : IsKeyed(d)
  /\ \A o \in DOMAIN sources : sources[o].status \in {"imported", "linked", "recovered"}
  /\ \A r \in DOMAIN archive : IsRow(archive[r])
  /\ DOMAIN reviews \subseteq Imported /\ normalized \in Nat \cup {None}

\* The rows of a file name an import of the history, so that those of the next
\* import are new.
IdsInv ==
  exists => \A r \in DOMAIN rows \cup DOMAIN archive : r # None /\ (r[1] = "file" => r[2] \in 1..Len(history))

\* Nothing is recovered without an approval, and nothing is removed that
\* pre-screening did not decide on.
KeepInv ==
  /\ SourceKeepsItsRow
  /\ exists => /\ RecoveredRecords \subseteq DOMAIN approvals
               /\ \A r \in DOMAIN rows : rows[r].status = "removed" => r \in touched

\* A row of a file import was introduced by a record of that import, touched
\* before screening, or recovered.
Recovered(r) == r \in RecoveredRecords /\ sources[r].canonical = r
Introduced(i, r) ==
  \E o \in DOMAIN sources : sources[o].import = i /\ sources[o].canonical = r /\ sources[o].status = "imported"

Accounted(r) ==
  \/ /\ rows[r].import # NoImport
     /\ history[rows[r].import].kind = "provider" \/ r \in touched \/ Introduced(rows[r].import, r)
  \/ Recovered(r)

OwnInv == exists /\ LegacyRows = <<>> => \A r \in DOMAIN rows : Accounted(r)

\* While nothing is recovered or reconciled, every group there is and every
\* group that has a decision was recorded.
Unreconciled == exists /\ reconciled = {} /\ RecoveredRecords = {}
ObservedInv == Unreconciled /\ LegacyRows = <<>> => Candidates \cup DOMAIN decided \subseteq observed

\* The members of a merge are there and superseded by the canonical one, and
\* nothing is superseded without a merge.
MergesInv ==
  exists /\ reconciled = {} =>
    /\ \A m \in merges : /\ m.canonical \in m.members /\ m.members \subseteq DOMAIN rows /\ m.members # {m.canonical}
                         /\ \A r \in m.members \ {m.canonical} : rows[r].superseded = m.canonical
    /\ \A r \in DOMAIN rows : rows[r].superseded # None =>
         \E m \in merges : m.canonical = rows[r].superseded /\ r \in m.members
    /\ DOMAIN archive \subseteq DOMAIN rows

\* The imports count the rows, and the rows of a provider lead with their id.
CountedImports == {i \in Imported : history[i].status # "failed"}
SumOfCounts(h, S) == MapThenSumSet(LAMBDA i : h[i].count, S)
Additions == SumOfCounts(history, CountedImports)
CountInv ==
  Unreconciled /\ merges = {} /\ Rejected = {} /\ LegacyRows = <<>> =>
    /\ \A r \in DOMAIN rows : r[1] \in Providers => rows[r].lead = r
    /\ Additions = Cardinality(DOMAIN rows)

NormalizedInv ==
  Unreconciled /\ merges = {} /\ touched = {} => normalized \in {None, Cardinality(Corpus(rows))}

IInv ==
  /\ HistoryInv /\ RowsInv /\ LedgerInv /\ IdsInv
  /\ KeepInv /\ OwnInv /\ ObservedInv /\ MergesInv /\ CountInv /\ NormalizedInv

----------------------------------------------------------------------------
(* What the actions do with the rows *)

\* Rows are added, and rows without an import can get one; a row that was there
\* keeps its status and its place in a merge.
Grows(new, i) ==
  /\ IsFiniteSet(new) /\ rows' = [r \in DOMAIN rows \cup new |-> rows'[r]]
  /\ \A r \in DOMAIN rows :
       /\ IsRow(rows'[r]) /\ rows'[r].superseded = rows[r].superseded /\ rows'[r].status = rows[r].status
       /\ rows'[r].import = rows[r].import \/ (rows[r].import = NoImport /\ rows'[r].import = i)
  /\ \A r \in new \ DOMAIN rows :
       IsRow(rows'[r]) /\ rows'[r].superseded = None /\ rows'[r].status = "retained" /\ rows'[r].import = i

\* Rows that are added or get an import are rows, and superseded by rows.
LEMMA GrowingKeepsRows ==
  ASSUME RowsInv, NEW new, NEW i, Grows(new, i), Len(history) \in Nat, Len(history') \in Nat,
         i \in 0..Len(history'), Len(history) <= Len(history')
  PROVE  RowsInv' /\ DOMAIN rows' = DOMAIN rows \cup new
<1>1. DOMAIN rows' = DOMAIN rows \cup new
  BY DEF Grows
<1>2. IsFiniteSet(DOMAIN rows')
  <2>1. IsFiniteSet(DOMAIN rows) /\ IsFiniteSet(new)
    BY DEF Grows, RowsInv
  <2>2. QED
    BY <1>1, <2>1, FS_Union
<1>3. rows' = [r \in DOMAIN rows' |-> rows'[r]]
  BY <1>1 DEF Grows
<1>4. ASSUME NEW r \in DOMAIN rows'
      PROVE  /\ IsRow(rows'[r]) /\ rows'[r].import \in 0..Len(history')
             /\ rows'[r].superseded \in {None} \cup (DOMAIN rows' \ {r})
  <2>1. CASE r \in DOMAIN rows
    BY <1>1, <2>1 DEF Grows, RowsInv
  <2>2. CASE r \notin DOMAIN rows
    BY <1>1, <1>4, <2>2 DEF Grows
  <2>3. QED
    BY <2>1, <2>2
<1>5. QED
  BY <1>1, <1>2, <1>3, <1>4 DEF RowsInv

\* Members of merges stay as they are while rows are only added.
LEMMA GrowingKeepsMerges ==
  ASSUME MergesInv, NEW new, NEW i, Grows(new, i), exists, reconciled = {}, merges' = merges,
         DOMAIN archive' \subseteq DOMAIN archive
  PROVE  MergesInv'
<1>1. DOMAIN rows' = DOMAIN rows \cup new
  BY DEF Grows
<1>2. \A r \in DOMAIN rows : rows'[r].superseded = rows[r].superseded
  BY DEF Grows
<1>3. \A r \in new \ DOMAIN rows : rows'[r].superseded = None
  BY DEF Grows
<1>4. ASSUME NEW m \in merges
      PROVE  /\ m.canonical \in m.members /\ m.members \subseteq DOMAIN rows' /\ m.members # {m.canonical}
             /\ \A r \in m.members \ {m.canonical} : rows'[r].superseded = m.canonical
  BY <1>1, <1>2 DEF MergesInv
<1>5. ASSUME NEW r \in DOMAIN rows', rows'[r].superseded # None
      PROVE  \E m \in merges : m.canonical = rows'[r].superseded /\ r \in m.members
  BY <1>1, <1>2, <1>3, <1>5 DEF MergesInv
<1>6. DOMAIN archive' \subseteq DOMAIN rows'
  BY <1>1 DEF MergesInv
<1>7. QED
  BY <1>4, <1>5, <1>6 DEF MergesInv

\* The corpus does not change with a row that was there.
LEMMA GrowingKeepsCorpus ==
  ASSUME NEW new, NEW i, Grows(new, i)
  PROVE  Corpus(rows') = Corpus(rows) \cup (new \ DOMAIN rows)
<1>1. DOMAIN rows' = DOMAIN rows \cup new
  BY DEF Grows
<1>2. \A r \in DOMAIN rows : rows'[r].superseded = rows[r].superseded /\ rows'[r].status = rows[r].status
  BY DEF Grows
<1>3. \A r \in new \ DOMAIN rows : rows'[r].superseded = None /\ rows'[r].status # "removed"
  BY DEF Grows
<1>4. QED
  BY <1>1, <1>2, <1>3 DEF Corpus, Live

\* A group the audit builds is of active publications.
LEMMA AuditGroupsAreActive ==
  ASSUME NEW rs, IsFiniteSet(DOMAIN rs)
  PROVE  \A g \in IdentifierGroups(rs, Corpus(rs)) : g \subseteq Corpus(rs)
<1> DEFINE S == Corpus(rs)
           P == SharedIdentifier(rs, S)
           root == UnionAll([x \in S |-> x], P)
<1>1. IsFiniteSet(S)
  <2>1. S \in SUBSET DOMAIN rs
    BY DEF Corpus, Live
  <2>2. QED
    BY <2>1, FS_Subset
<1> HIDE DEF S
<1>2. P \in SUBSET (S \X S)
  BY DEF SharedIdentifier
<1>3. IsFiniteSet(P)
  BY <1>1, <1>2, FS_Product, FS_Subset
<1>4. [x \in S |-> x] \in [S -> S]
  OBVIOUS
<1> HIDE DEF P
<1>5. root \in [S -> S]
  BY <1>1, <1>2, <1>3, <1>4, UnionAllStays
<1> HIDE DEF root
<1>6. \A g \in Groups(root) : g \subseteq S
  BY <1>5 DEF Groups
<1>7. IdentifierGroups(rs, S) = Groups(root)
  BY DEF IdentifierGroups, root, P
<1>8. QED
  BY <1>6, <1>7 DEF S

\* A candidate group has two publications or more, all of them of the corpus.
LEMMA CandidatesAreActive ==
  ASSUME NEW rs, IsFiniteSet(DOMAIN rs)
  PROVE  \A g \in BuildGroups(rs, Corpus(rs)) : g \subseteq Corpus(rs) /\ Cardinality(g) > 1
<1> DEFINE S == Corpus(rs)
<1>1. IsFiniteSet(S)
  <2>1. S \in SUBSET DOMAIN rs
    BY DEF Corpus, Live
  <2>2. QED
    BY <2>1, FS_Subset
<1>2. {x \in S : FromFile(rs[x])} \in SUBSET S /\ SimilarTitle(rs, S) \in SUBSET (S \X S)
  BY DEF SimilarTitle
<1> HIDE DEF S
<1>3. Certain(rs, S) \in [S -> S]
  BY <1>1, CertainIsPartition
<1>4. \A g \in Built({x \in S : FromFile(rs[x])}, SimilarTitle(rs, S), Certain(rs, S)) : g \subseteq S /\ Cardinality(g) > 1
  BY <1>1, <1>2, <1>3, BuiltGroupsAreOf
<1>5. QED
  BY <1>4, BuildGroupsIsBuilt DEF S

\* Writing rows over others, as an import does: u is what becomes of them.
IsUpserted(u, old, new) ==
  /\ u = [r \in DOMAIN old \cup DOMAIN new |-> u[r]]
  /\ \A r \in DOMAIN old : r \notin DOMAIN new => u[r] = old[r]
  /\ \A r \in DOMAIN new : r \notin DOMAIN old => u[r] = new[r]
  /\ \A r \in DOMAIN new : IsRow(u[r]) /\ u[r].lead = new[r].lead
  /\ \A r \in DOMAIN old \cap DOMAIN new :
       /\ u[r].superseded = old[r].superseded /\ u[r].status = old[r].status
       /\ u[r].import = IF old[r].import = NoImport THEN new[r].import ELSE old[r].import

\* An import over the table keeps what duplicate review and pre-screening know of
\* a row that is there.
LEMMA UpsertedGives ==
  ASSUME NEW old, NEW new, \A r \in DOMAIN old : IsRow(old[r]), \A r \in DOMAIN new : IsRow(new[r])
  PROVE  IsUpserted(Upserted(old, new), old, new)
<1> DEFINE u == Upserted(old, new)
<1>1. u = [r \in DOMAIN old \cup DOMAIN new |-> u[r]] /\ DOMAIN u = DOMAIN old \cup DOMAIN new
  BY DEF Upserted
<1>2. \A r \in DOMAIN old : r \notin DOMAIN new => u[r] = old[r]
  BY DEF Upserted
<1>3. \A r \in DOMAIN new : r \notin DOMAIN old => u[r] = new[r]
  BY DEF Upserted
<1>4. ASSUME NEW r \in DOMAIN old \cap DOMAIN new
      PROVE  /\ IsRow(u[r]) /\ u[r].lead = new[r].lead
             /\ u[r].superseded = old[r].superseded /\ u[r].status = old[r].status
             /\ u[r].import = IF old[r].import = NoImport THEN new[r].import ELSE old[r].import
  <2>1. u[r] = [new[r] EXCEPT !.superseded = old[r].superseded, !.status = old[r].status,
                              !.import = IF old[r].import = NoImport THEN new[r].import ELSE old[r].import]
    BY <1>4 DEF Upserted
  <2>2. IsRow(new[r]) /\ IsRow(old[r])
    BY <1>4
  <2> HIDE DEF u
  <2>3. QED
    BY <2>1, <2>2 DEF IsRow
<1>5. QED
  <2> HIDE DEF u
  <2>1. \A r \in DOMAIN new : IsRow(u[r]) /\ u[r].lead = new[r].lead
    BY <1>3, <1>4
  <2>2. QED
    BY <1>1, <1>2, <1>3, <1>4, <2>1 DEF u, IsUpserted

\* The rows an import of provider results adds, for the batch it is given.
NewRows(batch) == {RowOf(batch[n]) : n \in Inserted(batch)}

\* The import counts a new row for each key that it inserts.
LEMMA InsertedAreNumbered ==
  ASSUME NEW k \in Nat, NEW T, NEW batch \in [1..k -> T]
  PROVE  /\ Inserted(batch) \in SUBSET (1..k) /\ IsFiniteSet(Inserted(batch)) /\ IsFiniteSet(NewRows(batch))
         /\ Cardinality(Inserted(batch)) \in Nat /\ Cardinality(NewRows(batch)) = Cardinality(Inserted(batch))
         /\ Inserted(batch) = {} <=> NewRows(batch) = {}
<1> DEFINE I == Inserted(batch)
           h == [n \in I |-> RowOf(batch[n])]
<1>1. I \in SUBSET (1..k)
  BY DEF Inserted
<1>2. IsFiniteSet(I)
  BY <1>1, FS_Interval, FS_Subset
<1>3. \A m, n \in I : m < n => RowOf(batch[m]) # RowOf(batch[n])
  BY <1>1 DEF Inserted, RowOf
<1>4. \A m, n \in I : RowOf(batch[m]) = RowOf(batch[n]) => m = n
  <2>1. \A m, n \in I : m < n \/ n < m \/ m = n
    BY <1>1
  <2> HIDE DEF I
  <2>2. QED
    BY <1>3, <2>1
<1>5. h \in Surjection(I, NewRows(batch)) /\ h \in Injection(I, NewRows(batch))
  <2> HIDE DEF I
  <2>1. NewRows(batch) = {RowOf(batch[n]) : n \in I}
    BY DEF NewRows, I
  <2>2. QED
    BY <1>4, <2>1 DEF Surjection, Injection, IsInjective
<1>6. IsFiniteSet(NewRows(batch)) /\ Cardinality(NewRows(batch)) = Cardinality(I)
  <2> HIDE DEF I, h
  <2>1. QED
    BY <1>2, <1>5, FS_Surjection
<1>7. QED
  BY <1>1, <1>2, <1>6, FS_CardinalityType DEF NewRows

\* An import of provider results only adds rows, led by the key that names them.
LEMMA ProviderImportGrows ==
  ASSUME HistoryInv, RowsInv, LedgerInv, NEW p \in Providers, NEW k \in 1..MaxBatch,
         NEW batch \in [1..k -> {d \in snapshots : d.prov[1][1] = p}], ImportProvider(p, batch)
  PROVE  /\ Grows(NewRows(batch), Len(history) + 1)
         /\ \A r \in NewRows(batch) : r # None /\ r[1] = p /\ rows'[r].lead = r
         /\ \A r \in DOMAIN rows : r \notin NewRows(batch) => rows'[r] = rows[r]
<1> DEFINE i == Len(history) + 1
           new == [r \in NewRows(batch) |->
                     LET d == batch[CHOOSE n \in Inserted(batch) : RowOf(batch[n]) = r]
                     IN NewRow(d.prov[1], ToSet(d.prov), d.doi, d.work, i)]
<1>1. rows' = Upserted(rows, new)
  BY DEF ImportProvider, NewRows
<1>2. k \in Nat
  BY ImportsAssumption
<1>3. \A n \in 1..k : batch[n] \in snapshots /\ batch[n].prov[1][1] = p /\ IsKeyed(batch[n])
  BY DEF LedgerInv
<1>4. Inserted(batch) \in SUBSET (1..k) /\ IsFiniteSet(NewRows(batch))
  BY <1>2, InsertedAreNumbered
<1>5. ASSUME NEW r \in NewRows(batch)
      PROVE  /\ IsRow(new[r]) /\ new[r].lead = r /\ new[r].superseded = None
             /\ new[r].status = "retained" /\ new[r].import = i
             /\ r # None /\ r[1] = p
  <2> DEFINE n == CHOOSE m \in Inserted(batch) : RowOf(batch[m]) = r
             d == batch[n]
  <2>1. n \in Inserted(batch) /\ RowOf(d) = r
    BY <1>5 DEF NewRows
  <2>2. IsKeyed(d) /\ d.prov[1][1] = p
    BY <1>3, <1>4, <2>1
  <2>3. new[r] = NewRow(d.prov[1], ToSet(d.prov), d.doi, d.work, i)
    BY <1>5
  <2> HIDE DEF new, n
  <2>4. d.prov[1] \in ToSet(d.prov)
    <3>1. 1 \in DOMAIN d.prov
      BY <2>2 DEF IsKeyed
    <3>2. QED
      BY <3>1 DEF ToSet
  <2>5. IsRow(new[r]) /\ new[r].lead = d.prov[1] /\ new[r].superseded = None /\ new[r].status = "retained" /\ new[r].import = i
    BY <2>3, <2>4 DEF NewRow, IsRow
  <2>6. d.prov[1] = r /\ d.prov[1] # None
    BY <2>1, <2>2 DEF RowOf, IsKeyed
  <2>7. QED
    BY <2>2, <2>5, <2>6
<1>6. DOMAIN new = NewRows(batch) /\ \A r \in DOMAIN rows : IsRow(rows[r])
  BY DEF RowsInv
<1> HIDE DEF new, i
<1>7. /\ rows' = [r \in DOMAIN rows \cup DOMAIN new |-> rows'[r]]
      /\ \A r \in DOMAIN rows : r \notin DOMAIN new => rows'[r] = rows[r]
      /\ \A r \in DOMAIN new : r \notin DOMAIN rows => rows'[r] = new[r]
      /\ \A r \in DOMAIN new : IsRow(rows'[r]) /\ rows'[r].lead = new[r].lead
      /\ \A r \in DOMAIN rows \cap DOMAIN new :
           /\ rows'[r].superseded = rows[r].superseded /\ rows'[r].status = rows[r].status
           /\ rows'[r].import = IF rows[r].import = NoImport THEN new[r].import ELSE rows[r].import
  <2>1. \A r \in DOMAIN new : IsRow(new[r])
    BY <1>5, <1>6
  <2>2. \A r \in DOMAIN rows : IsRow(rows[r])
    BY <1>6
  <2>3. IsUpserted(rows', rows, new)
    BY <1>1, <2>1, <2>2, UpsertedGives
  <2>4. QED
    BY <2>3 DEF IsUpserted
<1>8. Grows(NewRows(batch), i)
  <2>1. \A r \in DOMAIN rows :
          /\ IsRow(rows'[r]) /\ rows'[r].superseded = rows[r].superseded /\ rows'[r].status = rows[r].status
          /\ rows'[r].import = rows[r].import \/ (rows[r].import = NoImport /\ rows'[r].import = i)
    BY <1>5, <1>6, <1>7
  <2>2. \A r \in NewRows(batch) \ DOMAIN rows :
          IsRow(rows'[r]) /\ rows'[r].superseded = None /\ rows'[r].status = "retained" /\ rows'[r].import = i
    BY <1>5, <1>6, <1>7
  <2>3. QED
    BY <1>4, <1>6, <1>7, <2>1, <2>2 DEF Grows
<1>9. \A r \in NewRows(batch) : r # None /\ r[1] = p /\ rows'[r].lead = r
  BY <1>5, <1>6, <1>7
<1>10. \A r \in DOMAIN rows : r \notin NewRows(batch) => rows'[r] = rows[r]
  BY <1>6, <1>7
<1>11. QED
  BY <1>8, <1>9, <1>10, Zenon DEF i

\* The counts of a set of imports are summed in any order.
LEMMA CountsAreSummed ==
  ASSUME NEW h, NEW S, IsFiniteSet(S), \A i \in S : h[i].count \in Nat
  PROVE  \E it : IsSum(it, S, [i \in S |-> h[i].count]) /\ SumOfCounts(h, S) = it[S]
<1> DEFINE c == [i \in S |-> h[i].count]
           Fold(f) == f = [s \in SUBSET S |-> IF s = {} THEN 0 ELSE h[Pick(s)].count + f[s \ {Pick(s)}]]
           iter == CHOOSE g : Fold(g)
<1>1. PICK f : IsSum(f, S, c)
  <2>1. \A x \in S : c[x] \in Nat
    OBVIOUS
  <2> HIDE DEF c
  <2>2. QED
    BY <2>1, SumExists
<1>2. \A s \in SUBSET S : s # {} => c[Pick(s)] = h[Pick(s)].count
  BY PickIsMember
<1>3. \A g : Fold(g) <=> IsSum(g, S, c)
  <2> SUFFICES ASSUME NEW g PROVE Fold(g) <=> IsSum(g, S, c)
    OBVIOUS
  <2>1. \A s \in SUBSET S : (IF s = {} THEN 0 ELSE h[Pick(s)].count + g[s \ {Pick(s)}])
                              = (IF s = {} THEN 0 ELSE c[Pick(s)] + g[s \ {Pick(s)}])
    <3> HIDE DEF c
    <3>1. QED
      BY <1>2
  <2> HIDE DEF c
  <2>2. QED
    BY <2>1 DEF IsSum
<1>4. Fold(iter)
  <2>1. Fold(f)
    <3> HIDE DEF Fold, c
    <3>1. QED
      BY <1>1, <1>3
  <2> HIDE DEF Fold
  <2>2. QED
    BY <2>1
<1>5. SumOfCounts(h, S) = iter[S]
  BY DEF SumOfCounts, MapThenSumSet, MapThenFoldSet, Pick
<1>6. QED
  <2> HIDE DEF iter, Fold, c
  <2>1. IsSum(iter, S, c)
    BY <1>3, <1>4
  <2>2. QED
    BY <1>5, <2>1 DEF c

\* One more import adds its count to the sum.
SumGrows(g, h, S, x) ==
  /\ SumOfCounts(g, S) = SumOfCounts(h, S) /\ SumOfCounts(h, S) \in Nat
  /\ SumOfCounts(g, S \cup {x}) = g[x].count + SumOfCounts(h, S)

\* One more import adds its count to those before, which do not change.
LEMMA CountsAdd ==
  ASSUME NEW h, NEW g, NEW S, NEW x, IsFiniteSet(S), x \notin S, g[x].count \in Nat,
         \A i \in S : h[i].count \in Nat /\ g[i].count = h[i].count
  PROVE  SumGrows(g, h, S, x)
<1> DEFINE T == S \cup {x}
           c == [i \in S |-> h[i].count]
           e == [i \in S |-> g[i].count]
           d == [i \in T |-> g[i].count]
<1>0. IsFiniteSet(T)
  BY FS_AddElement
<1>1. /\ \A i \in S : c[i] \in Nat /\ e[i] \in Nat /\ c[i] = e[i] /\ c[i] = d[i]
      /\ \A i \in T : d[i] \in Nat
      /\ d[x] = g[x].count /\ S \subseteq T /\ T \ {x} = S /\ x \in T
  OBVIOUS
<1>2. \E it : IsSum(it, S, c) /\ SumOfCounts(h, S) = it[S]
  BY CountsAreSummed
<1>3. \E it : IsSum(it, S, e) /\ SumOfCounts(g, S) = it[S]
  BY CountsAreSummed
<1>4. \E it : IsSum(it, T, d) /\ SumOfCounts(g, T) = it[T]
  <2>1. \A i \in T : g[i].count \in Nat
    OBVIOUS
  <2> HIDE DEF T
  <2>2. QED
    BY <1>0, <2>1, CountsAreSummed
<1> HIDE DEF T, c, d, e
<1>5. PICK it : IsSum(it, S, c) /\ SumOfCounts(h, S) = it[S]
  BY <1>2
<1>6. PICK kt : IsSum(kt, S, e) /\ SumOfCounts(g, S) = kt[S]
  BY <1>3
<1>7. PICK jt : IsSum(jt, T, d) /\ SumOfCounts(g, T) = jt[T]
  BY <1>4
<1>8. it[S] = kt[S]
  <2>1. \A s \in SUBSET S : it[s] = kt[s]
    <3>1. \A i \in S : c[i] = e[i]
      BY <1>1
    <3>2. S \subseteq S
      OBVIOUS
    <3>3. QED
      BY <1>5, <1>6, <3>1, <3>2, SumsAgree
  <2>2. QED
    BY <2>1
<1>9. it[S] = jt[S]
  <2>1. \A s \in SUBSET S : it[s] = jt[s]
    <3>1. \A i \in S : c[i] = d[i]
      BY <1>1
    <3>2. QED
      BY <1>1, <1>5, <1>7, <3>1, SumsAgree
  <2>2. QED
    BY <2>1
<1>10. jt[T] = d[x] + jt[T \ {x}]
  <2>1. \A s \in SUBSET T : \A y \in s : jt[s] = d[y] + jt[s \ {y}]
    <3>1. TakesOff(jt, T, d)
      BY <1>0, <1>1, <1>7, SumTakesOff
    <3>2. QED
      BY <3>1 DEF TakesOff
  <2>2. QED
    BY <1>1, <2>1
<1>11. it[S] \in Nat
  <2>1. \A s \in SUBSET S : it[s] \in Nat
    BY <1>1, <1>5, SumIsNatural
  <2>2. QED
    BY <2>1
<1>12. QED
  BY <1>1, <1>5, <1>6, <1>7, <1>8, <1>9, <1>10, <1>11 DEF T, SumGrows

\* One more import, at the end of the history.
LEMMA HistoryGrows ==
  ASSUME HistoryInv, NEW entry \in HistoryEntries, history' = Append(history, entry)
  PROVE  /\ Len(history) \in Nat /\ Len(history') = Len(history) + 1
         /\ Imported = 1..Len(history) /\ Imported' = 1..(Len(history) + 1)
         /\ history' \in Seq(HistoryEntries)
         /\ history'[Len(history) + 1] = entry /\ \A i \in Imported : history'[i] = history[i]
         /\ Additions \in Nat
         /\ Additions' = IF entry.status = "failed" THEN Additions ELSE entry.count + Additions
<1> DEFINE n == Len(history) + 1
           S == CountedImports
<1>1. /\ Len(history) \in Nat /\ Len(history') = Len(history) + 1
      /\ DOMAIN history = 1..Len(history) /\ DOMAIN history' = 1..n
      /\ history' \in Seq(HistoryEntries)
      /\ history'[n] = entry /\ \A i \in 1..Len(history) : history'[i] = history[i] /\ history[i] \in HistoryEntries
  <2> HIDE DEF HistoryEntries
  <2>1. QED
    BY DEF HistoryInv
<1>2. entry.count \in Nat /\ \A i \in 1..Len(history) : history[i].count \in Nat
  BY <1>1 DEF HistoryEntries
<1>3. S \in SUBSET (1..Len(history)) /\ IsFiniteSet(S)
  <2>1. S \in SUBSET (1..Len(history))
    BY <1>1 DEF CountedImports, Imported
  <2>2. IsFiniteSet(1..Len(history))
    BY <1>1, FS_Interval
  <2>3. QED
    BY <2>1, <2>2, FS_Subset
<1>4. CountedImports' = IF entry.status = "failed" THEN S ELSE S \cup {n}
  BY <1>1 DEF CountedImports, Imported
<1>5. n \notin S /\ history'[n].count \in Nat
  BY <1>1, <1>2, <1>3
<1>6. \A i \in S : history[i].count \in Nat /\ history'[i].count = history[i].count
  BY <1>1, <1>2, <1>3
<1>7. /\ SumOfCounts(history', S) = SumOfCounts(history, S) /\ SumOfCounts(history, S) \in Nat
      /\ SumOfCounts(history', S \cup {n}) = history'[n].count + SumOfCounts(history, S)
  <2> HIDE DEF S, n
  <2>1. SumGrows(history', history, S, n)
    BY <1>3, <1>5, <1>6, CountsAdd
  <2>2. QED
    BY <2>1 DEF SumGrows
<1>8. Additions = SumOfCounts(history, S) /\ Additions' = SumOfCounts(history', CountedImports')
  BY DEF Additions
<1>9. Additions' = IF entry.status = "failed" THEN Additions ELSE entry.count + Additions
  <2> HIDE DEF S
  <2>1. QED
    BY <1>1, <1>4, <1>7, <1>8
<1>10. QED
  BY <1>1, <1>7, <1>8, <1>9 DEF Imported

\* Source records are added, and point to rows that are there.
SourcesGrow ==
  /\ \A o \in DOMAIN sources : o \in DOMAIN sources' /\ sources'[o] = sources[o]
  /\ \A o \in DOMAIN sources' : o \in DOMAIN sources \/
       (sources'[o].canonical \in DOMAIN rows' /\ sources'[o].status \in {"imported", "linked"})

\* Source records that are only added recover nothing and keep what introduced a row.
LEMMA GrowingSources ==
  ASSUME SourcesGrow
  PROVE  /\ RecoveredRecords' = RecoveredRecords
         /\ \A r : Recovered(r) => Recovered(r)'
         /\ \A i, r : Introduced(i, r) => Introduced(i, r)'
<1>1. RecoveredRecords' = RecoveredRecords
  BY DEF SourcesGrow, RecoveredRecords
<1>2. \A r : Recovered(r) => Recovered(r)'
  BY <1>1 DEF SourcesGrow, RecoveredRecords, Recovered
<1>3. \A i, r : Introduced(i, r) => Introduced(i, r)'
  BY DEF SourcesGrow, Introduced
<1>4. QED
  BY <1>1, <1>2, <1>3

\* What an import does, whatever it imports: it adds the new rows, those of a
\* file with the records that introduced them, and one entry of the history.
Adds(new, i, entry) ==
  /\ exists /\ ops' \in 0..MaxOps /\ i = Len(history) + 1 /\ i <= MaxImports
  /\ entry \in HistoryEntries /\ entry.status # "failed" /\ (entry.status = "warning" => entry.kind = "file")
  /\ history' = Append(history, entry)
  /\ Grows(new, i) /\ SourcesGrow
  /\ \A r \in new : r # None /\ (r[1] = "file" => r[2] = i)
  /\ entry.kind = "provider" \/ \A r \in new : Introduced(i, r)'
  /\ ForgetNormalization(new # {})
  /\ UNCHANGED <<exists, snapshots, reviews, decided, merges, prescreening, approvals, reconciled>>
  /\ Materialize
  /\ \A r \in DOMAIN rows : r \notin new => rows'[r] = rows[r]
  /\ (\A r \in DOMAIN rows : r[1] \in Providers => rows[r].lead = r) =>
       /\ new \cap DOMAIN rows = {} /\ Cardinality(new) = entry.count
       /\ \A r \in new : r[1] \in Providers => rows'[r].lead = r

\* Whatever is imported, from a provider or from a file, the invariant stays.
LEMMA ImportKeepsInv ==
  ASSUME IInv, NEW new, NEW i, NEW entry, Adds(new, i, entry)
  PROVE  IInv'
<1> USE DEF prescreening
<1>0. i = Len(history) + 1
  BY DEF Adds
<1>1. /\ i = Len(history) + 1 /\ Len(history) \in Nat /\ Len(history') = i /\ Imported = 1..Len(history) /\ Imported' = 1..i
      /\ history' \in Seq(HistoryEntries)
      /\ history'[i] = entry /\ \A n \in Imported : history'[n] = history[n]
      /\ Additions \in Nat /\ Additions' = entry.count + Additions
  BY <1>0, HistoryGrows DEF IInv, Adds
<1>2. /\ Grows(new, i) /\ SourcesGrow /\ exists /\ exists'
      /\ DOMAIN rows' = DOMAIN rows \cup new /\ Rejected' = Rejected
      /\ merges' = merges /\ reconciled' = reconciled /\ touched' = touched /\ archive' = archive
  BY DEF Adds, Grows, Rejected
<1>3. /\ RecoveredRecords' = RecoveredRecords
      /\ \A r : Recovered(r) => Recovered(r)'
      /\ \A n, r : Introduced(n, r) => Introduced(n, r)'
  BY <1>2, GrowingSources
<1>4. HistoryInv'
  <2>1. i <= MaxImports /\ (entry.status = "warning" => entry.kind = "file")
    BY DEF Adds
  <2>2. \A n \in Imported' : history'[n].status = "warning" => history'[n].kind = "file"
    BY <1>1, <2>1 DEF IInv, HistoryInv
  <2>3. QED
    BY <1>1, <2>1, <2>2 DEF HistoryInv
<1>5. RowsInv'
  <2>1. RowsInv /\ i \in 0..Len(history') /\ Len(history) <= Len(history')
    BY <1>1 DEF IInv
  <2>2. QED
    BY <1>1, <1>2, <2>1, GrowingKeepsRows
<1>6. LedgerInv'
  <2>1. \A o \in DOMAIN sources' : sources'[o].status \in {"imported", "linked", "recovered"}
    BY <1>2 DEF IInv, LedgerInv, SourcesGrow
  <2>2. DOMAIN reviews' \subseteq Imported'
    BY <1>1 DEF IInv, LedgerInv, Adds
  <2>3. normalized' \in Nat \cup {None}
    BY DEF IInv, LedgerInv, Adds, ForgetNormalization
  <2>4. QED
    BY <2>1, <2>2, <2>3 DEF IInv, LedgerInv, Adds
<1>7. IdsInv'
  <2> SUFFICES ASSUME NEW r \in DOMAIN rows' \cup DOMAIN archive'
               PROVE  r # None /\ (r[1] = "file" => r[2] \in 1..Len(history'))
    BY DEF IdsInv
  <2>1. CASE r \in new
    BY <1>1, <2>1 DEF Adds
  <2>2. CASE r \notin new
    <3>1. r # None /\ (r[1] = "file" => r[2] \in 1..Len(history))
      BY <1>2, <2>2 DEF IInv, IdsInv
    <3>2. QED
      BY <1>1, <3>1
  <2>3. QED
    BY <2>1, <2>2
<1>8. KeepInv'
  <2>1. ASSUME NEW o \in DOMAIN sources'
        PROVE  \/ sources'[o].canonical \in DOMAIN rows'
               \/ sources'[o].import \in Rejected' /\ sources'[o].status # "recovered"
               \/ sources'[o].canonical \in touched'
    <3>1. CASE o \in DOMAIN sources
      BY <1>2, <3>1 DEF IInv, KeepInv, SourceKeepsItsRow, SourcesGrow
    <3>2. CASE o \notin DOMAIN sources
      BY <1>2, <2>1, <3>2 DEF SourcesGrow
    <3>3. QED
      BY <3>1, <3>2
  <2>2. RecoveredRecords' \subseteq DOMAIN approvals'
    BY <1>2, <1>3 DEF IInv, KeepInv, Adds
  <2>3. \A r \in DOMAIN rows' : rows'[r].status = "removed" => r \in touched'
    BY <1>2 DEF IInv, KeepInv, Grows
  <2>4. QED
    BY <2>1, <2>2, <2>3 DEF KeepInv, SourceKeepsItsRow
<1>9. OwnInv'
  <2> SUFFICES ASSUME LegacyRows = <<>>, NEW r \in DOMAIN rows' PROVE Accounted(r)'
    BY DEF OwnInv
  <2>1. CASE r \in DOMAIN rows
    <3>1. PICK n : n = rows[r].import
      OBVIOUS
    <3>2. Recovered(r) \/ (n # NoImport /\ (history[n].kind = "provider" \/ r \in touched \/ Introduced(n, r)))
      BY <1>2, <2>1, <3>1 DEF IInv, OwnInv, Accounted
    <3>3. n # NoImport => rows'[r].import = n
      BY <1>2, <2>1, <3>1 DEF Grows
    <3>4. n \in 0..Len(history)
      BY <2>1, <3>1 DEF IInv, RowsInv
    <3>5. n # NoImport => history'[n] = history[n]
      BY <1>1, <3>4 DEF NoImport
    <3>6. Recovered(r)' \/ (n # NoImport /\ (history'[n].kind = "provider" \/ r \in touched' \/ Introduced(n, r)'))
      BY <1>2, <1>3, <3>2, <3>5
    <3>7. CASE Recovered(r)'
      BY <3>7 DEF Accounted
    <3>8. CASE n # NoImport /\ (history'[n].kind = "provider" \/ r \in touched' \/ Introduced(n, r)')
      BY <3>3, <3>8 DEF Accounted, Introduced
    <3>9. QED
      BY <3>6, <3>7, <3>8
  <2>2. CASE r \notin DOMAIN rows
    <3>1. r \in new /\ rows'[r].import = i
      BY <1>2, <2>2 DEF Grows
    <3>2. i # NoImport
      BY <1>1 DEF NoImport
    <3>3. entry.kind = "provider" \/ Introduced(i, r)'
      BY <3>1 DEF Adds
    <3>4. QED
      BY <1>1, <3>1, <3>2, <3>3 DEF Introduced, Accounted
  <2>3. QED
    BY <2>1, <2>2
<1>10. ObservedInv'
  <2>1. Candidates' \subseteq observed' /\ observed \subseteq observed' /\ decided' = decided
    BY DEF Adds, Materialize, Candidates
  <2>2. QED
    BY <1>2, <1>3, <2>1 DEF IInv, ObservedInv, Unreconciled
<1>11. MergesInv'
  <2>1. CASE reconciled = {}
    BY <1>2, <2>1, GrowingKeepsMerges DEF IInv
  <2>2. CASE reconciled # {}
    BY <1>2, <2>2 DEF MergesInv
  <2>3. QED
    BY <2>1, <2>2
<1>12. CountInv'
  <2> SUFFICES ASSUME Unreconciled, merges = {}, Rejected = {}, LegacyRows = <<>>
               PROVE  /\ \A r \in DOMAIN rows' : r[1] \in Providers => rows'[r].lead = r
                      /\ Additions' = Cardinality(DOMAIN rows')
    BY <1>2, <1>3 DEF CountInv, Unreconciled
  <2>1. /\ \A r \in DOMAIN rows : r[1] \in Providers => rows[r].lead = r
        /\ Additions = Cardinality(DOMAIN rows)
    BY DEF IInv, CountInv
  <2>2. /\ new \cap DOMAIN rows = {} /\ Cardinality(new) = entry.count
        /\ \A r \in new : r[1] \in Providers => rows'[r].lead = r
        /\ \A r \in DOMAIN rows : r \notin new => rows'[r] = rows[r]
    BY <2>1 DEF Adds
  <2>3. IsFiniteSet(new) /\ IsFiniteSet(DOMAIN rows)
    BY <1>2 DEF Grows, IInv, RowsInv
  <2>4. Cardinality(DOMAIN rows \cup new) = Cardinality(DOMAIN rows) + Cardinality(new)
    <3>1. Cardinality(DOMAIN rows \cup new) = Cardinality(DOMAIN rows) + Cardinality(new) - Cardinality(DOMAIN rows \cap new)
      BY <2>3, FS_Union
    <3>2. Cardinality(DOMAIN rows \cap new) = 0
      <4>1. DOMAIN rows \cap new = {}
        BY <2>2
      <4>2. QED
        BY <4>1, FS_EmptySet
    <3>3. Cardinality(DOMAIN rows) \in Nat /\ Cardinality(new) \in Nat
      BY <2>3, FS_CardinalityType
    <3>4. QED
      BY <3>1, <3>2, <3>3
  <2>5. Cardinality(DOMAIN rows) \in Nat /\ Cardinality(new) \in Nat
    BY <2>3, FS_CardinalityType
  <2>6. QED
    BY <1>1, <1>2, <2>1, <2>2, <2>4, <2>5
<1>13. NormalizedInv'
  <2>1. CASE new = {}
    <3>1. Corpus(rows') = Corpus(rows)
      BY <1>2, <2>1, GrowingKeepsCorpus
    <3>2. normalized' = normalized
      BY <2>1 DEF Adds, ForgetNormalization
    <3>3. QED
      BY <1>2, <1>3, <3>1, <3>2 DEF IInv, NormalizedInv, Unreconciled
  <2>2. CASE new # {}
    BY <2>2 DEF Adds, ForgetNormalization, NormalizedInv
  <2>3. QED
    BY <2>1, <2>2
<1>14. QED
  BY <1>4, <1>5, <1>6, <1>7, <1>8, <1>9, <1>10, <1>11, <1>12, <1>13 DEF IInv

----------------------------------------------------------------------------
(* Imports *)

\* The source records a provider import writes name publications that are there.
LEMMA ProviderSourceIsThere ==
  ASSUME NEW now, NEW batch, NEW n, NEW i, IsFiniteSet(DOMAIN now), NewRows(batch) \subseteq DOMAIN now,
         \A x \in DOMAIN now : now[x].superseded \in {None} \cup DOMAIN now
  PROVE  \A s \in ProviderSource(now, batch, n, i) :
           s.canonical \in DOMAIN now /\ s.status \in {"imported", "linked"}
<1> DEFINE d == batch[n]
           fresh == RowOf(d) \in {RowOf(batch[m]) : m \in Inserted(batch)}
           owners == DoiOwners(now, d.doi)
           holders == {r \in DOMAIN now : now[r].lead = d.prov[1]}
<1>1. fresh => RowOf(d) \in DOMAIN now
  BY DEF NewRows
<1>2. owners \subseteq DOMAIN now /\ holders \subseteq DOMAIN now
  BY DEF DoiOwners
<1> HIDE DEF fresh, owners, holders
<1>3. \A r \in owners : Canonical(now, r) \in DOMAIN now
  BY <1>2, CanonicalIsThere
<1>4. ProviderSource(now, batch, n, i) =
        IF fresh THEN {SourceRecord(i, RowOf(d), "imported")}
        ELSE {SourceRecord(i, Canonical(now, r), "linked") : r \in owners}
             \cup {SourceRecord(i, r, "linked") : r \in IF owners = {} THEN holders ELSE {}}
  BY DEF ProviderSource, fresh, owners, holders
<1>5. QED
  BY <1>1, <1>2, <1>3, <1>4 DEF SourceRecord

\* The records of a batch by their occurrence, and those that are not known yet.
OccurrenceInBatch(p, batch, n) ==
  Occurrence(p, "provider", [m \in DOMAIN batch |-> Fingerprint(batch[m])], n)
FreshInBatch(p, batch) == {n \in DOMAIN batch : OccurrenceInBatch(p, batch, n) \notin DOMAIN sources}

\* What a provider import writes: source records src, and a skip of the kind match
\* for each of them that is linked.
ProviderWrites(p, batch, src, match) ==
  LET i == Len(history) + 1
      occ(n) == OccurrenceInBatch(p, batch, n)
      new == FreshInBatch(p, batch)
  IN /\ DOMAIN src = {occ(n) : n \in new} /\ sources' = Written(src, sources)
     /\ \A n \in new : /\ src[occ(n)] \in ProviderSource(rows', batch, n, i)
                       /\ match[n] \in {"exact_doi", "provider_key_duplicate"}
     /\ skips' = skips \cup {Skip(i, occ(n), "repeated_occurrence") : n \in DOMAIN batch \ new}
                      \cup {Skip(i, occ(n), match[n]) : n \in {m \in new : src[occ(m)].status = "linked"}}

\* A provider import writes its records and its skips.
LEMMA ProviderImportWrites ==
  ASSUME NEW p, NEW batch, ImportProvider(p, batch)
  PROVE  \E src, match : ProviderWrites(p, batch, src, match)
<1> DEFINE i == Len(history) + 1
           occ(n) == Occurrence(p, "provider", [m \in DOMAIN batch |-> Fingerprint(batch[m])], n)
           new == {n \in DOMAIN batch : occ(n) \notin DOMAIN sources}
           now == Upserted(rows, [r \in {RowOf(batch[n]) : n \in Inserted(batch)} |->
                    LET d == batch[CHOOSE n \in Inserted(batch) : RowOf(batch[n]) = r]
                    IN NewRow(d.prov[1], ToSet(d.prov), d.doi, d.work, i)])
           match == [n \in new |-> IF DoiOwners(now, batch[n].doi) # {} THEN "exact_doi" ELSE "provider_key_duplicate"]
           linked(s) == {m \in new : s[occ(m)].status = "linked"}
<1>1. \E src \in [{occ(n) : n \in new} -> UNION {ProviderSource(now, batch, n, i) : n \in new}] :
        /\ \A n \in new : src[occ(n)] \in ProviderSource(now, batch, n, i)
        /\ sources' = Written(src, sources)
        /\ skips' = skips
             \cup {Skip(i, occ(n), "repeated_occurrence") : n \in DOMAIN batch \ new}
             \cup {Skip(i, occ(n), IF DoiOwners(now, batch[n].doi) # {} THEN "exact_doi" ELSE "provider_key_duplicate") :
                     n \in linked(src)}
  BY Zenon DEF ImportProvider
<1>2. PICK src : /\ DOMAIN src = {occ(n) : n \in new}
                 /\ \A n \in new : src[occ(n)] \in ProviderSource(now, batch, n, i)
                 /\ sources' = Written(src, sources)
                 /\ skips' = skips
                      \cup {Skip(i, occ(n), "repeated_occurrence") : n \in DOMAIN batch \ new}
                      \cup {Skip(i, occ(n), IF DoiOwners(now, batch[n].doi) # {} THEN "exact_doi" ELSE "provider_key_duplicate") :
                              n \in linked(src)}
  <2> HIDE DEF i, occ, new, now, linked
  <2>1. QED
    BY <1>1
<1>3. \A n \in new : /\ match[n] = IF DoiOwners(now, batch[n].doi) # {} THEN "exact_doi" ELSE "provider_key_duplicate"
                     /\ match[n] \in {"exact_doi", "provider_key_duplicate"}
  <2> HIDE DEF new, now
  <2>1. QED
    OBVIOUS
<1>4. {Skip(i, occ(n), IF DoiOwners(now, batch[n].doi) # {} THEN "exact_doi" ELSE "provider_key_duplicate") : n \in linked(src)}
        = {Skip(i, occ(n), match[n]) : n \in linked(src)}
  <2>1. linked(src) \subseteq new
    OBVIOUS
  <2> HIDE DEF i, occ, new, now, match, linked
  <2>2. QED
    BY <1>3, <2>1
<1>5. rows' = now
  BY DEF ImportProvider
<1>6. \A n : occ(n) = OccurrenceInBatch(p, batch, n)
  BY DEF OccurrenceInBatch
<1>7. new = FreshInBatch(p, batch)
  BY DEF FreshInBatch, OccurrenceInBatch
<1>8. linked(src) = {m \in new : src[occ(m)].status = "linked"}
  OBVIOUS
<1> HIDE DEF occ, new, now, match, linked
<1>9. ProviderWrites(p, batch, src, match)
  BY <1>2, <1>3, <1>4, <1>5, <1>6, <1>7, <1>8 DEF ProviderWrites
<1>10. QED
  BY <1>9

\* A provider import adds rows of the provider and source records that name
\* publications of the project.
LEMMA ProviderImportAdds ==
  ASSUME IInv, NEW p \in Providers, NEW k \in 1..MaxBatch,
         NEW batch \in [1..k -> {d \in snapshots : d.prov[1][1] = p}], ImportProvider(p, batch)
  PROVE  Adds(NewRows(batch), Len(history) + 1,
              HistoryEntry("provider", p, None, Cardinality(Inserted(batch)), "success"))
<1>1. PICK new : new = NewRows(batch)
  OBVIOUS
<1>2. PICK i : i = Len(history) + 1
  OBVIOUS
<1>3. PICK entry : entry = HistoryEntry("provider", p, None, Cardinality(Inserted(batch)), "success")
  OBVIOUS
<1>4. HistoryInv /\ RowsInv /\ LedgerInv
  BY DEF IInv
<1>5. /\ Grows(new, i)
      /\ \A r \in new : r # None /\ r[1] = p /\ rows'[r].lead = r
      /\ \A r \in DOMAIN rows : r \notin new => rows'[r] = rows[r]
  BY <1>1, <1>2, <1>4, ProviderImportGrows
<1>6. /\ IsFiniteSet(Inserted(batch)) /\ Cardinality(Inserted(batch)) \in Nat
      /\ Cardinality(new) = Cardinality(Inserted(batch)) /\ (Inserted(batch) = {} <=> new = {})
  <2>1. k \in Nat
    BY ImportsAssumption
  <2>2. QED
    BY <1>1, <2>1, InsertedAreNumbered
<1>7. /\ exists /\ ops' = ops + 1 /\ ops < MaxOps /\ i <= MaxImports
      /\ history' = Append(history, entry) /\ ForgetNormalization(new # {})
      /\ UNCHANGED <<exists, snapshots, reviews, decided, merges, prescreening, approvals, reconciled>>
      /\ Materialize
  BY <1>2, <1>3, <1>6 DEF ImportProvider, Tick, ForgetNormalization
<1>8. ops' \in 0..MaxOps
  BY <1>4, <1>7, ImportsAssumption DEF LedgerInv
<1>9. entry \in HistoryEntries /\ entry.status = "success" /\ entry.kind = "provider" /\ entry.count = Cardinality(new)
  BY <1>3, <1>6 DEF HistoryEntries, HistoryEntry
<1>10. Len(history) \in Nat /\ Len(history') = i
  BY <1>2, <1>4, <1>7, <1>9, HistoryGrows
<1>11. RowsInv' /\ DOMAIN rows' = DOMAIN rows \cup new
  <2>1. i \in 0..Len(history') /\ Len(history) <= Len(history') /\ Len(history') \in Nat
    BY <1>2, <1>10
  <2>2. QED
    BY <1>4, <1>5, <1>10, <2>1, GrowingKeepsRows
<1>12. SourcesGrow
  <2> DEFINE occ(n) == OccurrenceInBatch(p, batch, n)
             fresh == FreshInBatch(p, batch)
  <2>1. PICK src, match : ProviderWrites(p, batch, src, match)
    BY ProviderImportWrites
  <2>2. \A n \in fresh : \A s \in ProviderSource(rows', batch, n, i) :
          s.canonical \in DOMAIN rows' /\ s.status \in {"imported", "linked"}
    <3>1. PICK now : now = rows'
      OBVIOUS
    <3>2. IsFiniteSet(DOMAIN now) /\ new \subseteq DOMAIN now
          /\ \A x \in DOMAIN now : now[x].superseded \in {None} \cup DOMAIN now
      BY <1>11, <3>1 DEF RowsInv
    <3> HIDE DEF fresh
    <3>3. QED
      BY <1>1, <3>1, <3>2, ProviderSourceIsThere
  <2>3. \A o \in DOMAIN sources : o \notin DOMAIN src
    BY <2>1 DEF ProviderWrites, FreshInBatch
  <2>4. \A o \in DOMAIN src : \E n \in fresh : o = occ(n) /\ src[o] \in ProviderSource(rows', batch, n, i)
    BY <1>2, <2>1 DEF ProviderWrites
  <2>5. sources' = Written(src, sources)
    BY <2>1 DEF ProviderWrites
  <2> HIDE DEF occ, fresh
  <2>6. QED
    BY <2>2, <2>3, <2>4, <2>5 DEF SourcesGrow, Written
<1>13. \A r \in new : r # None /\ (r[1] = "file" => r[2] = i)
  BY <1>5, ImportsAssumption
<1>14. (\A r \in DOMAIN rows : r[1] \in Providers => rows[r].lead = r) =>
          /\ new \cap DOMAIN rows = {} /\ Cardinality(new) = entry.count
          /\ \A r \in new : r[1] \in Providers => rows'[r].lead = r
  <2> SUFFICES ASSUME \A r \in DOMAIN rows : r[1] \in Providers => rows[r].lead = r
               PROVE  new \cap DOMAIN rows = {}
    BY <1>5, <1>9
  <2>1. ASSUME NEW r \in new, r \in DOMAIN rows PROVE FALSE
    <3>1. PICK n \in Inserted(batch) : r = RowOf(batch[n])
      BY <1>1, <2>1 DEF NewRows
    <3>2. rows[r].lead = r
      BY <1>5, <2>1
    <3>3. r \in Keys
      BY <2>1, <3>2 DEF Keys
    <3>4. r \notin Keys
      BY <3>1 DEF Inserted, RowOf
    <3>5. QED
      BY <3>3, <3>4
  <2>2. QED
    BY <2>1
<1>15. Adds(new, i, entry)
  BY <1>2, <1>5, <1>7, <1>8, <1>9, <1>12, <1>13, <1>14 DEF Adds
<1>16. QED
  BY <1>1, <1>2, <1>3, <1>15

\* The place of a record is told from the row of a file.
LEMMA FileRowsAreNumbered ==
  ASSUME NEW i, NEW S, IsFiniteSet(S)
  PROVE  IsFiniteSet({FileRow(i, n) : n \in S}) /\ Cardinality({FileRow(i, n) : n \in S}) = Cardinality(S)
<1> DEFINE T == {FileRow(i, n) : n \in S}
           h == [n \in S |-> FileRow(i, n)]
<1>1. \A m, n \in S : FileRow(i, m) = FileRow(i, n) => m = n
  BY DEF FileRow
<1>2. h \in Surjection(S, T) /\ h \in Injection(S, T)
  BY <1>1 DEF Surjection, Injection, IsInjective
<1> HIDE DEF T, h
<1>3. IsFiniteSet(T) /\ Cardinality(T) = Cardinality(S)
  BY <1>2, FS_Surjection
<1>4. QED
  BY <1>3 DEF T

\* A record whose DOI an earlier record of the file has is linked to the first
\* of these, and that one becomes a row.
LEMMA FirstInFileIsNew ==
  ASSUME NEW es, EntriesAreGiven(es), NEW n \in DOMAIN es, OwnersOf(es[n]) = {}, EarlierInFile(es, n) # {}
  PROVE  (CHOOSE m \in EarlierInFile(es, n) : \A k \in EarlierInFile(es, n) : m <= k) \in NewInFile(es)
<1> DEFINE E == EarlierInFile(es, n)
           m == CHOOSE x \in E : \A k \in E : x <= k
<1>1. PICK len \in Nat : DOMAIN es = 1..len
  BY DEF EntriesAreGiven
<1>2. E \in SUBSET Nat /\ E \subseteq 1..(n - 1) /\ n \in 1..len
  BY <1>1 DEF EarlierInFile
<1>3. m \in E /\ \A k \in E : m <= k
  <2> HIDE DEF E
  <2>1. Min(E) \in E /\ \A k \in E : Min(E) <= k
    BY <1>2, MinOfSet DEF E
  <2>2. QED
    BY <2>1
<1> HIDE DEF m
<1>4. /\ m \in DOMAIN es /\ m \in 1..(n - 1) /\ m \notin Repeated(es) /\ es[m].doi = es[n].doi /\ Valid(es[n].doi)
  BY <1>1, <1>2, <1>3 DEF EarlierInFile
<1>5. OwnersOf(es[m]) = {}
  BY <1>4 DEF OwnersOf
<1>6. ASSUME NEW k \in EarlierInFile(es, m) PROVE FALSE
  <2>1. k \in 1..(m - 1) /\ k \notin Repeated(es) /\ es[k].doi = es[n].doi
    BY <1>4, <1>6 DEF EarlierInFile
  <2>2. k \in 1..(n - 1) /\ k < m
    BY <1>2, <1>4, <2>1
  <2>3. k \in E
    BY <1>4, <2>1, <2>2 DEF EarlierInFile
  <2>4. m <= k
    BY <1>3, <2>3
  <2>5. QED
    BY <1>2, <1>4, <2>2, <2>4
<1>7. m \in NewInFile(es)
  BY <1>4, <1>5, <1>6 DEF NewInFile
<1>8. QED
  BY <1>7 DEF m

\* The records of a file that are linked to a publication.
LinkedInFile(es) == DOMAIN es \ (Repeated(es) \cup NewInFile(es))

\* What the import of a file writes: a source record for each record that is not
\* repeated, and a skip for each that is repeated or linked.
FileWrites(es, i, linked, new, target) ==
  /\ \A n \in linked : target[n] \in LinkTargets(es, n, i)
  /\ DOMAIN sources' = {es[n].occ : n \in linked \cup new} \cup DOMAIN sources
  /\ \A o \in DOMAIN sources : sources'[o] = sources[o]
  /\ \A n \in linked : sources'[es[n].occ] = SourceRecord(i, target[n], "linked")
  /\ \A n \in new : sources'[es[n].occ] = SourceRecord(i, FileRow(i, n), "imported")
  /\ skips' = skips \cup {Skip(i, es[n].occ, "repeated_occurrence") : n \in Repeated(es)}
                   \cup {Skip(i, es[n].occ, "exact_doi") : n \in linked}

\* The import of a file writes a record for each entry that is not repeated.
LEMMA FileImportWrites ==
  ASSUME NEW f, NEW format, NEW es, EntriesAreGiven(es), ImportEntries(f, format, es)
  PROVE  \E target : FileWrites(es, Len(history) + 1, LinkedInFile(es), NewInFile(es), target)
<1>1. PICK Nw : Nw = NewInFile(es)
  OBVIOUS
<1>2. PICK i : i = Len(history) + 1
  OBVIOUS
<1>3. PICK linked : linked = DOMAIN es \ (Repeated(es) \cup Nw)
  OBVIOUS
<1>4. PICK target, src :
          /\ \A n \in linked : target[n] \in LinkTargets(es, n, i)
          /\ sources' = Written(src, sources)
          /\ src = [o \in {es[n].occ : n \in linked \cup Nw} |->
                     LET n == CHOOSE m \in DOMAIN es : es[m].occ = o
                     IN IF n \in linked THEN SourceRecord(i, target[n], "linked")
                        ELSE SourceRecord(i, FileRow(i, n), "imported")]
  <2> DEFINE here == Len(history) + 1
             lk == DOMAIN es \ (Repeated(es) \cup NewInFile(es))
             written(t) == [o \in {es[n].occ : n \in lk \cup NewInFile(es)} |->
                             LET n == CHOOSE m \in DOMAIN es : es[m].occ = o
                             IN IF n \in lk THEN SourceRecord(here, t[n], "linked")
                                ELSE SourceRecord(here, FileRow(here, n), "imported")]
  <2>1. \E t \in [lk -> UNION {LinkTargets(es, n, here) : n \in lk}] :
          /\ \A n \in lk : t[n] \in LinkTargets(es, n, here)
          /\ sources' = Written(written(t), sources)
    BY Zenon DEF ImportEntries
  <2>2. PICK t : /\ \A n \in lk : t[n] \in LinkTargets(es, n, here)
                 /\ sources' = Written(written(t), sources)
    <3> HIDE DEF written, lk, here
    <3>1. QED
      BY <2>1
  <2>3. here = i /\ lk = linked
    BY <1>1, <1>2, <1>3
  <2>4. written(t) = [o \in {es[n].occ : n \in linked \cup Nw} |->
                        LET n == CHOOSE m \in DOMAIN es : es[m].occ = o
                        IN IF n \in linked THEN SourceRecord(i, t[n], "linked")
                           ELSE SourceRecord(i, FileRow(i, n), "imported")]
    <3> HIDE DEF here, lk
    <3>1. QED
      BY <1>1, <2>3
  <2>5. WITNESS t, written(t)
  <2>6. QED
    <3> HIDE DEF written, lk, here
    <3>1. QED
      BY <2>2, <2>3, <2>4
<1>5. \A n \in linked \cup Nw : n \in DOMAIN es /\ es[n].occ \notin DOMAIN sources
  BY <1>1, <1>3 DEF Repeated, NewInFile
<1>6. \A n \in linked \cup Nw : (CHOOSE m \in DOMAIN es : es[m].occ = es[n].occ) = n
  BY <1>5 DEF EntriesAreGiven
<1>7. /\ DOMAIN sources' = {es[n].occ : n \in linked \cup Nw} \cup DOMAIN sources
      /\ \A o \in DOMAIN sources : sources'[o] = sources[o]
      /\ \A n \in linked : sources'[es[n].occ] = SourceRecord(i, target[n], "linked")
      /\ \A n \in Nw : sources'[es[n].occ] = SourceRecord(i, FileRow(i, n), "imported")
  <2>1. DOMAIN sources' = {es[n].occ : n \in linked \cup Nw} \cup DOMAIN sources
    BY <1>4 DEF Written
  <2>2. \A o \in DOMAIN sources : sources'[o] = sources[o]
    BY <1>4, <1>5 DEF Written
  <2>3. \A n \in linked \cup Nw : sources'[es[n].occ] =
          IF n \in linked THEN SourceRecord(i, target[n], "linked") ELSE SourceRecord(i, FileRow(i, n), "imported")
    <3> SUFFICES ASSUME NEW n \in linked \cup Nw
                 PROVE  sources'[es[n].occ] = IF n \in linked THEN SourceRecord(i, target[n], "linked")
                                              ELSE SourceRecord(i, FileRow(i, n), "imported")
      OBVIOUS
    <3>1. (CHOOSE m \in DOMAIN es : es[m].occ = es[n].occ) = n
      BY <1>6
    <3>2. src[es[n].occ] = IF n \in linked THEN SourceRecord(i, target[n], "linked")
                           ELSE SourceRecord(i, FileRow(i, n), "imported")
      <4>1. PICK o : o = es[n].occ
        OBVIOUS
      <4>2. o \in {es[m].occ : m \in linked \cup Nw}
        BY <4>1
      <4>3. src[o] = LET k == CHOOSE m \in DOMAIN es : es[m].occ = o
                     IN IF k \in linked THEN SourceRecord(i, target[k], "linked")
                        ELSE SourceRecord(i, FileRow(i, k), "imported")
        BY <1>4, <4>2
      <4>4. (CHOOSE m \in DOMAIN es : es[m].occ = o) = n
        BY <3>1, <4>1
      <4>5. QED
        BY <4>1, <4>3, <4>4
    <3>3. es[n].occ \in DOMAIN src
      BY <1>4
    <3>4. QED
      BY <1>4, <3>2, <3>3 DEF Written
  <2>4. linked \cap Nw = {}
    BY <1>3
  <2>5. QED
    BY <2>1, <2>2, <2>3, <2>4
<1>8. skips' = skips \cup {Skip(i, es[n].occ, "repeated_occurrence") : n \in Repeated(es)}
                       \cup {Skip(i, es[n].occ, "exact_doi") : n \in linked}
  BY <1>1, <1>2, <1>3 DEF ImportEntries
<1>9. FileWrites(es, i, linked, Nw, target)
  <2>1. \A n \in linked : target[n] \in LinkTargets(es, n, i)
    BY <1>4
  <2>2. DOMAIN sources' = {es[n].occ : n \in linked \cup Nw} \cup DOMAIN sources
    BY <1>7
  <2>3. \A o \in DOMAIN sources : sources'[o] = sources[o]
    BY <1>7
  <2>4. \A n \in linked : sources'[es[n].occ] = SourceRecord(i, target[n], "linked")
    BY <1>7
  <2>5. \A n \in Nw : sources'[es[n].occ] = SourceRecord(i, FileRow(i, n), "imported")
    BY <1>7
  <2>6. QED
    BY <1>8, <2>1, <2>2, <2>3, <2>4, <2>5 DEF FileWrites
<1>10. i = Len(history) + 1 /\ linked = LinkedInFile(es) /\ Nw = NewInFile(es)
  BY <1>1, <1>2, <1>3 DEF LinkedInFile
<1>11. QED
  BY <1>9, <1>10

\* An import of a file adds a row for each new record, and source records that
\* name publications of the project.
LEMMA FileImportAdds ==
  ASSUME IInv, NEW f \in DOMAIN Files, NEW format \in FileLabels, NEW es, EntriesAreGiven(es),
         Tick, Len(history) < MaxImports, ImportEntries(f, format, es)
  PROVE  \E new, entry :
           /\ Adds(new, Len(history) + 1, entry) /\ entry.file = f /\ entry.label = format /\ entry.kind = "file"
           /\ \A r \in new : r[1] = "file" /\ \E n \in DOMAIN es : rows'[r].lead = es[n].key
<1> DEFINE warns(l) == \/ l # {} \/ Repeated(es) # {}
                       \/ \E n \in NewInFile(es) : TitleCandidate(es, n)
                       \/ \E n \in DOMAIN es : es[n].doi = Bad
<1>1. PICK Nw : Nw = NewInFile(es)
  OBVIOUS
<1>2. PICK i : i = Len(history) + 1
  OBVIOUS
<1>3. PICK linked : linked = DOMAIN es \ (Repeated(es) \cup Nw)
  OBVIOUS
<1>4. PICK entry : entry = HistoryEntry("file", format, f, Cardinality(Nw), IF warns(linked) THEN "warning" ELSE "success")
  OBVIOUS
<1>5. PICK new : new = {FileRow(i, n) : n \in Nw}
  OBVIOUS
<1>6. HistoryInv /\ RowsInv /\ LedgerInv /\ IdsInv
  BY DEF IInv
<1>7. PICK len \in Nat : DOMAIN es = 1..len
  BY DEF EntriesAreGiven
<1>8. Nw \in SUBSET (1..len) /\ Nw \cap Repeated(es) = {} /\ IsFiniteSet(Nw) /\ Cardinality(Nw) \in Nat
  <2>1. Nw \in SUBSET (1..len) /\ Nw \cap Repeated(es) = {}
    BY <1>1, <1>7 DEF NewInFile
  <2>2. IsFiniteSet(Nw)
    <3>1. IsFiniteSet(1..len)
      BY <1>7, FS_Interval
    <3>2. QED
      BY <2>1, <3>1, FS_Subset
  <2>3. QED
    BY <2>1, <2>2, FS_CardinalityType
<1>9. IsFiniteSet(new) /\ Cardinality(new) = Cardinality(Nw) /\ (Nw = {} <=> new = {})
  <2>1. IsFiniteSet(new) /\ Cardinality(new) = Cardinality(Nw)
    BY <1>5, <1>8, FileRowsAreNumbered
  <2>2. QED
    BY <1>5, <2>1
<1>10. Len(history) \in Nat /\ i \in 1..MaxImports /\ exists
  BY <1>2, <1>6, ImportsAssumption DEF HistoryInv, Tick
<1>11. \A n \in Nw : FileRow(i, n) # None /\ FileRow(i, n)[1] = "file" /\ FileRow(i, n)[2] = i /\ FileRow(i, n)[3] = n
  BY <1>7, <1>8, <1>10 DEF EntriesAreGiven, FileRow
<1>12. \A n \in Nw : FileRow(i, n) \notin DOMAIN rows
  BY <1>2, <1>6, <1>10, <1>11 DEF IdsInv
<1>13. rows' = Written([r \in new |-> RowOfEntry(es[r[3]], i)], rows)
  BY <1>1, <1>2, <1>5 DEF ImportEntries
<1>14. /\ DOMAIN rows' = DOMAIN rows \cup new /\ rows' = [r \in DOMAIN rows \cup new |-> rows'[r]]
       /\ \A r \in new : r \notin DOMAIN rows /\ rows'[r] = RowOfEntry(es[r[3]], i)
       /\ \A r \in DOMAIN rows : rows'[r] = rows[r]
  BY <1>5, <1>12, <1>13 DEF Written
<1>15. Grows(new, i)
  <2>1. \A r \in new : IsRow(rows'[r]) /\ rows'[r].superseded = None /\ rows'[r].status = "retained" /\ rows'[r].import = i
    BY <1>14 DEF RowOfEntry, NewRow, IsRow
  <2>2. \A r \in DOMAIN rows : IsRow(rows'[r])
    BY <1>6, <1>14 DEF RowsInv
  <2>3. QED
    BY <1>9, <1>14, <2>1, <2>2 DEF Grows
<1>16. /\ ops' \in 0..MaxOps /\ history' = Append(history, entry) /\ ForgetNormalization(new # {})
       /\ UNCHANGED <<exists, snapshots, reviews, decided, merges, prescreening, approvals, reconciled>>
       /\ Materialize
  <2>1. ops' \in 0..MaxOps
    BY <1>6, ImportsAssumption DEF Tick, LedgerInv
  <2>2. history' = Append(history, entry)
    BY <1>1, <1>3, <1>4 DEF ImportEntries
  <2>3. ForgetNormalization(Nw # {})
    BY <1>1 DEF ImportEntries
  <2>4. QED
    BY <1>9, <2>1, <2>2, <2>3 DEF ImportEntries
<1>17. /\ entry \in HistoryEntries /\ entry.status # "failed" /\ entry.kind = "file" /\ entry.count = Cardinality(new)
  BY <1>4, <1>8, <1>9 DEF HistoryEntries, HistoryEntry
<1>18. PICK target : FileWrites(es, i, linked, Nw, target)
  BY <1>1, <1>2, <1>3, FileImportWrites DEF LinkedInFile
<1>19. /\ \A n \in linked : target[n] \in LinkTargets(es, n, i)
       /\ DOMAIN sources' = {es[n].occ : n \in linked \cup Nw} \cup DOMAIN sources
       /\ \A o \in DOMAIN sources : sources'[o] = sources[o]
       /\ \A n \in linked : sources'[es[n].occ] = SourceRecord(i, target[n], "linked")
       /\ \A n \in Nw : sources'[es[n].occ] = SourceRecord(i, FileRow(i, n), "imported")
  BY <1>18 DEF FileWrites
<1>20. \A n \in linked : target[n] \in DOMAIN rows'
  <2> SUFFICES ASSUME NEW n \in linked PROVE target[n] \in DOMAIN rows'
    OBVIOUS
  <2>1. CASE OwnersOf(es[n]) # {}
    <3>1. PICK r \in OwnersOf(es[n]) : target[n] = Canonical(rows, r)
      BY <1>19, <2>1 DEF LinkTargets
    <3>2. r \in DOMAIN rows
      BY <3>1 DEF OwnersOf, DoiOwners
    <3>3. Canonical(rows, r) \in DOMAIN rows
      <4>1. IsFiniteSet(DOMAIN rows) /\ \A x \in DOMAIN rows : rows[x].superseded \in {None} \cup DOMAIN rows
        BY <1>6 DEF RowsInv
      <4>2. QED
        BY <3>2, <4>1, CanonicalIsThere
    <3>4. QED
      BY <1>14, <3>1, <3>3
  <2>2. CASE OwnersOf(es[n]) = {}
    <3>1. n \in DOMAIN es /\ EarlierInFile(es, n) # {}
      BY <1>1, <1>3, <2>2 DEF NewInFile
    <3>2. target[n] = FileRow(i, CHOOSE m \in EarlierInFile(es, n) : \A k \in EarlierInFile(es, n) : m <= k)
      BY <1>19, <2>2 DEF LinkTargets
    <3>3. (CHOOSE m \in EarlierInFile(es, n) : \A k \in EarlierInFile(es, n) : m <= k) \in Nw
      BY <1>1, <2>2, <3>1, FirstInFileIsNew
    <3>4. QED
      BY <1>5, <1>14, <3>2, <3>3
  <2>3. QED
    BY <2>1, <2>2
<1>21. SourcesGrow
  <2>1. ASSUME NEW o \in DOMAIN sources', o \notin DOMAIN sources
        PROVE  sources'[o].canonical \in DOMAIN rows' /\ sources'[o].status \in {"imported", "linked"}
    <3>1. PICK n \in linked \cup Nw : o = es[n].occ
      BY <1>19, <2>1
    <3>2. CASE n \in linked
      <4>1. sources'[o] = SourceRecord(i, target[n], "linked") /\ target[n] \in DOMAIN rows'
        BY <1>19, <1>20, <3>1, <3>2
      <4>2. QED
        BY <4>1 DEF SourceRecord
    <3>3. CASE n \in Nw
      <4>1. sources'[o] = SourceRecord(i, FileRow(i, n), "imported") /\ FileRow(i, n) \in DOMAIN rows'
        BY <1>5, <1>14, <1>19, <3>1, <3>3
      <4>2. QED
        BY <4>1 DEF SourceRecord
    <3>4. QED
      BY <3>1, <3>2, <3>3
  <2>2. QED
    BY <1>19, <2>1 DEF SourcesGrow
<1>22. \A r \in new : Introduced(i, r)'
  <2> SUFFICES ASSUME NEW n \in Nw PROVE Introduced(i, FileRow(i, n))'
    BY <1>5
  <2>1. PICK r : r = FileRow(i, n)
    OBVIOUS
  <2>2. es[n].occ \in DOMAIN sources' /\ sources'[es[n].occ] = SourceRecord(i, r, "imported")
    BY <1>19, <2>1
  <2>3. Introduced(i, r)'
    BY <2>2 DEF Introduced, SourceRecord
  <2>4. QED
    BY <2>1, <2>3
<1>23. \A r \in new : r # None /\ r[1] = "file" /\ r[2] = i
  BY <1>5, <1>11
<1>24. Adds(new, i, entry)
  <2>1. \A r \in new : r[1] \notin Providers
    BY <1>23, ImportsAssumption
  <2>2. new \cap DOMAIN rows = {}
    BY <1>14
  <2>3. i <= MaxImports
    BY <1>10
  <2>4. QED
    BY <1>2, <1>10, <1>14, <1>15, <1>16, <1>17, <1>21, <1>22, <1>23, <2>1, <2>2, <2>3 DEF Adds
<1>25. entry.file = f /\ entry.label = format
  BY <1>4 DEF HistoryEntry
<1>26. \A r \in new : \E n \in DOMAIN es : rows'[r].lead = es[n].key
  <2> SUFFICES ASSUME NEW n \in Nw PROVE rows'[FileRow(i, n)].lead = es[n].key /\ n \in DOMAIN es
    BY <1>5
  <2>1. rows'[FileRow(i, n)] = RowOfEntry(es[n], i)
    BY <1>5, <1>11, <1>14
  <2>2. QED
    BY <1>7, <1>8, <2>1 DEF RowOfEntry, NewRow
<1>27. QED
  BY <1>2, <1>17, <1>23, <1>24, <1>25, <1>26

----------------------------------------------------------------------------
(* The other actions *)

\* A step that leaves the publications and what is known of them as they are.
LEMMA UnchangedInv ==
  ASSUME IInv, ops' \in 0..MaxOps, \A d \in snapshots' : IsKeyed(d),
         UNCHANGED <<exists, rows, history, sources, reviews, decided, observed, merges, archive, touched,
                     approvals, reconciled, normalized>>
  PROVE  IInv'
<1>1. HistoryInv' /\ RowsInv'
  BY DEF IInv, HistoryInv, RowsInv, Imported
<1>2. LedgerInv' /\ IdsInv'
  BY DEF IInv, LedgerInv, IdsInv, Imported
<1>3. Rejected' = Rejected /\ RecoveredRecords' = RecoveredRecords /\ Candidates' = Candidates
  BY DEF Rejected, RecoveredRecords, Candidates
<1>4. KeepInv'
  BY <1>3 DEF IInv, KeepInv, SourceKeepsItsRow
<1>5. OwnInv'
  BY <1>3 DEF IInv, OwnInv, Accounted, Introduced, Recovered
<1>6. ObservedInv' /\ MergesInv'
  BY <1>3 DEF IInv, ObservedInv, Unreconciled, MergesInv
<1>7. CountInv' /\ NormalizedInv'
  <2>1. Additions' = Additions
    BY DEF Additions, CountedImports, Imported
  <2>2. QED
    BY <1>3, <2>1 DEF IInv, CountInv, NormalizedInv, Unreconciled
<1>8. QED
  BY <1>1, <1>2, <1>4, <1>5, <1>6, <1>7 DEF IInv

\* The counter of the operations stays within its bound.
LEMMA TicksAreBounded ==
  ASSUME LedgerInv, Tick
  PROVE  exists /\ ops' \in 0..MaxOps
BY ImportsAssumption DEF LedgerInv, Tick

\* A search adds results that have a leading key.
LEMMA SearchKeepsInv ==
  ASSUME IInv, Search
  PROVE  IInv'
<1>1. PICK ps \in SUBSET Providers \ {{}} :
        \E answer \in [ps -> (UNION {Hits[p] : p \in Providers}) \cup {None}] :
          /\ \A p \in ps : answer[p] \in Hits[p] \cup {None}
          /\ LET order == SetToSeq(ps)
                 found == SearchResults(Query,
                            [i \in DOMAIN order |->
                               [provider |-> order[i], failed |-> answer[order[i]] = None,
                                hits |-> answer[order[i]]]])
             IN snapshots' = snapshots \cup found
  BY DEF Search
<1> DEFINE order == SetToSeq(ps)
           responses(answer) == [i \in DOMAIN order |->
             [provider |-> order[i], failed |-> answer[order[i]] = None, hits |-> answer[order[i]]]]
<1>2. PICK answer : /\ \A p \in ps : answer[p] \in Hits[p] \cup {None}
                    /\ snapshots' = snapshots \cup SearchResults(Query, responses(answer))
  BY <1>1
<1>3. ps \in SUBSET Providers /\ IsFiniteSet(ps)
  BY FS_Subset, ImportsAssumption
<1>4. order \in Seq(ps)
  BY <1>3, SetToSeqLists
<1> HIDE DEF order
<1>5. PICK k \in Nat : DOMAIN order = 1..k /\ \A i \in 1..k : order[i] \in ps
  BY <1>4
<1> DEFINE rs == responses(answer)
<1>6. rs \in Seq(ToSet(rs))
  <2>1. DOMAIN rs = 1..k /\ rs = [i \in 1..k |-> rs[i]]
    BY <1>5
  <2> HIDE DEF rs
  <2>2. \A i \in 1..k : rs[i] \in ToSet(rs)
    BY <2>1 DEF ToSet
  <2>3. QED
    BY <2>1, <2>2, ListedIsSequence
<1>7. \A r \in ToSet(rs) : ~ r.failed => r.hits \in Seq(ToSet(r.hits)) /\ \A d \in ToSet(r.hits) : IsPublication(d)
  <2> SUFFICES ASSUME NEW i \in 1..k, ~ rs[i].failed
               PROVE  rs[i].hits \in Seq(ToSet(rs[i].hits)) /\ \A d \in ToSet(rs[i].hits) : IsPublication(d)
    <3>1. ToSet(rs) = {rs[i] : i \in 1..k}
      BY <1>5 DEF ToSet
    <3> HIDE DEF rs
    <3>2. QED
      BY <3>1
  <2>1. rs[i].hits = answer[order[i]] /\ answer[order[i]] # None /\ order[i] \in ps
    BY <1>5
  <2>2. rs[i].hits \in Hits[order[i]] /\ order[i] \in Providers
    BY <1>2, <1>3, <2>1
  <2> HIDE DEF rs
  <2>3. QED
    BY <2>2, ImportsAssumption
<1>8. \A d \in SearchResults(Query, rs) : IsKeyed(d)
  <2> HIDE DEF rs
  <2>1. QED
    BY <1>6, <1>7, SearchResultsAreKeyed
<1>9. \A d \in snapshots' : IsKeyed(d)
  BY <1>2, <1>8 DEF IInv, LedgerInv
<1>10. ops' \in 0..MaxOps
  BY TicksAreBounded DEF IInv, Search
<1>11. QED
  BY <1>9, <1>10, UnchangedInv DEF Search, review, prescreening

\* Screening refers to a publication.
LEMMA UseKeepsInv ==
  ASSUME IInv, NEW r, Use(r)
  PROVE  IInv'
<1>1. ops' \in 0..MaxOps /\ \A d \in snapshots' : IsKeyed(d)
  BY TicksAreBounded DEF IInv, LedgerInv, Use
<1>2. QED
  BY <1>1, UnchangedInv DEF Use, review

\* A step of no variable.
LEMMA StutteringKeepsInv ==
  ASSUME IInv, UNCHANGED vars
  PROVE  IInv'
<1>1. ops' \in 0..MaxOps /\ \A d \in snapshots' : IsKeyed(d)
  BY DEF IInv, LedgerInv, vars
<1>2. QED
  BY <1>1, UnchangedInv DEF vars, review, prescreening

\* A file that cannot be read adds to the history, and to nothing else.
LEMMA FailUploadKeepsInv ==
  ASSUME IInv, NEW f \in DOMAIN Files, FailUpload(f)
  PROVE  IInv'
<1> USE DEF review, prescreening
<1>1. PICK entry : entry = HistoryEntry("file", Files[f].format, f, 0, "failed")
  OBVIOUS
<1>2. entry \in HistoryEntries /\ entry.status = "failed"
  BY <1>1, ImportsAssumption DEF HistoryEntries, HistoryEntry
<1>3. /\ Len(history) \in Nat /\ Len(history') = Len(history) + 1
      /\ Imported = 1..Len(history) /\ Imported' = 1..(Len(history) + 1)
      /\ history' \in Seq(HistoryEntries)
      /\ history'[Len(history) + 1] = entry /\ \A i \in Imported : history'[i] = history[i]
      /\ Additions' = Additions
  BY <1>1, <1>2, HistoryGrows DEF IInv, FailUpload
<1>4. /\ UNCHANGED <<exists, snapshots, rows, sources, skips, reviews, decided, observed, merges, archive, touched,
                     used, approvals, reconciled, normalized>>
      /\ ops' \in 0..MaxOps /\ Len(history) < MaxImports
  BY TicksAreBounded DEF IInv, FailUpload
<1>5. HistoryInv'
  <2>1. \A i \in Imported' : history'[i].status = "warning" => history'[i].kind = "file"
    BY <1>2, <1>3 DEF IInv, HistoryInv
  <2>2. Len(history') <= MaxImports
    BY <1>3, <1>4, ImportsAssumption
  <2>3. QED
    BY <1>3, <2>1, <2>2 DEF HistoryInv
<1>6. RowsInv' /\ IdsInv'
  BY <1>3, <1>4 DEF IInv, RowsInv, IdsInv
<1>7. LedgerInv'
  BY <1>3, <1>4 DEF IInv, LedgerInv
<1>8. Rejected' = Rejected /\ RecoveredRecords' = RecoveredRecords /\ Candidates' = Candidates
  BY <1>4 DEF Rejected, RecoveredRecords, Candidates
<1>9. KeepInv'
  BY <1>4, <1>8 DEF IInv, KeepInv, SourceKeepsItsRow
<1>10. OwnInv'
  <2>1. \A r \in DOMAIN rows : rows[r].import # NoImport => history'[rows[r].import] = history[rows[r].import]
    BY <1>3 DEF IInv, RowsInv, NoImport
  <2>2. QED
    BY <1>4, <1>8, <2>1 DEF IInv, OwnInv, Accounted, Introduced, Recovered
<1>11. ObservedInv' /\ MergesInv'
  BY <1>4, <1>8 DEF IInv, ObservedInv, Unreconciled, MergesInv
<1>12. CountInv' /\ NormalizedInv'
  BY <1>3, <1>4, <1>8 DEF IInv, CountInv, NormalizedInv, Unreconciled
<1>13. QED
  BY <1>5, <1>6, <1>7, <1>9, <1>10, <1>11, <1>12 DEF IInv

\* Looking at an import claims rows that no import has.
LEMMA ViewKeepsInv ==
  ASSUME IInv, NEW i \in Imported, View(i)
  PROVE  IInv'
<1> USE DEF review, prescreening
<1>1. /\ UNCHANGED <<exists, snapshots, history, sources, skips, reviews, decided, observed, merges, archive, touched,
                     used, approvals, reconciled, normalized>>
      /\ ops' \in 0..MaxOps /\ exists
  BY TicksAreBounded DEF IInv, View
<1>2. Len(history) \in Nat /\ i \in 1..Len(history)
  BY DEF IInv, HistoryInv, Imported
<1>3. /\ rows' = [r \in DOMAIN rows |-> rows'[r]] /\ DOMAIN rows' = DOMAIN rows /\ rows' # rows
      /\ \A r \in DOMAIN rows : \/ rows'[r] = rows[r]
                                \/ rows[r].import = NoImport /\ rows'[r] = [rows[r] EXCEPT !.import = i]
  BY DEF View
<1>4. \A r \in DOMAIN rows :
        /\ IsRow(rows'[r]) /\ rows'[r].superseded = rows[r].superseded /\ rows'[r].status = rows[r].status
        /\ rows'[r].import = rows[r].import \/ (rows[r].import = NoImport /\ rows'[r].import = i)
  <2> SUFFICES ASSUME NEW r \in DOMAIN rows
               PROVE  /\ IsRow(rows'[r]) /\ rows'[r].superseded = rows[r].superseded /\ rows'[r].status = rows[r].status
                      /\ rows'[r].import = rows[r].import \/ (rows[r].import = NoImport /\ rows'[r].import = i)
    OBVIOUS
  <2>1. IsRow(rows[r])
    BY DEF IInv, RowsInv
  <2>2. CASE rows'[r] = rows[r]
    BY <2>1, <2>2
  <2>3. CASE rows[r].import = NoImport /\ rows'[r] = [rows[r] EXCEPT !.import = i]
    BY <2>1, <2>3 DEF IsRow
  <2>4. QED
    BY <1>3, <2>2, <2>3
<1>5. PICK new : new = {}
  OBVIOUS
<1>6. Grows(new, i)
  <2>1. IsFiniteSet(new)
    BY <1>5, FS_EmptySet
  <2>2. DOMAIN rows \cup new = DOMAIN rows
    BY <1>5
  <2>3. QED
    BY <1>3, <1>4, <1>5, <2>1, <2>2 DEF Grows
<1>7. RowsInv'
  <2>1. RowsInv /\ Len(history') = Len(history) /\ i \in 0..Len(history') /\ Len(history) <= Len(history')
    BY <1>1, <1>2 DEF IInv
  <2>2. QED
    BY <1>2, <1>6, <2>1, GrowingKeepsRows
<1>8. HistoryInv' /\ LedgerInv' /\ IdsInv'
  BY <1>1, <1>3 DEF IInv, HistoryInv, LedgerInv, IdsInv, Imported
<1>9. Rejected' = Rejected /\ RecoveredRecords' = RecoveredRecords
  BY <1>1 DEF Rejected, RecoveredRecords
<1>10. KeepInv'
  BY <1>1, <1>3, <1>4, <1>9 DEF IInv, KeepInv, SourceKeepsItsRow
<1>11. OwnInv'
  BY <1>1, <1>3, <1>4, <1>9 DEF IInv, OwnInv, Accounted, Introduced, Recovered
<1>12. ~ (Unreconciled /\ LegacyRows = <<>>)
  <2> SUFFICES ASSUME Unreconciled, LegacyRows = <<>> PROVE FALSE
    OBVIOUS
  <2>1. \A r \in DOMAIN rows : rows[r].import # NoImport
    BY <1>1 DEF IInv, OwnInv, Accounted, Recovered, Unreconciled
  <2>2. \A r \in DOMAIN rows : rows'[r] = rows[r]
    BY <1>3, <2>1
  <2>3. rows = [r \in DOMAIN rows |-> rows[r]]
    BY DEF IInv, RowsInv
  <2>4. QED
    BY <1>3, <2>2, <2>3
<1>13. Unreconciled' = Unreconciled
  BY <1>1, <1>9 DEF Unreconciled
<1>14. ObservedInv' /\ CountInv'
  BY <1>12, <1>13 DEF ObservedInv, CountInv
<1>15. MergesInv'
  <2>1. CASE reconciled = {}
    BY <1>1, <1>6, <2>1, GrowingKeepsMerges DEF IInv
  <2>2. CASE reconciled # {}
    BY <1>1, <2>2 DEF MergesInv
  <2>3. QED
    BY <2>1, <2>2
<1>16. NormalizedInv'
  <2>1. Corpus(rows') = Corpus(rows)
    BY <1>5, <1>6, GrowingKeepsCorpus
  <2>2. QED
    BY <1>1, <1>13, <2>1 DEF IInv, NormalizedInv
<1>17. QED
  BY <1>7, <1>8, <1>10, <1>11, <1>14, <1>15, <1>16 DEF IInv

\* An import is accepted: no rejection is added.
LEMMA AcceptKeepsInv ==
  ASSUME IInv, NEW i \in Imported, Accept(i)
  PROVE  IInv'
<1> USE DEF review, prescreening
<1>1. /\ UNCHANGED <<exists, snapshots, rows, history, sources, skips, decided, observed, merges, archive, touched,
                     used, approvals, reconciled, normalized>>
      /\ ops' \in 0..MaxOps /\ reviews' = Put(reviews, i, "accepted") /\ i \notin DOMAIN reviews
  BY TicksAreBounded DEF IInv, Accept, Reviewable
<1>2. HistoryInv' /\ RowsInv' /\ IdsInv'
  BY <1>1 DEF IInv, HistoryInv, RowsInv, IdsInv, Imported
<1>3. LedgerInv'
  BY <1>1 DEF IInv, LedgerInv, Imported, Put
<1>4. Rejected' = Rejected /\ RecoveredRecords' = RecoveredRecords /\ Candidates' = Candidates
  BY <1>1 DEF Rejected, RecoveredRecords, Candidates, Put
<1>5. KeepInv' /\ OwnInv'
  BY <1>1, <1>4 DEF IInv, KeepInv, SourceKeepsItsRow, OwnInv, Accounted, Introduced, Recovered
<1>6. ObservedInv' /\ MergesInv'
  BY <1>1, <1>4 DEF IInv, ObservedInv, Unreconciled, MergesInv
<1>7. CountInv' /\ NormalizedInv'
  <2>1. Additions' = Additions
    BY <1>1 DEF Additions, CountedImports, Imported
  <2>2. QED
    BY <1>1, <1>4, <2>1 DEF IInv, CountInv, NormalizedInv, Unreconciled
<1>8. QED
  BY <1>2, <1>3, <1>5, <1>6, <1>7 DEF IInv

\* A decision is taken on a group that was recorded.
LEMMA DecideGroupKeepsInv ==
  ASSUME IInv, NEW g \in Candidates, DecideGroup(g)
  PROVE  IInv'
<1> USE DEF prescreening
<1>1. /\ UNCHANGED <<exists, snapshots, rows, history, sources, skips, reviews, observed, merges, archive, touched,
                     used, approvals, reconciled, normalized>>
      /\ ops' \in 0..MaxOps /\ DOMAIN decided' = DOMAIN decided \cup {g}
  BY TicksAreBounded DEF IInv, DecideGroup, Put
<1>2. HistoryInv' /\ RowsInv' /\ IdsInv' /\ LedgerInv'
  BY <1>1 DEF IInv, HistoryInv, RowsInv, IdsInv, LedgerInv, Imported
<1>3. Rejected' = Rejected /\ RecoveredRecords' = RecoveredRecords /\ Candidates' = Candidates
  BY <1>1 DEF Rejected, RecoveredRecords, Candidates
<1>4. KeepInv' /\ OwnInv'
  BY <1>1, <1>3 DEF IInv, KeepInv, SourceKeepsItsRow, OwnInv, Accounted, Introduced, Recovered
<1>5. ObservedInv' /\ MergesInv'
  BY <1>1, <1>3 DEF IInv, ObservedInv, Unreconciled, MergesInv
<1>6. CountInv' /\ NormalizedInv'
  <2>1. Additions' = Additions
    BY <1>1 DEF Additions, CountedImports, Imported
  <2>2. QED
    BY <1>1, <1>3, <2>1 DEF IInv, CountInv, NormalizedInv, Unreconciled
<1>7. QED
  BY <1>2, <1>4, <1>5, <1>6 DEF IInv

\* Normalization counts the corpus and records its groups.
LEMMA NormalizeKeepsInv ==
  ASSUME IInv, Normalize
  PROVE  IInv'
<1> USE DEF prescreening
<1>1. /\ UNCHANGED <<exists, snapshots, rows, history, sources, skips, reviews, decided, merges, archive, touched,
                     used, approvals, reconciled>>
      /\ ops' \in 0..MaxOps /\ normalized' = Cardinality(Corpus(rows)) /\ Materialize
  BY TicksAreBounded DEF IInv, Normalize
<1>2. Cardinality(Corpus(rows)) \in Nat
  <2>1. Corpus(rows) \in SUBSET DOMAIN rows /\ IsFiniteSet(DOMAIN rows)
    BY DEF IInv, RowsInv, Corpus, Live
  <2>2. QED
    BY <2>1, FS_Subset, FS_CardinalityType
<1>3. HistoryInv' /\ RowsInv' /\ IdsInv' /\ LedgerInv'
  BY <1>1, <1>2 DEF IInv, HistoryInv, RowsInv, IdsInv, LedgerInv, Imported
<1>4. Rejected' = Rejected /\ RecoveredRecords' = RecoveredRecords
  BY <1>1 DEF Rejected, RecoveredRecords
<1>5. KeepInv' /\ OwnInv'
  BY <1>1, <1>4 DEF IInv, KeepInv, SourceKeepsItsRow, OwnInv, Accounted, Introduced, Recovered
<1>6. ObservedInv'
  <2>1. Candidates' \subseteq observed' /\ observed \subseteq observed'
    BY <1>1 DEF Materialize, Candidates
  <2>2. QED
    BY <1>1, <1>4, <2>1 DEF IInv, ObservedInv, Unreconciled
<1>7. MergesInv'
  BY <1>1 DEF IInv, MergesInv
<1>8. CountInv'
  <2>1. Additions' = Additions
    BY <1>1 DEF Additions, CountedImports, Imported
  <2>2. QED
    BY <1>1, <1>4, <2>1 DEF IInv, CountInv, Unreconciled
<1>9. NormalizedInv'
  BY <1>1 DEF NormalizedInv
<1>10. QED
  BY <1>3, <1>5, <1>6, <1>7, <1>8, <1>9 DEF IInv

\* A row is removed before screening: the archive keeps it.
LEMMA RemoveKeepsInv ==
  ASSUME IInv, NEW x \in DOMAIN rows, RemoveRecord(x)
  PROVE  IInv'
<1>1. /\ UNCHANGED <<exists, snapshots, history, sources, skips, reviews, decided, merges, used, approvals, reconciled, normalized>>
      /\ ops' \in 0..MaxOps /\ Materialize /\ touched' = touched \cup {x}
      /\ archive' = Put(archive, x, rows[x])
  BY TicksAreBounded DEF IInv, RemoveRecord
<1>2. /\ rows' = [r \in DOMAIN rows |-> rows'[r]] /\ DOMAIN rows' = DOMAIN rows
      /\ \A r \in DOMAIN rows : r # x => rows'[r] = rows[r]
      /\ rows'[x] = [rows[x] EXCEPT !.status = "removed"]
  BY DEF RemoveRecord, IInv, RowsInv
<1>3. \A r \in DOMAIN rows : /\ IsRow(rows'[r]) /\ rows'[r].import = rows[r].import
                             /\ rows'[r].superseded = rows[r].superseded /\ rows'[r].lead = rows[r].lead
                             /\ rows'[r].status = "removed" => rows[r].status = "removed" \/ r = x
  <2>1. IsRow(rows[x])
    BY DEF IInv, RowsInv
  <2>2. /\ IsRow(rows'[x]) /\ rows'[x].import = rows[x].import
        /\ rows'[x].superseded = rows[x].superseded /\ rows'[x].lead = rows[x].lead
    BY <1>2, <2>1 DEF IsRow
  <2>3. QED
    BY <1>2, <2>2 DEF IInv, RowsInv
<1>4. HistoryInv' /\ RowsInv'
  BY <1>1, <1>2, <1>3 DEF IInv, HistoryInv, RowsInv, Imported
<1>5. LedgerInv' /\ IdsInv'
  BY <1>1, <1>2 DEF IInv, LedgerInv, IdsInv, Imported, Put, RowsInv
<1>6. Rejected' = Rejected /\ RecoveredRecords' = RecoveredRecords
  BY <1>1 DEF Rejected, RecoveredRecords
<1>7. KeepInv'
  BY <1>1, <1>2, <1>3, <1>6 DEF IInv, KeepInv, SourceKeepsItsRow
<1>8. OwnInv'
  BY <1>1, <1>2, <1>3, <1>6 DEF IInv, OwnInv, Accounted, Introduced, Recovered
<1>9. ObservedInv'
  <2>1. Candidates' \subseteq observed' /\ observed \subseteq observed'
    BY <1>1 DEF Materialize, Candidates
  <2>2. QED
    BY <1>1, <1>6, <2>1 DEF IInv, ObservedInv, Unreconciled
<1>10. MergesInv'
  BY <1>1, <1>2, <1>3 DEF IInv, MergesInv, Put
<1>11. CountInv'
  <2>1. Additions' = Additions
    BY <1>1 DEF Additions, CountedImports, Imported
  <2>2. QED
    BY <1>1, <1>2, <1>3, <1>6, <2>1 DEF IInv, CountInv, Unreconciled
<1>12. NormalizedInv'
  BY <1>1 DEF NormalizedInv
<1>13. QED
  BY <1>4, <1>5, <1>7, <1>8, <1>9, <1>10, <1>11, <1>12 DEF IInv

\* A record is restored: its row is active again, or comes back from the archive.
LEMMA RestoreKeepsInv ==
  ASSUME IInv, NEW i \in Imported, NEW x \in DOMAIN rows \cup DOMAIN archive, RestoreRecord(i, x)
  PROVE  IInv'
<1>1. /\ UNCHANGED <<exists, snapshots, history, sources, skips, reviews, decided, merges, used, approvals, reconciled, normalized>>
      /\ ops' \in 0..MaxOps /\ exists /\ Materialize /\ touched' = touched \cup {x}
      /\ archive' = Restrict(archive, DOMAIN archive \ {x})
  BY TicksAreBounded DEF IInv, RestoreRecord
<1>2. Len(history) \in Nat /\ i \in 1..Len(history) /\ i # NoImport
  BY DEF IInv, HistoryInv, Imported, NoImport
<1>3. IsFiniteSet(DOMAIN rows) /\ \A r \in DOMAIN rows : IsRow(rows[r])
  BY DEF IInv, RowsInv
<1>4. DOMAIN archive' \subseteq DOMAIN archive /\ \A r \in DOMAIN archive' : archive'[r] = archive[r]
  BY <1>1 DEF Restrict
<1>5. /\ rows' = [r \in DOMAIN rows' |-> rows'[r]]
      /\ IsFiniteSet(DOMAIN rows') /\ DOMAIN rows \subseteq DOMAIN rows' /\ DOMAIN rows' \subseteq DOMAIN rows \cup {x}
      /\ \A r \in DOMAIN rows : /\ IsRow(rows'[r]) /\ rows'[r].import = rows[r].import
                                /\ rows'[r].superseded = rows[r].superseded /\ rows'[r].lead = rows[r].lead
                                /\ rows'[r].status = "removed" => rows[r].status = "removed"
      /\ \A r \in DOMAIN rows' \ DOMAIN rows :
           IsRow(rows'[r]) /\ rows'[r].import = i /\ rows'[r].superseded = None /\ rows'[r].status # "removed"
  <2>1. CASE x \in DOMAIN rows
    <3>1. /\ rows' = [r \in DOMAIN rows |-> rows'[r]] /\ DOMAIN rows' = DOMAIN rows
          /\ \A r \in DOMAIN rows : r # x => rows'[r] = rows[r]
          /\ rows'[x] = [rows[x] EXCEPT !.status = "retained"]
      BY <2>1 DEF RestoreRecord, IInv, RowsInv
    <3>2. /\ IsRow(rows'[x]) /\ rows'[x].import = rows[x].import
          /\ rows'[x].superseded = rows[x].superseded /\ rows'[x].lead = rows[x].lead /\ rows'[x].status = "retained"
      BY <1>3, <2>1, <3>1 DEF IsRow
    <3>3. QED
      BY <1>3, <3>1, <3>2
  <2>2. CASE x \notin DOMAIN rows /\ archive[x].lead \in Keys
    <3>1. rows' = rows
      BY <2>2 DEF RestoreRecord
    <3>2. QED
      BY <1>3, <3>1 DEF IInv, RowsInv
  <2>3. CASE x \notin DOMAIN rows /\ archive[x].lead \notin Keys
    <3> DEFINE d == archive[x]
               new == NewRow(d.lead, d.prov, d.doi, d.work, i)
    <3>1. rows' = Put(rows, x, new)
      BY <2>3 DEF RestoreRecord
    <3>2. IsRow(d)
      BY <2>3 DEF IInv, LedgerInv
    <3>3. IsRow(new) /\ new.import = i /\ new.superseded = None /\ new.status # "removed"
      BY <3>2 DEF NewRow, IsRow
    <3> HIDE DEF new
    <3>4. /\ DOMAIN rows' = DOMAIN rows \cup {x} /\ rows' = [r \in DOMAIN rows' |-> rows'[r]]
          /\ rows'[x] = new /\ \A r \in DOMAIN rows : rows'[r] = rows[r]
      BY <2>3, <3>1 DEF Put
    <3>5. IsFiniteSet(DOMAIN rows')
      BY <1>3, <3>4, FS_AddElement
    <3>6. QED
      BY <1>3, <3>3, <3>4, <3>5
  <2>4. QED
    BY <2>1, <2>2, <2>3
<1>6. HistoryInv' /\ LedgerInv'
  BY <1>1, <1>4 DEF IInv, HistoryInv, LedgerInv, Imported
<1>7. RowsInv'
  <2>1. \A r \in DOMAIN rows' : rows'[r].import \in 0..Len(history')
    BY <1>1, <1>2, <1>5 DEF IInv, RowsInv
  <2>2. \A r \in DOMAIN rows' : rows'[r].superseded \in {None} \cup (DOMAIN rows' \ {r})
    BY <1>5 DEF IInv, RowsInv
  <2>3. QED
    BY <1>5, <2>1, <2>2 DEF RowsInv
<1>8. IdsInv'
  BY <1>1, <1>4, <1>5 DEF IInv, IdsInv
<1>9. Rejected' = Rejected /\ RecoveredRecords' = RecoveredRecords
  BY <1>1 DEF Rejected, RecoveredRecords
<1>10. KeepInv'
  <2>1. SourceKeepsItsRow'
    BY <1>1, <1>5, <1>9 DEF IInv, KeepInv, SourceKeepsItsRow
  <2>2. \A r \in DOMAIN rows' : rows'[r].status = "removed" => r \in touched'
    BY <1>1, <1>5 DEF IInv, KeepInv
  <2>3. QED
    BY <1>1, <1>9, <2>1, <2>2 DEF IInv, KeepInv
<1>11. OwnInv'
  <2> SUFFICES ASSUME LegacyRows = <<>>, NEW r \in DOMAIN rows' PROVE Accounted(r)'
    BY DEF OwnInv
  <2>1. CASE r = x /\ r \notin DOMAIN rows
    BY <1>1, <1>2, <1>5, <2>1 DEF Accounted
  <2>2. CASE r \in DOMAIN rows
    <3>1. Accounted(r)
      BY <1>1, <2>2 DEF IInv, OwnInv
    <3>2. QED
      BY <1>1, <1>5, <1>9, <2>2, <3>1 DEF Accounted, Introduced, Recovered
  <2>3. QED
    BY <1>5, <2>1, <2>2
<1>12. ObservedInv'
  <2>1. Candidates' \subseteq observed' /\ observed \subseteq observed'
    BY <1>1 DEF Materialize, Candidates
  <2>2. QED
    BY <1>1, <1>9, <2>1 DEF IInv, ObservedInv, Unreconciled
<1>13. reconciled = {} => DOMAIN rows' = DOMAIN rows
  BY <1>1, <1>5 DEF IInv, MergesInv
<1>14. MergesInv'
  BY <1>1, <1>4, <1>5, <1>13 DEF IInv, MergesInv
<1>15. CountInv'
  <2>1. Additions' = Additions
    BY <1>1 DEF Additions, CountedImports, Imported
  <2>2. QED
    BY <1>1, <1>5, <1>9, <1>13, <2>1 DEF IInv, CountInv, Unreconciled
<1>16. NormalizedInv'
  BY <1>1 DEF NormalizedInv
<1>17. QED
  BY <1>6, <1>7, <1>8, <1>10, <1>11, <1>12, <1>14, <1>15, <1>16 DEF IInv

\* Records that are not superseded are merged, and superseded by one of them.
LEMMA MergeKeepsInv ==
  ASSUME IInv, NEW g \in Candidates, Merge(g)
  PROVE  IInv'
<1> USE DEF prescreening
<1>1. /\ UNCHANGED <<exists, snapshots, history, sources, skips, reviews, archive, touched, used, approvals, reconciled, normalized>>
      /\ ops' \in 0..MaxOps /\ exists /\ Materialize /\ DOMAIN decided' = DOMAIN decided \cup {g}
  BY TicksAreBounded DEF IInv, Merge, Put
<1>2. PICK c \in g, lead \in UNION {rows[r].prov : r \in g} :
        /\ rows' = [r \in DOMAIN rows |->
                      IF r = c THEN MergedRow(rows, g, c, lead)
                      ELSE IF r \in g THEN [rows[r] EXCEPT !.superseded = c] ELSE rows[r]]
        /\ merges' = merges \cup {[canonical |-> c, members |-> g]}
  BY DEF Merge
<1>21. PICK n : n = [canonical |-> c, members |-> g]
  OBVIOUS
<1>22. merges' = merges \cup {n} /\ n.canonical = c /\ n.members = g
  BY <1>2, <1>21
<1>3. g \subseteq Corpus(rows) /\ Cardinality(g) > 1
  BY CandidatesAreActive DEF IInv, RowsInv, Candidates
<1>4. g \subseteq DOMAIN rows /\ \A r \in g : rows[r].superseded = None
  BY <1>3 DEF Corpus, Live
<1>5. g # {c}
  <2>1. Cardinality({c}) = 1
    BY FS_Singleton, Zenon
  <2> SUFFICES Cardinality(g) # 1
    BY <2>1, Zenon
  <2>2. QED
    BY <1>3
<1>6. c # None /\ \A r \in DOMAIN rows : r # None
  BY <1>1, <1>4 DEF IInv, IdsInv
<1>7. DOMAIN rows' = DOMAIN rows /\ rows' = [r \in DOMAIN rows |-> rows'[r]]
  BY <1>2
<1>8. \A r \in DOMAIN rows \ g : rows'[r] = rows[r]
  BY <1>2
<1>9. \A r \in g \ {c} : IsRow(rows'[r]) /\ rows'[r].superseded = c /\ rows'[r].import = rows[r].import /\ rows'[r].status = rows[r].status
  <2> SUFFICES ASSUME NEW r \in g \ {c}
               PROVE  IsRow(rows'[r]) /\ rows'[r].superseded = c /\ rows'[r].import = rows[r].import /\ rows'[r].status = rows[r].status
    OBVIOUS
  <2>1. rows'[r] = [rows[r] EXCEPT !.superseded = c] /\ IsRow(rows[r])
    BY <1>2, <1>4 DEF IInv, RowsInv
  <2>2. QED
    BY <2>1 DEF IsRow
<1>10. IsRow(rows'[c]) /\ rows'[c].superseded = None /\ rows'[c].import = rows[c].import /\ rows'[c].status = rows[c].status
  <2> DEFINE dois == {rows[r].doi : r \in g} \ {None, Bad}
             doi == IF dois = {} THEN rows[c].doi ELSE CHOOSE d \in dois : TRUE
             prov == UNION {rows[r].prov : r \in g}
  <2>1. rows'[c] = MergedRow(rows, g, c, lead) /\ IsRow(rows[c]) /\ rows[c].superseded = None
    BY <1>2, <1>4 DEF IInv, RowsInv
  <2>2. MergedRow(rows, g, c, lead) =
          [rows[c] EXCEPT !.lead = lead, !.prov = prov, !.doi = doi]
    BY <2>1 DEF MergedRow, IsRow
  <2>3. lead \in prov
    OBVIOUS
  <2> HIDE DEF dois, doi, prov
  <2>4. PICK row, merged : row = rows[c] /\ merged = rows'[c]
    OBVIOUS
  <2>5. /\ merged = [row EXCEPT !.lead = lead, !.prov = prov, !.doi = doi]
        /\ IsRow(row) /\ row.superseded = None
    BY <2>1, <2>2, <2>4
  <2>6. IsRow(merged) /\ merged.superseded = None /\ merged.import = row.import /\ merged.status = row.status
    BY <2>3, <2>5 DEF IsRow
  <2>7. QED
    BY <2>4, <2>6
<1>11. \A r \in DOMAIN rows : IsRow(rows'[r]) /\ rows'[r].import = rows[r].import /\ rows'[r].status = rows[r].status
  BY <1>8, <1>9, <1>10 DEF IInv, RowsInv
<1>12. HistoryInv' /\ LedgerInv' /\ IdsInv'
  BY <1>1, <1>7 DEF IInv, HistoryInv, LedgerInv, IdsInv, Imported
<1>13. RowsInv'
  <2>1. \A r \in DOMAIN rows' : rows'[r].superseded \in {None} \cup (DOMAIN rows' \ {r})
    BY <1>4, <1>7, <1>8, <1>9, <1>10 DEF IInv, RowsInv
  <2>2. QED
    BY <1>1, <1>7, <1>11, <2>1 DEF IInv, RowsInv
<1>14. Rejected' = Rejected /\ RecoveredRecords' = RecoveredRecords
  BY <1>1 DEF Rejected, RecoveredRecords
<1>15. KeepInv'
  BY <1>1, <1>7, <1>11, <1>14 DEF IInv, KeepInv, SourceKeepsItsRow
<1>16. OwnInv'
  BY <1>1, <1>7, <1>11, <1>14 DEF IInv, OwnInv, Accounted, Introduced, Recovered
<1>17. ObservedInv'
  <2>1. Candidates' \subseteq observed' /\ observed \subseteq observed' /\ {m.members : m \in merges'} \subseteq observed'
    BY <1>1 DEF Materialize, Candidates
  <2>2. g \in {m.members : m \in merges'}
    BY <1>22
  <2>3. QED
    BY <1>1, <1>14, <2>1, <2>2 DEF IInv, ObservedInv, Unreconciled
<1>18. MergesInv'
  <2> SUFFICES ASSUME reconciled = {}
               PROVE  /\ \A m \in merges' : /\ m.canonical \in m.members /\ m.members \subseteq DOMAIN rows' /\ m.members # {m.canonical}
                                            /\ \A r \in m.members \ {m.canonical} : rows'[r].superseded = m.canonical
                      /\ \A r \in DOMAIN rows' : rows'[r].superseded # None =>
                           \E m \in merges' : m.canonical = rows'[r].superseded /\ r \in m.members
                      /\ DOMAIN archive' \subseteq DOMAIN rows'
    BY <1>1 DEF MergesInv
  <2>1. ASSUME NEW m \in merges
        PROVE  /\ m.canonical \in m.members /\ m.members \subseteq DOMAIN rows' /\ m.members # {m.canonical}
               /\ \A r \in m.members \ {m.canonical} : rows'[r].superseded = m.canonical
    <3>1. /\ m.canonical \in m.members /\ m.members \subseteq DOMAIN rows /\ m.members # {m.canonical}
          /\ \A r \in m.members \ {m.canonical} : rows[r].superseded = m.canonical
      BY <1>1 DEF IInv, MergesInv
    <3>2. m.canonical # None
      BY <1>6, <3>1
    <3>3. \A r \in m.members \ {m.canonical} : r \notin g
      BY <1>4, <3>1, <3>2
    <3>4. QED
      BY <1>7, <1>8, <3>1, <3>3
  <2>3. /\ n.canonical \in n.members /\ n.members \subseteq DOMAIN rows' /\ n.members # {n.canonical}
        /\ \A r \in n.members \ {n.canonical} : rows'[r].superseded = n.canonical
    BY <1>4, <1>5, <1>7, <1>9, <1>22
  <2>4. ASSUME NEW r \in DOMAIN rows', rows'[r].superseded # None
        PROVE  \E m \in merges' : m.canonical = rows'[r].superseded /\ r \in m.members
    <3>1. CASE r \in g
      <4>1. r \in n.members /\ n.canonical = rows'[r].superseded /\ n \in merges'
        BY <1>9, <1>10, <1>22, <2>4, <3>1
      <4>2. QED
        BY <4>1
    <3>2. CASE r \notin g
      BY <1>1, <1>7, <1>8, <1>22, <2>4, <3>2 DEF IInv, MergesInv
    <3>3. QED
      BY <3>1, <3>2
  <2>5. DOMAIN archive' \subseteq DOMAIN rows'
    BY <1>1, <1>7 DEF IInv, MergesInv
  <2>6. QED
    BY <1>22, <2>1, <2>3, <2>4, <2>5
<1>19. CountInv' /\ NormalizedInv'
  BY <1>22 DEF CountInv, NormalizedInv
<1>20. QED
  BY <1>12, <1>13, <1>15, <1>16, <1>17, <1>18, <1>19 DEF IInv

\* A decision on the recovery of an occurrence is an approval more, or another one.
LEMMA DecideRecoveryKeepsInv ==
  ASSUME IInv, NEW f \in DOMAIN Files, NEW n \in Records(f), DecideRecovery(f, n)
  PROVE  IInv'
<1> USE DEF review, prescreening
<1>1. /\ UNCHANGED <<exists, snapshots, rows, history, sources, skips, reviews, decided, observed, merges, archive,
                     touched, used, reconciled, normalized>>
      /\ ops' \in 0..MaxOps /\ DOMAIN approvals \subseteq DOMAIN approvals'
  BY TicksAreBounded DEF IInv, DecideRecovery, Put
<1>2. HistoryInv' /\ RowsInv' /\ IdsInv' /\ LedgerInv'
  BY <1>1 DEF IInv, HistoryInv, RowsInv, IdsInv, LedgerInv, Imported
<1>3. Rejected' = Rejected /\ RecoveredRecords' = RecoveredRecords /\ Candidates' = Candidates
  BY <1>1 DEF Rejected, RecoveredRecords, Candidates
<1>4. KeepInv' /\ OwnInv'
  BY <1>1, <1>3 DEF IInv, KeepInv, SourceKeepsItsRow, OwnInv, Accounted, Introduced, Recovered
<1>5. ObservedInv' /\ MergesInv'
  BY <1>1, <1>3 DEF IInv, ObservedInv, Unreconciled, MergesInv
<1>6. CountInv' /\ NormalizedInv'
  <2>1. Additions' = Additions
    BY <1>1 DEF Additions, CountedImports, Imported
  <2>2. QED
    BY <1>1, <1>3, <2>1 DEF IInv, CountInv, NormalizedInv, Unreconciled
<1>7. QED
  BY <1>2, <1>4, <1>5, <1>6 DEF IInv

\* Approved occurrences that the audit does not have become rows.
LEMMA RecoverKeepsInv ==
  ASSUME IInv, NEW es, EntriesAreGiven(es), Tick, RecoverEntries(es)
  PROVE  IInv'
<1> USE DEF review, prescreening
<1>1. PICK chosen : chosen =
        {n \in DOMAIN es : /\ es[n].occ \in {o \in DOMAIN approvals : approvals[o] # "rejected"}
                           /\ approvals[es[n].occ] = "approved"
                           /\ Classification(es, n) = "confirmed_distinct_publication"}
  OBVIOUS
<1>2. PICK back : back = {es[n].occ : n \in chosen}
  OBVIOUS
<1>3. PICK new : new = back \ DOMAIN rows
  OBVIOUS
<1>4. /\ UNCHANGED <<exists, snapshots, history, skips, reviews, decided, observed, merges, archive, touched,
                     used, reconciled, normalized>>
      /\ ops' \in 0..MaxOps /\ exists /\ back # {}
      /\ back \subseteq DOMAIN approvals /\ DOMAIN approvals' = DOMAIN approvals
  <2>1. back # {} /\ DOMAIN approvals' = DOMAIN approvals
    BY <1>1, <1>2 DEF RecoverEntries
  <2>2. back \subseteq DOMAIN approvals
    BY <1>1, <1>2
  <2>3. QED
    BY <2>1, <2>2, TicksAreBounded DEF IInv, RecoverEntries
<1>5. PICK made : DOMAIN made = new /\ rows' = Written(made, rows) /\ \A o \in new : \E n \in chosen : made[o] = RecoveredRow(es[n])
  <2> DEFINE place(o) == CHOOSE n \in chosen : es[n].occ = o
             rec == [o \in new |-> RecoveredRow(es[place(o)])]
  <2>1. rows' = Written(rec, rows)
    BY <1>1, <1>2, <1>3 DEF RecoverEntries
  <2>2. \A o \in new : place(o) \in chosen
    BY <1>2, <1>3
  <2>3. DOMAIN rec = new /\ \A o \in new : rec[o] = RecoveredRow(es[place(o)])
    OBVIOUS
  <2> HIDE DEF rec, place
  <2>4. QED
    BY <2>1, <2>2, <2>3
<1>6. /\ DOMAIN sources' = back \cup DOMAIN sources
      /\ \A o \in back : sources'[o].canonical = o /\ sources'[o].status = "recovered"
      /\ \A o \in DOMAIN sources \ back : sources'[o] = sources[o]
  <2> DEFINE rec == [o \in back |-> SourceRecord(IF o \in DOMAIN sources THEN sources[o].import ELSE NoImport, o, "recovered")]
  <2>1. sources' = Written(rec, sources)
    BY <1>1, <1>2 DEF RecoverEntries
  <2>2. DOMAIN rec = back /\ \A o \in back : rec[o].canonical = o /\ rec[o].status = "recovered"
    BY DEF SourceRecord
  <2> HIDE DEF rec
  <2>3. QED
    BY <2>1, <2>2 DEF Written
<1>7. \A o \in back : o # None /\ o[1] # "file" /\ (o \in DOMAIN sources => sources[o].canonical \notin DOMAIN rows)
  <2> SUFFICES ASSUME NEW n \in chosen
               PROVE  LET o == es[n].occ
                      IN o # None /\ o[1] # "file" /\ (o \in DOMAIN sources => sources[o].canonical \notin DOMAIN rows)
    BY <1>2
  <2>1. es[n].occ # None /\ es[n].occ[1] # "file"
    BY <1>1, ImportsAssumption DEF EntriesAreGiven
  <2>2. ~ InAudit(es[n])
    BY <1>1 DEF Classification
  <2>3. QED
    BY <2>1, <2>2 DEF InAudit
<1>8. IsFiniteSet(new)
  <2>1. PICK k \in Nat : DOMAIN es = 1..k
    BY DEF EntriesAreGiven
  <2>2. IsFiniteSet(chosen)
    <3>1. IsFiniteSet(1..k)
      BY FS_Interval
    <3>2. chosen \in SUBSET (1..k)
      BY <1>1, <2>1
    <3>3. QED
      BY <3>1, <3>2, FS_Subset
  <2>3. IsFiniteSet(back)
    <3> DEFINE h == [n \in chosen |-> es[n].occ]
    <3>1. h \in Surjection(chosen, back)
      BY <1>2 DEF Surjection
    <3> HIDE DEF h
    <3>2. QED
      BY <2>2, <3>1, FS_Surjection
  <2>4. QED
    BY <1>3, <2>3, FS_Subset
<1>9. PICK i : i = NoImport
  OBVIOUS
<1>10. Grows(new, i)
  <2>1. \A r \in new : IsRow(made[r]) /\ made[r].superseded = None /\ made[r].status = "retained" /\ made[r].import = i
    <3> SUFFICES ASSUME NEW r \in new
                 PROVE  IsRow(made[r]) /\ made[r].superseded = None /\ made[r].status = "retained" /\ made[r].import = i
      OBVIOUS
    <3>1. PICK n \in chosen : made[r] = RecoveredRow(es[n])
      BY <1>5
    <3>2. PICK x : x = <<es[n].key[1], es[n].occ>>
      OBVIOUS
    <3>3. made[r] = NewRow(x, {x}, es[n].doi, es[n].work, NoImport)
      BY <3>1, <3>2 DEF RecoveredRow
    <3>4. QED
      BY <1>9, <3>3 DEF NewRow, IsRow
  <2>2. /\ rows' = [r \in DOMAIN rows \cup new |-> rows'[r]]
        /\ \A r \in DOMAIN rows : rows'[r] = rows[r]
        /\ \A r \in new : rows'[r] = made[r]
    BY <1>3, <1>5 DEF Written
  <2>3. \A r \in DOMAIN rows : IsRow(rows[r])
    BY DEF IInv, RowsInv
  <2>4. QED
    BY <1>8, <2>1, <2>2, <2>3 DEF Grows
<1>11. DOMAIN rows' = DOMAIN rows \cup new /\ \A r \in DOMAIN rows : rows'[r] = rows[r]
  BY <1>3, <1>5 DEF Written
<1>12. RowsInv'
  <2>1. RowsInv /\ Len(history) \in Nat /\ Len(history') \in Nat /\ i \in 0..Len(history') /\ Len(history) <= Len(history')
    BY <1>4, <1>9 DEF IInv, HistoryInv, NoImport
  <2>2. QED
    BY <1>10, <2>1, GrowingKeepsRows
<1>13. HistoryInv'
  BY <1>4 DEF IInv, HistoryInv, Imported
<1>14. LedgerInv'
  BY <1>4, <1>6 DEF IInv, LedgerInv, Imported
<1>15. IdsInv'
  <2>1. \A r \in new : r # None /\ r[1] # "file"
    BY <1>3, <1>7
  <2>2. QED
    BY <1>4, <1>11, <2>1 DEF IInv, IdsInv
<1>16. Rejected' = Rejected /\ RecoveredRecords' = RecoveredRecords \cup back
  BY <1>4, <1>6 DEF Rejected, RecoveredRecords
<1>17. KeepInv'
  <2>1. ASSUME NEW o \in DOMAIN sources'
        PROVE  \/ sources'[o].canonical \in DOMAIN rows'
               \/ sources'[o].import \in Rejected' /\ sources'[o].status # "recovered"
               \/ sources'[o].canonical \in touched'
    <3>1. CASE o \in back
      BY <1>3, <1>6, <1>11, <3>1
    <3>2. CASE o \notin back
      BY <1>4, <1>6, <1>11, <1>16, <3>2 DEF IInv, KeepInv, SourceKeepsItsRow
    <3>3. QED
      BY <3>1, <3>2
  <2>2. RecoveredRecords' \subseteq DOMAIN approvals'
    BY <1>4, <1>16 DEF IInv, KeepInv
  <2>3. \A r \in DOMAIN rows' : rows'[r].status = "removed" => r \in touched'
    <3>1. \A r \in new : rows'[r].status = "retained"
      BY <1>3, <1>10 DEF Grows
    <3>2. QED
      BY <1>4, <1>11, <3>1 DEF IInv, KeepInv
  <2>4. QED
    BY <2>1, <2>2, <2>3 DEF KeepInv, SourceKeepsItsRow
<1>18. OwnInv'
  <2> SUFFICES ASSUME LegacyRows = <<>>, NEW r \in DOMAIN rows' PROVE Accounted(r)'
    BY DEF OwnInv
  <2>1. CASE r \in back
    BY <1>6, <1>16, <2>1 DEF Accounted, Recovered
  <2>2. CASE r \in DOMAIN rows /\ r \notin back
    <3>1. Accounted(r)
      BY <1>4, <2>2 DEF IInv, OwnInv
    <3>2. CASE Recovered(r)
      BY <1>6, <1>16, <2>2, <3>2 DEF Accounted, Recovered, RecoveredRecords
    <3>3. CASE rows[r].import # NoImport /\ (history[rows[r].import].kind = "provider" \/ r \in touched)
      BY <1>4, <1>11, <2>2, <3>3 DEF Accounted
    <3>4. CASE rows[r].import # NoImport /\ Introduced(rows[r].import, r)
      <4>1. PICK o \in DOMAIN sources : sources[o].import = rows[r].import /\ sources[o].canonical = r /\ sources[o].status = "imported"
        BY <3>4 DEF Introduced
      <4>2. o \notin back
        BY <1>7, <2>2, <4>1
      <4>3. o \in DOMAIN sources' /\ sources'[o] = sources[o] /\ rows'[r] = rows[r]
        BY <1>6, <1>11, <2>2, <4>2
      <4>4. Introduced(rows[r].import, r)'
        BY <4>1, <4>3 DEF Introduced
      <4>5. QED
        BY <3>4, <4>3, <4>4 DEF Accounted
    <3>5. QED
      BY <3>1, <3>2, <3>3, <3>4 DEF Accounted
  <2>3. QED
    BY <1>3, <1>11, <2>1, <2>2
<1>19. ~ Unreconciled'
  BY <1>4, <1>16 DEF Unreconciled
<1>20. ObservedInv' /\ CountInv' /\ NormalizedInv'
  BY <1>19 DEF ObservedInv, CountInv, NormalizedInv
<1>21. MergesInv'
  <2>1. CASE reconciled = {}
    BY <1>4, <1>10, <2>1, GrowingKeepsMerges DEF IInv
  <2>2. CASE reconciled # {}
    BY <1>4, <2>2 DEF MergesInv
  <2>3. QED
    BY <2>1, <2>2
<1>22. QED
  BY <1>12, <1>13, <1>14, <1>15, <1>17, <1>18, <1>20, <1>21 DEF IInv

\* An operator deletes rows that were removed before screening.
LEMMA ReconcileKeepsInv ==
  ASSUME IInv, NEW i \in Imported, NEW R \in SUBSET Owned(i), Reconcile(i, R)
  PROVE  IInv'
<1> USE DEF review
<1>1. /\ UNCHANGED <<exists, snapshots, history, sources, skips, reviews, decided, observed, merges, touched, used,
                     approvals, normalized>>
      /\ ops' \in 0..MaxOps /\ exists /\ reconciled' # {}
      /\ \A r \in R : r \in DOMAIN rows /\ rows[r].status = "removed"
      /\ archive' = Written(archive, [r \in R |-> rows[r]])
  BY TicksAreBounded DEF IInv, Reconcile, Reconcilable, Owned
<1>2. /\ rows' = [r \in DOMAIN rows \ R |-> rows'[r]] /\ DOMAIN rows' = DOMAIN rows \ R
      /\ \A r \in DOMAIN rows \ R : rows'[r] = IF rows[r].superseded \in R THEN [rows[r] EXCEPT !.superseded = None] ELSE rows[r]
  BY DEF Reconcile
<1>3. \A r \in DOMAIN rows \ R :
        /\ IsRow(rows'[r]) /\ rows'[r].import = rows[r].import /\ rows'[r].status = rows[r].status
        /\ rows'[r].superseded \in {None} \cup ({rows[r].superseded} \ R)
  <2> SUFFICES ASSUME NEW r \in DOMAIN rows \ R
               PROVE  /\ IsRow(rows'[r]) /\ rows'[r].import = rows[r].import /\ rows'[r].status = rows[r].status
                      /\ rows'[r].superseded \in {None} \cup ({rows[r].superseded} \ R)
    OBVIOUS
  <2>1. IsRow(rows[r])
    BY DEF IInv, RowsInv
  <2>2. QED
    BY <1>2, <2>1 DEF IsRow
<1>4. HistoryInv'
  BY <1>1 DEF IInv, HistoryInv, Imported
<1>5. RowsInv'
  <2>1. IsFiniteSet(DOMAIN rows')
    BY <1>2, FS_Subset DEF IInv, RowsInv
  <2>2. \A r \in DOMAIN rows' : rows'[r].superseded \in {None} \cup (DOMAIN rows' \ {r})
    BY <1>2, <1>3 DEF IInv, RowsInv
  <2>3. QED
    BY <1>1, <1>2, <1>3, <2>1, <2>2 DEF IInv, RowsInv
<1>6. DOMAIN archive' = DOMAIN archive \cup R /\ \A r \in DOMAIN archive' : IsRow(archive'[r])
  BY <1>1 DEF IInv, RowsInv, LedgerInv, Written
<1>7. LedgerInv' /\ IdsInv'
  BY <1>1, <1>2, <1>6 DEF IInv, LedgerInv, IdsInv, Imported
<1>8. Rejected' = Rejected /\ RecoveredRecords' = RecoveredRecords
  BY <1>1 DEF Rejected, RecoveredRecords
<1>9. KeepInv'
  <2>1. R \subseteq touched
    BY <1>1 DEF IInv, KeepInv
  <2>2. QED
    BY <1>1, <1>2, <1>3, <1>8, <2>1 DEF IInv, KeepInv, SourceKeepsItsRow
<1>10. OwnInv'
  BY <1>1, <1>2, <1>3, <1>8 DEF IInv, OwnInv, Accounted, Introduced, Recovered
<1>11. ObservedInv' /\ MergesInv' /\ CountInv' /\ NormalizedInv'
  BY <1>1 DEF ObservedInv, MergesInv, CountInv, NormalizedInv, Unreconciled
<1>12. QED
  BY <1>4, <1>5, <1>7, <1>9, <1>10, <1>11 DEF IInv

\* What the deletion of the project leaves is of no project.
LEMMA DeleteProjectKeepsInv ==
  ASSUME IInv, DeleteProject
  PROVE  IInv'
<1>1. /\ ops' \in 0..MaxOps /\ exists' = FALSE
      /\ rows' = <<>> /\ history' = <<>> /\ reviews' = <<>> /\ snapshots' = {} /\ normalized' = None
      /\ UNCHANGED <<sources, archive>>
  BY TicksAreBounded DEF IInv, DeleteProject
<1>2. <<>> \in Seq(HistoryEntries) /\ Len(<<>>) = 0 /\ DOMAIN <<>> = {}
  OBVIOUS
<1>3. HistoryInv'
  BY <1>1, <1>2, ImportsAssumption DEF HistoryInv, Imported
<1>4. RowsInv'
  <2>1. IsFiniteSet({})
    BY FS_EmptySet
  <2>2. <<>> = [r \in {} |-> <<>>[r]]
    OBVIOUS
  <2>3. QED
    BY <1>1, <1>2, <2>1, <2>2 DEF RowsInv
<1>5. LedgerInv'
  BY <1>1, <1>2 DEF IInv, LedgerInv, Imported
<1>6. IdsInv' /\ KeepInv' /\ OwnInv' /\ MergesInv'
  BY <1>1 DEF IdsInv, KeepInv, SourceKeepsItsRow, OwnInv, MergesInv
<1>7. ObservedInv' /\ CountInv' /\ NormalizedInv'
  BY <1>1 DEF ObservedInv, CountInv, NormalizedInv, Unreconciled
<1>8. QED
  BY <1>3, <1>4, <1>5, <1>6, <1>7 DEF IInv

\* What a rejection that nothing forbids finds of the import's own rows.
LEMMA NothingBlocks ==
  ASSUME NEW i, ~ Blocked(i), NEW r \in Owned(i)
  PROVE  /\ \A o \in DOMAIN sources : sources[o].canonical = r => sources[o].import = i
         /\ SourcesOf(i) \cap DOMAIN approvals = {}
         /\ \A m \in merges : r \notin m.members
         /\ \A s \in DOMAIN rows : rows[s].superseded # r
         /\ \A g \in DecidedGroups : r \notin g
         /\ r \notin touched \cup DOMAIN archive \cup used
<1>1. SharedRows(i) = {} /\ MergedRows(i) = {} /\ SourcesOf(i) \cap DOMAIN approvals = {}
      /\ (\A g \in DecidedGroups : g \cap Owned(i) = {}) /\ Owned(i) \cap (touched \cup DOMAIN archive \cup used) = {}
  BY DEF Blocked
<1>2. QED
  BY <1>1 DEF SharedRows, MergedRows

\* The rows of the rejected import go, and nothing names them.
LEMMA RejectKeepsInv ==
  ASSUME IInv, NEW i \in Imported, Reject(i)
  PROVE  IInv'
<1> USE DEF prescreening
<1>1. /\ UNCHANGED <<exists, snapshots, history, sources, skips, decided, merges, archive, touched, used, approvals, reconciled>>
      /\ ops' \in 0..MaxOps /\ exists /\ ~ Blocked(i) /\ i \notin DOMAIN reviews
      /\ reviews' = Put(reviews, i, "rejected")
      /\ rows' = Restrict(rows, DOMAIN rows \ Owned(i))
      /\ IF Owned(i) = {} THEN UNCHANGED observed ELSE Materialize
      /\ ForgetNormalization(Owned(i) # {})
  BY TicksAreBounded DEF IInv, Reject, Reviewable
<1>2. /\ rows' = [r \in DOMAIN rows \ Owned(i) |-> rows'[r]] /\ DOMAIN rows' = DOMAIN rows \ Owned(i)
      /\ \A r \in DOMAIN rows' : r \in DOMAIN rows /\ rows'[r] = rows[r]
  BY <1>1 DEF Restrict
<1>3. Rejected' = Rejected \cup {i} /\ RecoveredRecords' = RecoveredRecords
  BY <1>1 DEF Rejected, RecoveredRecords, Put
<1>4. Owned(i) = {} => rows' = rows
  BY <1>2 DEF IInv, RowsInv
<1>5. HistoryInv'
  BY <1>1 DEF IInv, HistoryInv, Imported
<1>6. RowsInv'
  <2>1. IsFiniteSet(DOMAIN rows')
    BY <1>2, FS_Subset DEF IInv, RowsInv
  <2>2. \A r \in DOMAIN rows' : rows'[r].superseded \notin Owned(i)
    <3>1. \A r \in Owned(i) : \A s \in DOMAIN rows : rows[s].superseded # r
      BY <1>1, NothingBlocks
    <3>2. QED
      BY <1>2, <3>1
  <2>3. \A r \in DOMAIN rows' : rows'[r].superseded \in {None} \cup (DOMAIN rows' \ {r})
    BY <1>2, <2>2 DEF IInv, RowsInv
  <2>4. QED
    BY <1>1, <1>2, <2>1, <2>3 DEF IInv, RowsInv
<1>7. LedgerInv'
  <2>1. DOMAIN reviews' \subseteq Imported' /\ normalized' \in Nat \cup {None}
    BY <1>1 DEF IInv, LedgerInv, Imported, Put, ForgetNormalization
  <2>2. QED
    BY <1>1, <2>1 DEF IInv, LedgerInv
<1>8. IdsInv'
  BY <1>1, <1>2 DEF IInv, IdsInv
<1>9. KeepInv'
  <2>1. ASSUME NEW o \in DOMAIN sources, sources[o].canonical \in Owned(i)
        PROVE  sources[o].import \in Rejected' /\ sources[o].status # "recovered"
    <3>1. sources[o].import = i /\ SourcesOf(i) \cap DOMAIN approvals = {}
      BY <1>1, <2>1, NothingBlocks
    <3>2. o \notin RecoveredRecords
      BY <1>1, <3>1 DEF IInv, KeepInv, SourcesOf
    <3>3. QED
      BY <1>3, <3>1, <3>2 DEF RecoveredRecords
  <2>2. SourceKeepsItsRow'
    BY <1>1, <1>2, <1>3, <2>1 DEF IInv, KeepInv, SourceKeepsItsRow
  <2>3. QED
    BY <1>1, <1>2, <1>3, <2>2 DEF IInv, KeepInv
<1>10. OwnInv'
  <2> SUFFICES ASSUME LegacyRows = <<>>, NEW r \in DOMAIN rows' PROVE Accounted(r)'
    BY DEF OwnInv
  <2>1. Accounted(r) /\ rows'[r] = rows[r]
    BY <1>1, <1>2 DEF IInv, OwnInv
  <2>2. QED
    BY <1>1, <1>3, <2>1 DEF Accounted, Introduced, Recovered
<1>11. ObservedInv'
  <2>1. CASE Owned(i) = {}
    BY <1>1, <1>3, <1>4, <2>1 DEF IInv, ObservedInv, Unreconciled, Candidates
  <2>2. CASE Owned(i) # {}
    <3>1. Candidates' \subseteq observed' /\ observed \subseteq observed'
      BY <1>1, <2>2 DEF Materialize, Candidates
    <3>2. QED
      BY <1>1, <1>3, <3>1 DEF IInv, ObservedInv, Unreconciled
  <2>3. QED
    BY <2>1, <2>2
<1>12. MergesInv'
  <2> SUFFICES ASSUME reconciled = {}
               PROVE  /\ \A m \in merges : /\ m.canonical \in m.members /\ m.members \subseteq DOMAIN rows' /\ m.members # {m.canonical}
                                           /\ \A r \in m.members \ {m.canonical} : rows'[r].superseded = m.canonical
                      /\ \A r \in DOMAIN rows' : rows'[r].superseded # None =>
                           \E m \in merges : m.canonical = rows'[r].superseded /\ r \in m.members
                      /\ DOMAIN archive \subseteq DOMAIN rows'
    BY <1>1 DEF MergesInv
  <2>1. /\ \A m \in merges : m.members \cap Owned(i) = {}
        /\ DOMAIN archive \cap Owned(i) = {}
    BY <1>1, NothingBlocks
  <2>2. \A m \in merges : /\ m.canonical \in m.members /\ m.members \subseteq DOMAIN rows /\ m.members # {m.canonical}
                          /\ \A r \in m.members \ {m.canonical} : rows[r].superseded = m.canonical
    BY <1>1 DEF IInv, MergesInv
  <2>3. /\ \A r \in DOMAIN rows : rows[r].superseded # None =>
                \E m \in merges : m.canonical = rows[r].superseded /\ r \in m.members
        /\ DOMAIN archive \subseteq DOMAIN rows
    BY <1>1 DEF IInv, MergesInv
  <2>4. \A m \in merges : m.members \subseteq DOMAIN rows'
    BY <1>2, <2>1, <2>2
  <2>5. QED
    BY <1>2, <2>1, <2>2, <2>3, <2>4
<1>13. CountInv'
  BY <1>3 DEF CountInv
<1>14. NormalizedInv'
  <2>1. CASE Owned(i) = {}
    BY <1>1, <1>3, <1>4, <2>1 DEF IInv, NormalizedInv, Unreconciled, ForgetNormalization
  <2>2. CASE Owned(i) # {}
    BY <1>1, <2>2 DEF NormalizedInv, ForgetNormalization
  <2>3. QED
    BY <2>1, <2>2
<1>15. QED
  BY <1>5, <1>6, <1>7, <1>8, <1>9, <1>10, <1>11, <1>12, <1>13, <1>14 DEF IInv

----------------------------------------------------------------------------
(* The theorems *)

\* A project starts empty, or with the rows of an earlier version.
LEMMA InitiallyInv ==
  ASSUME Init
  PROVE  IInv
<1>1. Len(<<>>) = 0 /\ DOMAIN <<>> = {} /\ <<>> \in Seq(HistoryEntries)
  OBVIOUS
<1>2. HistoryInv
  BY <1>1, ImportsAssumption DEF Init, HistoryInv, Imported
<1>3. \A r \in DOMAIN rows :
        /\ IsRow(rows[r]) /\ rows[r].import = NoImport /\ rows[r].superseded = None /\ rows[r].status = "retained"
        /\ r # None /\ r[1] \in Providers
  <2> SUFFICES ASSUME NEW r \in DOMAIN LegacyRows
               PROVE  LET row == LegacyRows[r]
                      IN /\ IsRow(row) /\ row.import = NoImport /\ row.superseded = None /\ row.status = "retained"
                         /\ r # None /\ r[1] \in Providers
    BY DEF Init
  <2>1. IsLegacyRow(LegacyRows[r]) /\ r # None /\ r[1] \in Providers
    BY ImportsAssumption
  <2>2. QED
    BY <2>1 DEF IsLegacyRow, IsRow
<1>4. RowsInv
  <2>1. IsFiniteSet(DOMAIN rows) /\ rows = [r \in DOMAIN rows |-> rows[r]]
    BY ImportsAssumption DEF Init
  <2>2. Len(history) = 0
    BY <1>1 DEF Init
  <2>3. QED
    BY <1>3, <2>1, <2>2 DEF RowsInv, NoImport
<1>5. LedgerInv
  BY <1>1, ImportsAssumption DEF Init, LedgerInv
<1>6. IdsInv
  BY <1>1, <1>3, ImportsAssumption DEF Init, IdsInv
<1>7. KeepInv
  BY <1>1, <1>3 DEF Init, KeepInv, SourceKeepsItsRow, RecoveredRecords
<1>8. LegacyRows = <<>> => DOMAIN rows = {}
  BY <1>1 DEF Init
<1>9. OwnInv
  BY <1>8 DEF OwnInv
<1>10. ObservedInv
  <2> SUFFICES ASSUME LegacyRows = <<>> PROVE Candidates = {} /\ DOMAIN decided = {}
    BY DEF ObservedInv
  <2>1. ASSUME NEW g \in Candidates PROVE FALSE
    <3>1. g \subseteq Corpus(rows) /\ Cardinality(g) > 1
      BY <1>4, <2>1, CandidatesAreActive DEF RowsInv, Candidates
    <3>2. g = {}
      BY <1>8, <3>1 DEF Corpus, Live
    <3>3. Cardinality(g) = 0
      BY <3>2, FS_EmptySet
    <3>4. QED
      BY <3>1, <3>3
  <2>2. QED
    BY <1>1, <2>1 DEF Init
<1>11. MergesInv
  BY <1>1, <1>3 DEF Init, MergesInv
<1>12. CountInv
  <2> SUFFICES ASSUME LegacyRows = <<>>
               PROVE  /\ \A r \in DOMAIN rows : r[1] \in Providers => rows[r].lead = r
                      /\ Additions = Cardinality(DOMAIN rows)
    BY DEF CountInv
  <2>1. CountedImports = {}
    BY <1>1 DEF Init, CountedImports, Imported
  <2>2. SumOfCounts(history, {}) = 0
    <3>1. IsFiniteSet({})
      BY FS_EmptySet
    <3>2. \E it : IsSum(it, {}, [i \in {} |-> history[i].count]) /\ SumOfCounts(history, {}) = it[{}]
      BY <3>1, CountsAreSummed
    <3>3. QED
      BY <3>2 DEF IsSum
  <2>3. Cardinality(DOMAIN rows) = 0
    BY <1>8, FS_EmptySet
  <2>4. QED
    BY <1>8, <2>1, <2>2, <2>3 DEF Additions
<1>13. NormalizedInv
  BY DEF Init, NormalizedInv
<1>14. QED
  BY <1>2, <1>4, <1>5, <1>6, <1>7, <1>9, <1>10, <1>11, <1>12, <1>13 DEF IInv

\* A file is imported or fails as a whole.
LEMMA ImportFileKeepsInv ==
  ASSUME IInv, NEW f \in DOMAIN Files, ImportFile(f)
  PROVE  IInv'
<1>1. Uploads[f].format \in FileLabels
  BY UploadsAreRead, ImportsAssumption
<1>2. EntriesAreGiven(Uploads[f].entries)
  BY FilesGiveEntries
<1>3. Tick /\ Len(history) < MaxImports /\ ImportEntries(f, Uploads[f].format, Uploads[f].entries)
  BY DEF ImportFile, ImportUpload
<1>4. QED
  <2>1. PICK new, entry : Adds(new, Len(history) + 1, entry)
    BY <1>1, <1>2, <1>3, FileImportAdds
  <2>2. QED
    BY <2>1, ImportKeepsInv

\* An import of the results of any provider.
LEMMA ImportResultsKeepsInv ==
  ASSUME IInv, ImportResults
  PROVE  IInv'
<1>1. PICK p \in Providers, k \in 1..MaxBatch :
        \E batch \in [1..k -> {d \in snapshots : d.prov[1][1] = p}] : ImportProvider(p, batch)
  BY DEF ImportResults
<1>2. PICK batch \in [1..k -> {d \in snapshots : d.prov[1][1] = p}] : ImportProvider(p, batch)
  BY <1>1
<1>3. QED
  BY <1>2, ProviderImportAdds, ImportKeepsInv

\* A recovery with any file.
LEMMA ExecuteRecoveryKeepsInv ==
  ASSUME IInv, NEW f \in DOMAIN Files, ExecuteRecovery(f)
  PROVE  IInv'
<1>1. PICK es : es = Uploads[f].entries
  OBVIOUS
<1>2. EntriesAreGiven(es) /\ Tick /\ RecoverEntries(es)
  BY <1>1, FilesGiveEntries DEF ExecuteRecovery
<1>3. QED
  BY <1>2, RecoverKeepsInv

\* Every step keeps the invariant.
LEMMA NextKeepsInv ==
  ASSUME IInv, [Next]_vars
  PROVE  IInv'
<1>1. CASE Search \/ ImportResults \/ Normalize \/ DeleteProject
  BY <1>1, SearchKeepsInv, ImportResultsKeepsInv, NormalizeKeepsInv, DeleteProjectKeepsInv
<1>2. ASSUME NEW f \in DOMAIN Files,
             ImportFile(f) \/ FailUpload(f) \/ ExecuteRecovery(f) \/ \E n \in Records(f) : DecideRecovery(f, n)
      PROVE  IInv'
  BY <1>2, ImportFileKeepsInv, FailUploadKeepsInv, ExecuteRecoveryKeepsInv, DecideRecoveryKeepsInv
<1>3. ASSUME NEW i \in Imported,
             \/ View(i) \/ Accept(i) \/ Reject(i)
             \/ \E r \in DOMAIN rows \cup DOMAIN archive : RestoreRecord(i, r)
             \/ \E R \in SUBSET Owned(i) : Reconcile(i, R)
      PROVE  IInv'
  BY <1>3, ViewKeepsInv, AcceptKeepsInv, RejectKeepsInv, RestoreKeepsInv, ReconcileKeepsInv
<1>4. ASSUME NEW g \in Candidates, DecideGroup(g) \/ Merge(g) PROVE IInv'
  BY <1>4, DecideGroupKeepsInv, MergeKeepsInv
<1>5. ASSUME NEW r \in DOMAIN rows, RemoveRecord(r) \/ Use(r) PROVE IInv'
  BY <1>5, RemoveKeepsInv, UseKeepsInv
<1>6. CASE UNCHANGED vars
  BY <1>6, StutteringKeepsInv
<1>7. QED
  BY <1>1, <1>2, <1>3, <1>4, <1>5, <1>6 DEF Next

\* The invariant holds in every reachable state.
THEOREM InvariantHolds == Spec => []IInv
<1>1. Init => IInv
  BY InitiallyInv
<1>2. IInv /\ [Next]_vars => IInv'
  BY NextKeepsInv
<1>3. QED
  BY <1>1, <1>2, PTL DEF Spec

\* The tables keep their types, and nothing is superseded by itself or by a
\* publication that is not there.
THEOREM TypeCorrect == Spec => []TypeOK
<1>1. IInv => TypeOK
  <2> SUFFICES ASSUME IInv PROVE TypeOK
    OBVIOUS
  <2>1. Len(history) \in Nat /\ Len(history) <= MaxImports /\ MaxImports \in Nat
    BY ImportsAssumption DEF IInv, HistoryInv
  <2>2. \A r \in DOMAIN rows : /\ rows[r].import \in 0..MaxImports
                               /\ rows[r].superseded \in {None} \cup (DOMAIN rows \ {r})
                               /\ rows[r].lead \in rows[r].prov
                               /\ rows[r].status \in {"retained", "removed"}
    BY <2>1 DEF IInv, RowsInv, IsRow
  <2>3. QED
    BY <2>1, <2>2 DEF IInv, LedgerInv, TypeOK
<1>2. QED
  BY <1>1, InvariantHolds, PTL

\* No rejection, merge, removal or recovery leaves the source record of
\* another import pointing at a publication that is gone.
THEOREM SourcesKeepTheirRows == Spec => []SourceKeepsItsRow
<1>1. IInv => SourceKeepsItsRow
  BY DEF IInv, KeepInv
<1>2. QED
  BY <1>1, InvariantHolds, PTL

\* What a rejection takes away is introduced by its own import and nothing that
\* reviewers or later stages did refers to it; what a reconciliation takes away
\* was removed before and is archived.
LEMMA RejectionTakesWhatIsItsOwn ==
  ASSUME LegacyRows = <<>>, IInv, NEW i \in Imported, Reject(i), NEW r \in DOMAIN rows \ DOMAIN rows'
  PROVE  /\ \E o \in DOMAIN sources :
              sources[o].import \in Rejected' \ Rejected /\ sources[o].canonical = r /\ sources[o].status = "imported"
         /\ RecoveredRecords = {} /\ reconciled = {} => \A g \in DOMAIN decided : r \notin g
         /\ \A m \in merges : r \notin m.members
         /\ r \notin DOMAIN archive \cup used
<1>1. exists /\ ~ Blocked(i) /\ i \notin DOMAIN reviews /\ history[i].status = "warning"
      /\ reviews' = Put(reviews, i, "rejected") /\ DOMAIN rows' = DOMAIN rows \ Owned(i)
  BY DEF Reject, Reviewable, Tick, Restrict
<1>2. r \in Owned(i) /\ r \in DOMAIN rows /\ rows[r].import = i
  BY <1>1 DEF Owned
<1>3. i \in Rejected' \ Rejected
  BY <1>1 DEF Rejected, Put
<1>4. /\ \A o \in DOMAIN sources : sources[o].canonical = r => sources[o].import = i
      /\ SourcesOf(i) \cap DOMAIN approvals = {}
      /\ \A m \in merges : r \notin m.members
      /\ \A g \in DecidedGroups : r \notin g
      /\ r \notin touched \cup DOMAIN archive \cup used
  BY <1>1, <1>2, NothingBlocks
<1>5. Introduced(i, r)
  <2>1. Accounted(r)
    BY <1>1, <1>2 DEF IInv, OwnInv
  <2>2. ~ Recovered(r)
    BY <1>1, <1>4 DEF IInv, KeepInv, Recovered, RecoveredRecords, SourcesOf
  <2>3. history[i].kind # "provider"
    BY <1>1 DEF IInv, HistoryInv
  <2>4. QED
    BY <1>2, <1>4, <2>1, <2>2, <2>3 DEF Accounted
<1>6. ASSUME RecoveredRecords = {}, reconciled = {}, NEW g \in DOMAIN decided PROVE r \notin g
  <2>1. g \in observed
    BY <1>1, <1>6 DEF IInv, ObservedInv, Unreconciled
  <2>2. g \in DecidedGroups
    BY <2>1 DEF DecidedGroups
  <2>3. QED
    BY <1>4, <2>2
<1>7. QED
  BY <1>3, <1>4, <1>5, <1>6 DEF Introduced

\* Rows leave the table by a rejection, a reconciliation or the deletion only.
LEMMA OnlyTheseTakeRows ==
  ASSUME IInv, [Next]_vars, exists', ~ (DOMAIN rows \subseteq DOMAIN rows')
  PROVE  \E i \in Imported : Reject(i) \/ \E R \in SUBSET Owned(i) : Reconcile(i, R)
<1>1. CASE Search \/ Normalize \/ DeleteProject
  <2>1. Search \/ Normalize => rows' = rows
    BY DEF Search, Normalize
  <2>2. DeleteProject => ~ exists'
    BY DEF DeleteProject
  <2>3. QED
    BY <1>1, <2>1, <2>2
<1>2. CASE ImportResults
  <2>1. PICK p \in Providers, k \in 1..MaxBatch :
          \E batch \in [1..k -> {d \in snapshots : d.prov[1][1] = p}] : ImportProvider(p, batch)
    BY <1>2 DEF ImportResults
  <2>2. PICK batch : ImportProvider(p, batch)
    BY <2>1, Zenon
  <2>3. PICK new : rows' = Upserted(rows, new)
    BY <2>2 DEF ImportProvider
  <2>4. QED
    BY <2>3 DEF Upserted
<1>3. ASSUME NEW f \in DOMAIN Files,
             ImportFile(f) \/ FailUpload(f) \/ ExecuteRecovery(f) \/ \E n \in Records(f) : DecideRecovery(f, n)
      PROVE  FALSE
  <2>1. CASE ImportFile(f)
    <3>1. PICK new : rows' = Written(new, rows)
      BY <2>1, Zenon DEF ImportFile, ImportUpload, ImportEntries
    <3>2. QED
      BY <3>1, Zenon DEF Written
  <2>2. CASE ExecuteRecovery(f)
    <3>1. PICK new : rows' = Written(new, rows)
      BY <2>2, Zenon DEF ExecuteRecovery, RecoverEntries
    <3>2. QED
      BY <3>1, Zenon DEF Written
  <2>3. CASE FailUpload(f) \/ \E n \in Records(f) : DecideRecovery(f, n)
    BY <2>3 DEF FailUpload, DecideRecovery
  <2>4. QED
    BY <1>3, <2>1, <2>2, <2>3
<1>4. ASSUME NEW i \in Imported,
             \/ View(i) \/ Accept(i) \/ Reject(i)
             \/ \E r \in DOMAIN rows \cup DOMAIN archive : RestoreRecord(i, r)
             \/ \E R \in SUBSET Owned(i) : Reconcile(i, R)
      PROVE  Reject(i) \/ \E R \in SUBSET Owned(i) : Reconcile(i, R)
  <2>1. CASE View(i) \/ Accept(i)
    BY <2>1 DEF View, Accept
  <2>2. CASE \E r \in DOMAIN rows \cup DOMAIN archive : RestoreRecord(i, r)
    BY <2>2 DEF RestoreRecord, Put
  <2>3. QED
    BY <1>4, <2>1, <2>2
<1>5. ASSUME NEW g \in Candidates, DecideGroup(g) \/ Merge(g) PROVE FALSE
  BY <1>5 DEF DecideGroup, Merge
<1>6. ASSUME NEW r \in DOMAIN rows, RemoveRecord(r) \/ Use(r) PROVE FALSE
  BY <1>6 DEF RemoveRecord, Use
<1>7. CASE UNCHANGED vars
  BY <1>7 DEF vars
<1>8. QED
  BY <1>1, <1>2, <1>3, <1>4, <1>5, <1>6, <1>7 DEF Next

\* Of a project without publications from an earlier version, a rejection takes
\* only what its own import introduced and nobody refers to.
THEOREM RejectionsAreSafe ==
  ASSUME LegacyRows = <<>>
  PROVE  Spec => RejectionIsSafe
<1> DEFINE Safe == exists' => \A r \in DOMAIN rows \ DOMAIN rows' :
       \/ /\ \E o \in DOMAIN sources :
               /\ sources[o].import \in Rejected' \ Rejected
               /\ sources[o].canonical = r /\ sources[o].status = "imported"
          /\ RecoveredRecords = {} /\ reconciled = {} => \A g \in DOMAIN decided : r \notin g
          /\ \A m \in merges : r \notin m.members
          /\ r \notin DOMAIN archive \cup used
       \/ rows[r].status = "removed" /\ r \in DOMAIN archive' \ used
<1>1. IInv /\ [Next]_vars => Safe
  <2> SUFFICES ASSUME IInv, [Next]_vars, exists', NEW r \in DOMAIN rows \ DOMAIN rows'
               PROVE  \/ /\ \E o \in DOMAIN sources :
                              /\ sources[o].import \in Rejected' \ Rejected
                              /\ sources[o].canonical = r /\ sources[o].status = "imported"
                         /\ RecoveredRecords = {} /\ reconciled = {} => \A g \in DOMAIN decided : r \notin g
                         /\ \A m \in merges : r \notin m.members
                         /\ r \notin DOMAIN archive \cup used
                      \/ rows[r].status = "removed" /\ r \in DOMAIN archive' \ used
    OBVIOUS
  <2>1. PICK i \in Imported : Reject(i) \/ \E R \in SUBSET Owned(i) : Reconcile(i, R)
    BY OnlyTheseTakeRows
  <2>2. CASE Reject(i)
    BY <2>2, RejectionTakesWhatIsItsOwn
  <2>3. ASSUME NEW R \in SUBSET Owned(i), Reconcile(i, R)
        PROVE  rows[r].status = "removed" /\ r \in DOMAIN archive' \ used
    <3>1. r \in R
      BY <2>3 DEF Reconcile
    <3>2. rows[r].status = "removed" /\ r \notin used
      BY <2>3, <3>1 DEF Reconcile, Reconcilable
    <3>3. archive' = Written(archive, [x \in R |-> rows[x]])
      BY <2>3 DEF Reconcile
    <3>4. r \in DOMAIN archive'
      BY <3>1, <3>3 DEF Written
    <3>5. QED
      BY <3>2, <3>4
  <2>4. QED
    BY <2>1, <2>2, <2>3
<1>2. Spec => [][Safe]_vars
  <2>1. IInv /\ [Next]_vars => [Safe]_vars
    BY <1>1
  <2> HIDE DEF Safe
  <2>2. QED
    BY <2>1, InvariantHolds, PTL DEF Spec
<1>3. QED
  BY <1>2 DEF RejectionIsSafe

\* The errors the audit can find on merges: the canonical publication of one is
\* superseded, and then it ends a chain; and only then does a chain end in it.
LEMMA ChainsAreSuperseded ==
  ASSUME IInv, exists, reconciled = {}
  PROVE  /\ \A m \in merges : MergeErrors(m) = IF rows[m.canonical].superseded # None THEN {"canonical_superseded"} ELSE {}
         /\ \A r \in DOMAIN rows : SupersessionErrors(r) \in {{}, {"chain"}}
         /\ (\E m \in merges : rows[m.canonical].superseded # None) <=> (\E r \in DOMAIN rows : SupersessionErrors(r) = {"chain"})
<1>1. /\ \A m \in merges : /\ m.canonical \in m.members /\ m.members \subseteq DOMAIN rows /\ m.members # {m.canonical}
                           /\ \A r \in m.members \ {m.canonical} : rows[r].superseded = m.canonical
      /\ \A r \in DOMAIN rows : rows[r].superseded # None =>
           \E m \in merges : m.canonical = rows[r].superseded /\ r \in m.members
  BY DEF IInv, MergesInv
<1>2. \A r \in DOMAIN rows : r # None /\ rows[r].superseded \in {None} \cup (DOMAIN rows \ {r})
  BY DEF IInv, IdsInv, RowsInv
<1>3. \A m \in merges : MergeErrors(m) = IF rows[m.canonical].superseded # None THEN {"canonical_superseded"} ELSE {}
  <2> SUFFICES ASSUME NEW m \in merges
               PROVE  MergeErrors(m) = IF rows[m.canonical].superseded # None THEN {"canonical_superseded"} ELSE {}
    OBVIOUS
  <2>1. MergeErrors(m) =
          {e \in {"canonical_superseded", "supersession_invalid"} :
             IF e = "canonical_superseded" THEN rows[m.canonical].superseded # None
             ELSE \E r \in m.members \ {m.canonical} : rows[r].superseded # m.canonical}
    BY <1>1 DEF MergeErrors
  <2>2. ~ \E r \in m.members \ {m.canonical} : rows[r].superseded # m.canonical
    BY <1>1
  <2>3. QED
    BY <2>1, <2>2
<1>4. \A r \in DOMAIN rows : SupersessionErrors(r) =
        IF rows[r].superseded # None /\ rows[rows[r].superseded].superseded # None THEN {"chain"} ELSE {}
  BY <1>2 DEF SupersessionErrors
<1>5. ASSUME NEW m \in merges, rows[m.canonical].superseded # None
      PROVE  \E r \in DOMAIN rows : SupersessionErrors(r) = {"chain"}
  <2>1. PICK r \in m.members : r # m.canonical
    BY <1>1
  <2>2. r \in DOMAIN rows /\ rows[r].superseded = m.canonical /\ m.canonical # None
    BY <1>1, <1>2, <2>1
  <2>3. QED
    BY <1>4, <1>5, <2>2
<1>6. ASSUME NEW r \in DOMAIN rows, SupersessionErrors(r) = {"chain"}
      PROVE  \E m \in merges : rows[m.canonical].superseded # None
  <2>1. rows[r].superseded # None /\ rows[rows[r].superseded].superseded # None
    BY <1>4, <1>6
  <2>2. QED
    BY <1>1, <2>1
<1>7. QED
  BY <1>3, <1>4, <1>5, <1>6

\* A merged group is no candidate again: its members are not all active.
LEMMA MergedAreNoCandidates ==
  ASSUME IInv, exists, reconciled = {}
  PROVE  Candidates \cap MergedGroups = {}
<1> SUFFICES ASSUME NEW m \in merges, m.members \in Candidates PROVE FALSE
  BY DEF MergedGroups
<1>1. m.members \subseteq Corpus(rows)
  BY CandidatesAreActive DEF IInv, RowsInv, Candidates
<1>2. PICK r \in m.members : r # m.canonical
  BY DEF IInv, MergesInv
<1>3. rows[r].superseded = m.canonical /\ m.canonical \in DOMAIN rows
  BY <1>2 DEF IInv, MergesInv
<1>4. m.canonical # None
  BY <1>3 DEF IInv, IdsInv
<1>5. QED
  BY <1>1, <1>3, <1>4 DEF Corpus, Live

\* The duplicate groups the accounting counts as merged are not counted again
\* as candidates, as long as nothing was reconciled.
THEOREM MergedGroupsAreNoCandidates ==
  Spec => [](exists /\ reconciled = {} => Candidates \cap MergedGroups = {})
<1>1. IInv => (exists /\ reconciled = {} => Candidates \cap MergedGroups = {})
  BY MergedAreNoCandidates
<1>2. QED
  BY <1>1, InvariantHolds, PTL

\* The warnings of the audit, each with what it compares.
LEMMA WarningsOfTheAudit ==
  /\ "record_count_mismatch" \in AuditWarnings => Additions # Cardinality(DOMAIN rows)
  /\ "normalization_count_mismatch" \in AuditWarnings => normalized \notin {None, Cardinality(Corpus(rows))}
<1> DEFINE imported == MapThenSumSet(LAMBDA i : history[i].count, {i \in Imported : history[i].status # "failed"})
           mismatch == Imported # {} /\ imported # Cardinality(DOMAIN rows)
           stale == normalized \notin {None, Cardinality(Corpus(rows))}
           orphaned == ~ (DOMAIN decided \subseteq AuditGroups \cup MergedGroups)
           wrong == [record_count_mismatch |-> mismatch, normalization_count_mismatch |-> stale, decision_orphaned |-> orphaned]
<1>1. imported = Additions
  BY DEF Additions, SumOfCounts, CountedImports
<1>2. AuditWarnings = {w \in DOMAIN wrong : wrong[w]}
  BY DEF AuditWarnings
<1>3. mismatch => Additions # Cardinality(DOMAIN rows)
  <2> HIDE DEF imported
  <2>1. QED
    BY <1>1
<1> HIDE DEF imported, mismatch, stale, orphaned
<1>4. wrong["record_count_mismatch"] = mismatch /\ wrong["normalization_count_mismatch"] = stale
  OBVIOUS
<1> HIDE DEF wrong
<1>5. "record_count_mismatch" \in AuditWarnings => mismatch
  BY <1>2, <1>4
<1>6. "normalization_count_mismatch" \in AuditWarnings => stale
  BY <1>2, <1>4
<1>7. QED
  BY <1>3, <1>5, <1>6 DEF stale

\* Without a reconciliation the audit finds no errors but chains, and it warns
\* of counts only after what changes them.
THEOREM AuditIsExplained == Spec => []AuditFindsOnlyChains
<1>1. IInv => AuditFindsOnlyChains
  <2> SUFFICES ASSUME IInv, exists, reconciled = {}
               PROVE  /\ AuditErrors \in {{}, {"canonical_superseded", "chain"}}
                      /\ "record_count_mismatch" \in AuditWarnings =>
                           Rejected # {} \/ RecoveredRecords # {} \/ merges # {} \/ LegacyRows # <<>>
                      /\ "normalization_count_mismatch" \in AuditWarnings =>
                           merges # {} \/ touched # {} \/ RecoveredRecords # {}
    BY DEF AuditFindsOnlyChains
  <2>1. CollectionErrors = {}
    <3>1. \A r \in DOMAIN rows : rows[r].prov # {}
      BY DEF IInv, RowsInv, IsRow
    <3>2. \A g \in AuditGroups : g \subseteq Corpus(rows)
      BY AuditGroupsAreActive DEF IInv, RowsInv, AuditGroups
    <3>3. QED
      BY <3>1, <3>2 DEF CollectionErrors
  <2>2. /\ \A m \in merges : MergeErrors(m) = IF rows[m.canonical].superseded # None THEN {"canonical_superseded"} ELSE {}
        /\ \A r \in DOMAIN rows : SupersessionErrors(r) \in {{}, {"chain"}}
        /\ (\E m \in merges : rows[m.canonical].superseded # None) <=> (\E r \in DOMAIN rows : SupersessionErrors(r) = {"chain"})
    BY ChainsAreSuperseded
  <2>3. AuditErrors \in {{}, {"canonical_superseded", "chain"}}
    <3> DEFINE F == {MergeErrors(m) : m \in merges} \cup {SupersessionErrors(r) : r \in DOMAIN rows}
    <3>1. AuditErrors = UNION F
      BY <2>1 DEF AuditErrors
    <3>2. \A e : e \in UNION F <=> (\E m \in merges : e \in MergeErrors(m)) \/ (\E r \in DOMAIN rows : e \in SupersessionErrors(r))
      OBVIOUS
    <3> HIDE DEF F
    <3>3. CASE \E m \in merges : rows[m.canonical].superseded # None
      <4>1. \A e : e \in UNION F <=> e \in {"canonical_superseded", "chain"}
        BY <2>2, <3>2, <3>3
      <4>2. QED
        BY <3>1, <4>1
    <3>4. CASE ~ \E m \in merges : rows[m.canonical].superseded # None
      <4>1. \A e : e \notin UNION F
        BY <2>2, <3>2, <3>4
      <4>2. QED
        BY <3>1, <4>1
    <3>5. QED
      BY <3>3, <3>4
  <2>4. "record_count_mismatch" \in AuditWarnings =>
           Rejected # {} \/ RecoveredRecords # {} \/ merges # {} \/ LegacyRows # <<>>
    BY WarningsOfTheAudit DEF IInv, CountInv, Unreconciled
  <2>5. "normalization_count_mismatch" \in AuditWarnings => merges # {} \/ touched # {} \/ RecoveredRecords # {}
    BY WarningsOfTheAudit DEF IInv, NormalizedInv, Unreconciled
  <2>6. QED
    BY <2>3, <2>4, <2>5
<1>2. QED
  BY <1>1, InvariantHolds, PTL

----------------------------------------------------------------------------
(* The accounts: the invariants they rest on *)

\* What the skip audit holds against the source records.
AuditInv ==
  exists =>
    /\ IsFiniteSet(DOMAIN sources) /\ IsFiniteSet(skips)
    /\ \A o \in DOMAIN sources : sources[o].import \in CountedImports \cup {NoImport}
    /\ \A s \in skips : /\ s = Skip(s.import, s.occ, s.match) /\ s.import \in CountedImports
                        /\ s.match \in {"repeated_occurrence", "exact_doi", "provider_key_duplicate"}
                        /\ s.occ \in DOMAIN sources
                        /\ IF s.match = "repeated_occurrence" THEN sources[s.occ].import # s.import
                           ELSE sources[s.occ].status = "linked" /\ sources[s.occ].import = s.import
    /\ \A s, t \in skips : s.occ = t.occ /\ "repeated_occurrence" \notin {s.match, t.match} => s = t
    /\ \A o \in DOMAIN sources : sources[o].status = "linked" =>
         \E s \in skips : s.occ = o /\ s.match # "repeated_occurrence"
    /\ \A i \in CountedImports : Audited(i)
    /\ \A i \in Imported : history[i].status = "failed" => history[i].count = 0

ReviewsInv ==
  exists => \A i \in DOMAIN reviews : history[i].status = "warning" /\ reviews[i] \in {"accepted", "rejected"}

OccurrencesOf(f) == {Uploads[f].entries[n].occ : n \in Records(f)}
RepeatedIn(i) == {s.occ : s \in SkipsOf(i, "repeated_occurrence")}

\* The source records and the repeated occurrences of a file import are the
\* occurrences of the file.
FilesInv ==
  exists => \A i \in Imported : history[i].file # None =>
    /\ history[i].label = Files[history[i].file].format
    /\ history[i].status # "failed" =>
         /\ Uploads[history[i].file].ok
         /\ SourcesOf(i) \cup RepeatedIn(i) = OccurrencesOf(history[i].file)

\* A recovered record is its own publication, and its name tells it from the
\* publications that imports introduce.
NamesInv ==
  exists => \A o \in DOMAIN sources :
    /\ sources[o].status = "recovered" => sources[o].canonical = o /\ o[1] \in FileLabels
    /\ sources[o].status = "imported" => sources[o].canonical[1] \in Providers \cup {"file"}

\* As long as nothing is merged or reconciled, the publications that were not
\* recovered are those of the imports that were not rejected, as many of each as
\* it counts.
Unmerged == exists /\ merges = {} /\ reconciled = {} /\ LegacyRows = <<>>

AdditionsInv ==
  Unmerged =>
    /\ RecoveredRecords \subseteq DOMAIN rows
    /\ \A r \in DOMAIN rows \ RecoveredRecords :
         r[1] \in Providers \cup {"file"} /\ rows[r].import \in CountedImports \ Rejected
    /\ \A i \in CountedImports \ Rejected : Cardinality(Owned(i) \ RecoveredRecords) = history[i].count
    /\ \A r \in DOMAIN rows : IF r[1] \in Providers THEN rows[r].lead = r ELSE rows[r].lead[1] \in FileLabels

\* While nothing is rejected either, every publication has the record that
\* introduced it, and the provider's key of every record names a publication.
IntroducedInv ==
  Unmerged /\ Rejected = {} =>
    /\ \A r \in DOMAIN rows : \E o \in DOMAIN sources : sources[o].canonical = r /\ sources[o].status # "linked"
    /\ \A o \in DOMAIN sources : o[1] \in Providers => o[3][1] \in DOMAIN rows

\* No publication was merged away twice.
DisjointInv ==
  exists /\ reconciled = {} =>
    \A m, n \in merges : m # n => (m.members \ {m.canonical}) \cap (n.members \ {n.canonical}) = {}

RecordsInv == AuditInv /\ ReviewsInv /\ FilesInv /\ NamesInv
AccountsInv == RecordsInv /\ AdditionsInv /\ IntroducedInv /\ DisjointInv

----------------------------------------------------------------------------
(* What keeps them *)

\* As long as the history, the source records and the skips are the same, so is
\* what is said of them.
LEMMA SameRecordsKeepInv ==
  ASSUME RecordsInv, UNCHANGED <<exists, history, sources, skips>>,
         exists => \A i \in DOMAIN reviews' : history[i].status = "warning" /\ reviews'[i] \in {"accepted", "rejected"}
  PROVE  RecordsInv'
<1>1. CountedImports' = CountedImports /\ Imported' = Imported
  BY DEF CountedImports, Imported
<1>2. \A i : SourcesOf(i)' = SourcesOf(i) /\ RepeatedIn(i)' = RepeatedIn(i) /\ (Audited(i)' <=> Audited(i))
  BY DEF SourcesOf, RepeatedIn, SkipsOf, Audited
<1>3. AuditInv'
  BY <1>1, <1>2 DEF RecordsInv, AuditInv
<1>4. ReviewsInv'
  BY DEF ReviewsInv
<1>5. FilesInv'
  BY <1>1, <1>2 DEF RecordsInv, FilesInv
<1>6. NamesInv'
  BY DEF RecordsInv, NamesInv
<1>7. QED
  BY <1>3, <1>4, <1>5, <1>6 DEF RecordsInv

\* The publications stay, and only those without an import are given one.
Steady ==
  /\ DOMAIN rows' = DOMAIN rows
  /\ \A r \in DOMAIN rows : /\ rows'[r].lead = rows[r].lead
                            /\ rows'[r].import = rows[r].import \/ rows[r].import = NoImport

\* Neither does it count for the additions to give an import to a publication that
\* has none: it was recovered.
LEMMA SteadyRowsKeepInv ==
  ASSUME IInv, AdditionsInv, IntroducedInv, UNCHANGED <<exists, history, sources, merges, reconciled>>,
         Rejected' = Rejected, reconciled = {} => Steady
  PROVE  AdditionsInv' /\ IntroducedInv'
<1>1. CountedImports' = CountedImports /\ RecoveredRecords' = RecoveredRecords /\ Unmerged' = Unmerged
  BY DEF CountedImports, Imported, RecoveredRecords, Unmerged
<1>2. AdditionsInv'
  <2> SUFFICES ASSUME Unmerged PROVE AdditionsInv'
    BY <1>1 DEF AdditionsInv
  <2>1. Steady
    BY DEF Unmerged
  <2>2. \A i \in CountedImports : i # NoImport
    BY DEF CountedImports, Imported, NoImport, IInv, HistoryInv
  <2>3. \A r \in DOMAIN rows \ RecoveredRecords : rows'[r].import = rows[r].import
    BY <2>1, <2>2 DEF Steady, AdditionsInv
  <2>4. \A i \in CountedImports \ Rejected : Owned(i)' \ RecoveredRecords = Owned(i) \ RecoveredRecords
    BY <2>1, <2>3 DEF Owned, Steady
  <2>5. QED
    BY <1>1, <2>1, <2>3, <2>4 DEF AdditionsInv, Steady
<1>3. IntroducedInv'
  BY <1>1 DEF IntroducedInv, Steady, Unmerged
<1>4. QED
  BY <1>2, <1>3

\* The records an import writes: those of the occurrences in fresh are new, those
\* in again were known, and each record that is linked leaves a skip.
AddsRecords(i, fresh, again, match) ==
  /\ IsFiniteSet(fresh) /\ IsFiniteSet(again) /\ fresh \cup again # {}
  /\ again \subseteq DOMAIN sources /\ fresh \cap DOMAIN sources = {}
  /\ DOMAIN sources' = DOMAIN sources \cup fresh
  /\ \A o \in DOMAIN sources : sources'[o] = sources[o]
  /\ \A o \in fresh : /\ sources'[o].import = i /\ sources'[o].status \in {"imported", "linked"}
                      /\ sources'[o].status = "imported" => sources'[o].canonical[1] \in Providers \cup {"file"}
                      /\ match[o] \in {"exact_doi", "provider_key_duplicate"}
  /\ skips' = skips \cup {Skip(i, o, "repeated_occurrence") : o \in again}
                    \cup {Skip(i, o, match[o]) : o \in {x \in fresh : sources'[x].status = "linked"}}

\* The records and the skips after an import.
LEMMA ImportsAddRecords ==
  ASSUME IInv, RecordsInv, exists, NEW new, NEW i, NEW entry, Adds(new, i, entry),
         NEW fresh, NEW again, NEW match, AddsRecords(i, fresh, again, match)
  PROVE  /\ CountedImports' = CountedImports \cup {i} /\ i \notin Imported /\ Imported' = Imported \cup {i}
         /\ i \in CountedImports' /\ i # NoImport
         /\ history'[i] = entry /\ \A n \in Imported : history'[n] = history[n]
         /\ \A s \in skips : s \in skips' /\ s.import \in CountedImports
         /\ \A s \in skips' \ skips :
              \/ s = Skip(i, s.occ, "repeated_occurrence") /\ s.occ \in again
              \/ s = Skip(i, s.occ, match[s.occ]) /\ s.occ \in fresh /\ sources'[s.occ].status = "linked"
         /\ SourcesOf(i)' = fresh /\ RepeatedIn(i)' = again
         /\ \A n \in Imported \cup {NoImport} : SourcesOf(n)' = SourcesOf(n) /\ RepeatedIn(n)' = RepeatedIn(n)
<1>1. /\ exists' = exists /\ i = Len(history) + 1 /\ history' = Append(history, entry)
      /\ entry \in HistoryEntries /\ entry.status # "failed" /\ HistoryInv
  BY DEF Adds, IInv
<1>2. /\ Len(history) \in Nat /\ Imported = 1..Len(history) /\ Imported' = 1..(Len(history) + 1)
      /\ history'[i] = entry /\ \A n \in Imported : history'[n] = history[n]
  BY <1>1, HistoryGrows
<1>3. i \notin Imported /\ Imported' = Imported \cup {i} /\ i # NoImport /\ NoImport \notin Imported
  BY <1>1, <1>2 DEF NoImport
<1>4. CountedImports' = CountedImports \cup {i}
  BY <1>1, <1>2, <1>3 DEF CountedImports
<1>5. \A s \in skips : /\ s.import \in CountedImports /\ s.import # i
  BY <1>3 DEF RecordsInv, AuditInv, CountedImports
<1>6. \A o \in DOMAIN sources : sources[o].import # i
  BY <1>3 DEF RecordsInv, AuditInv, CountedImports
<1>7. \A s \in skips' \ skips :
        \/ s = Skip(i, s.occ, "repeated_occurrence") /\ s.occ \in again
        \/ s = Skip(i, s.occ, match[s.occ]) /\ s.occ \in fresh /\ sources'[s.occ].status = "linked"
  BY DEF AddsRecords, Skip
<1>8. SourcesOf(i)' = fresh /\ \A n \in Imported \cup {NoImport} : SourcesOf(n)' = SourcesOf(n)
  BY <1>3, <1>6 DEF SourcesOf, AddsRecords
<1>9. RepeatedIn(i)' = again
  <2>1. \A o \in again : Skip(i, o, "repeated_occurrence") \in skips'
    BY DEF AddsRecords
  <2>2. \A s \in skips' : s.import = i /\ s.match = "repeated_occurrence" => s.occ \in again
    <3> SUFFICES ASSUME NEW s \in skips', s.import = i, s.match = "repeated_occurrence" PROVE s.occ \in again
      OBVIOUS
    <3>1. s \notin skips
      BY <1>5
    <3>2. s.occ \in fresh => match[s.occ] # "repeated_occurrence"
      BY DEF AddsRecords
    <3>3. QED
      BY <1>7, <3>1, <3>2 DEF Skip
  <2>3. \A o \in again : o \in RepeatedIn(i)'
    <3> SUFFICES ASSUME NEW o \in again PROVE o \in RepeatedIn(i)'
      OBVIOUS
    <3>1. PICK s : s = Skip(i, o, "repeated_occurrence")
      OBVIOUS
    <3>2. s \in skips' /\ s.import = i /\ s.match = "repeated_occurrence" /\ s.occ = o
      BY <2>1, <3>1 DEF Skip
    <3>3. QED
      BY <3>2 DEF RepeatedIn, SkipsOf
  <2>4. QED
    BY <2>2, <2>3 DEF RepeatedIn, SkipsOf
<1>10. \A n \in Imported \cup {NoImport} : RepeatedIn(n)' = RepeatedIn(n)
  <2> SUFFICES ASSUME NEW n \in Imported \cup {NoImport} PROVE RepeatedIn(n)' = RepeatedIn(n)
    OBVIOUS
  <2>1. SkipsOf(n, "repeated_occurrence")' = SkipsOf(n, "repeated_occurrence")
    <3>1. \A s \in skips' : s.import = n => s \in skips
      BY <1>3, <1>7 DEF Skip
    <3>2. skips \subseteq skips'
      BY DEF AddsRecords
    <3>3. QED
      BY <3>1, <3>2 DEF SkipsOf
  <2>2. QED
    BY <2>1 DEF RepeatedIn
<1>11. skips \subseteq skips'
  BY DEF AddsRecords
<1>12. QED
  BY <1>2, <1>3, <1>4, <1>5, <1>7, <1>8, <1>9, <1>10, <1>11

\* An import of a file has the occurrences of the file, which was read.
OfItsFile(entry, fresh, again) ==
  entry.file # None =>
    /\ entry.label = Files[entry.file].format /\ Uploads[entry.file].ok
    /\ fresh \cup again = OccurrencesOf(entry.file)

\* An import leaves the audit as complete as it was.
LEMMA ImportKeepsRecords ==
  ASSUME IInv, RecordsInv, exists, NEW new, NEW i, NEW entry, Adds(new, i, entry),
         NEW fresh, NEW again, NEW match, AddsRecords(i, fresh, again, match), OfItsFile(entry, fresh, again)
  PROVE  RecordsInv'
<1>1. /\ CountedImports' = CountedImports \cup {i} /\ i \notin Imported /\ Imported' = Imported \cup {i}
      /\ i \in CountedImports' /\ i # NoImport
      /\ history'[i] = entry /\ \A n \in Imported : history'[n] = history[n]
      /\ \A s \in skips : s \in skips' /\ s.import \in CountedImports
      /\ \A s \in skips' \ skips :
           \/ s = Skip(i, s.occ, "repeated_occurrence") /\ s.occ \in again
           \/ s = Skip(i, s.occ, match[s.occ]) /\ s.occ \in fresh /\ sources'[s.occ].status = "linked"
      /\ SourcesOf(i)' = fresh /\ RepeatedIn(i)' = again
      /\ \A n \in Imported \cup {NoImport} : SourcesOf(n)' = SourcesOf(n) /\ RepeatedIn(n)' = RepeatedIn(n)
  BY ImportsAddRecords
<1>2. exists' = exists /\ reviews' = reviews /\ entry.status # "failed"
  BY DEF Adds
<1>3. /\ IsFiniteSet(fresh) /\ IsFiniteSet(again) /\ fresh \cup again # {}
      /\ again \subseteq DOMAIN sources /\ fresh \cap DOMAIN sources = {}
      /\ DOMAIN sources' = DOMAIN sources \cup fresh
      /\ \A o \in DOMAIN sources : sources'[o] = sources[o]
      /\ \A o \in fresh : /\ sources'[o].import = i /\ sources'[o].status \in {"imported", "linked"}
                          /\ sources'[o].status = "imported" => sources'[o].canonical[1] \in Providers \cup {"file"}
                          /\ match[o] \in {"exact_doi", "provider_key_duplicate"}
      /\ skips' = skips \cup {Skip(i, o, "repeated_occurrence") : o \in again}
                        \cup {Skip(i, o, match[o]) : o \in {x \in fresh : sources'[x].status = "linked"}}
  BY DEF AddsRecords
<1>4. IsFiniteSet(DOMAIN sources') /\ IsFiniteSet(skips')
  <2>1. IsFiniteSet(DOMAIN sources) /\ IsFiniteSet(skips)
    BY DEF RecordsInv, AuditInv
  <2>2. IsFiniteSet(DOMAIN sources')
    <3>1. IsFiniteSet(fresh)
      BY <1>3
    <3>2. IsFiniteSet(DOMAIN sources \cup fresh)
      BY <2>1, <3>1, FS_Union
    <3>3. QED
      BY <1>3, <3>2
  <2>3. IsFiniteSet({Skip(i, o, "repeated_occurrence") : o \in again})
    <3> DEFINE g == [o \in again |-> Skip(i, o, "repeated_occurrence")]
    <3>1. {Skip(i, o, "repeated_occurrence") : o \in again} = {g[o] : o \in again}
      OBVIOUS
    <3> HIDE DEF g
    <3>2. IsFiniteSet(again)
      BY <1>3
    <3>3. IsFiniteSet({g[o] : o \in again})
      BY <3>2, ImageIsFinite
    <3>4. QED
      BY <3>1, <3>3
  <2>4. IsFiniteSet({Skip(i, o, match[o]) : o \in {x \in fresh : sources'[x].status = "linked"}})
    <3>1. IsFiniteSet({x \in fresh : sources'[x].status = "linked"})
      BY <1>3, FS_Subset
    <3> DEFINE L == {x \in fresh : sources'[x].status = "linked"}
               g == [o \in L |-> Skip(i, o, match[o])]
    <3>2. {Skip(i, o, match[o]) : o \in L} = {g[o] : o \in L}
      OBVIOUS
    <3> HIDE DEF g
    <3>3. IsFiniteSet({g[o] : o \in L})
      <4> HIDE DEF L
      <4>1. IsFiniteSet(L)
        BY <3>1 DEF L
      <4>2. QED
        BY <4>1, ImageIsFinite
    <3>4. QED
      BY <3>2, <3>3
  <2>5. QED
    BY <1>3, <2>1, <2>2, <2>3, <2>4, FS_Union
<1>5. \A o \in DOMAIN sources' : sources'[o].import \in CountedImports' \cup {NoImport}
  BY <1>1, <1>3 DEF RecordsInv, AuditInv
<1>6. ASSUME NEW s \in skips'
      PROVE  /\ s = Skip(s.import, s.occ, s.match) /\ s.import \in CountedImports'
             /\ s.match \in {"repeated_occurrence", "exact_doi", "provider_key_duplicate"}
             /\ s.occ \in DOMAIN sources'
             /\ IF s.match = "repeated_occurrence" THEN sources'[s.occ].import # s.import
                ELSE sources'[s.occ].status = "linked" /\ sources'[s.occ].import = s.import
  <2>1. CASE s \in skips
    BY <1>1, <1>3, <2>1 DEF RecordsInv, AuditInv
  <2>2. CASE s \notin skips /\ s = Skip(i, s.occ, "repeated_occurrence") /\ s.occ \in again
    <3>1. s.import = i /\ s.match = "repeated_occurrence"
      BY <2>2 DEF Skip
    <3>2. s.occ \in DOMAIN sources /\ sources[s.occ].import \in CountedImports \cup {NoImport}
      BY <1>3, <2>2 DEF RecordsInv, AuditInv
    <3>3. sources[s.occ].import # i
      BY <1>1, <3>2 DEF CountedImports
    <3>4. QED
      BY <1>1, <1>3, <2>2, <3>1, <3>2, <3>3
  <2>3. CASE s \notin skips /\ s = Skip(i, s.occ, match[s.occ]) /\ s.occ \in fresh /\ sources'[s.occ].status = "linked"
    <3>1. s.import = i /\ s.match = match[s.occ]
      BY <2>3 DEF Skip
    <3>2. QED
      BY <1>1, <1>3, <2>3, <3>1
  <2>4. QED
    BY <1>1, <2>1, <2>2, <2>3
<1>7. ASSUME NEW s \in skips', NEW t \in skips', s.occ = t.occ, "repeated_occurrence" \notin {s.match, t.match}
      PROVE  s = t
  <2>1. ASSUME NEW u \in skips', u.match # "repeated_occurrence"
        PROVE  \/ u \in skips /\ u.occ \in DOMAIN sources
               \/ u = Skip(i, u.occ, match[u.occ]) /\ u.occ \in fresh
    <3>1. CASE u \in skips
      BY <3>1 DEF RecordsInv, AuditInv
    <3>2. CASE u \notin skips
      BY <1>1, <2>1, <3>2 DEF Skip
    <3>3. QED
      BY <3>1, <3>2
  <2>2. QED
    BY <1>3, <1>7, <2>1 DEF RecordsInv, AuditInv
<1>8. ASSUME NEW o \in DOMAIN sources', sources'[o].status = "linked"
      PROVE  \E s \in skips' : s.occ = o /\ s.match # "repeated_occurrence"
  <2>1. CASE o \in DOMAIN sources
    BY <1>1, <1>3, <1>8, <2>1 DEF RecordsInv, AuditInv
  <2>2. CASE o \in fresh
    <3>1. PICK s : s = Skip(i, o, match[o])
      OBVIOUS
    <3>2. s \in skips' /\ s.occ = o /\ s.match = match[o]
      BY <1>3, <1>8, <2>2, <3>1 DEF Skip
    <3>3. QED
      BY <1>3, <2>2, <3>2
  <2>3. QED
    BY <1>3, <2>1, <2>2
<1>9. ASSUME NEW n \in CountedImports' PROVE Audited(n)'
  <2>1. CASE n = i
    <3>1. fresh # {} \/ again # {}
      BY <1>3
    <3>2. again # {} => \E s \in skips' : s.import = i
      <4> SUFFICES ASSUME NEW o \in again PROVE \E s \in skips' : s.import = i
        OBVIOUS
      <4>1. Skip(i, o, "repeated_occurrence") \in skips'
        BY <1>3
      <4>2. QED
        BY <4>1 DEF Skip
    <3>3. QED
      BY <1>1, <2>1, <3>1, <3>2 DEF Audited
  <2>2. CASE n # i
    <3>1. n \in CountedImports /\ n \in Imported
      BY <1>1, <2>2 DEF CountedImports
    <3>2. Audited(n)
      BY <3>1 DEF RecordsInv, AuditInv
    <3>3. SourcesOf(n)' = SourcesOf(n)
      BY <1>1, <3>1
    <3>4. QED
      BY <1>1, <3>2, <3>3 DEF Audited
  <2>3. QED
    BY <2>1, <2>2
<1>10. \A n \in Imported' : history'[n].status = "failed" => history'[n].count = 0
  BY <1>1, <1>2 DEF RecordsInv, AuditInv
<1>11. AuditInv'
  BY <1>4, <1>5, <1>6, <1>7, <1>8, <1>9, <1>10, Zenon DEF AuditInv
<1>12. ReviewsInv'
  BY <1>1, <1>2 DEF RecordsInv, ReviewsInv, IInv, LedgerInv
<1>13. FilesInv'
  <2> SUFFICES ASSUME NEW n \in Imported', history'[n].file # None
               PROVE  /\ history'[n].label = Files[history'[n].file].format
                      /\ history'[n].status # "failed" =>
                           /\ Uploads[history'[n].file].ok
                           /\ SourcesOf(n)' \cup RepeatedIn(n)' = OccurrencesOf(history'[n].file)
    BY DEF FilesInv
  <2>1. CASE n = i
    BY <1>1, <2>1 DEF OfItsFile
  <2>2. CASE n # i
    BY <1>1, <2>2 DEF RecordsInv, FilesInv
  <2>3. QED
    BY <2>1, <2>2
<1>14. NamesInv'
  BY <1>3 DEF RecordsInv, NamesInv
<1>15. QED
  BY <1>11, <1>12, <1>13, <1>14 DEF RecordsInv

\* The rows an import adds have the name and the leading key of its kind.
Named(new) ==
  \A r \in new : /\ r[1] \in Providers \cup {"file"}
                 /\ IF r[1] \in Providers THEN rows'[r].lead = r ELSE rows'[r].lead[1] \in FileLabels

\* An import adds as many publications as it counts.
LEMMA ImportKeepsAdditions ==
  ASSUME IInv, RecordsInv, AdditionsInv, exists, NEW new, NEW i, NEW entry, Adds(new, i, entry), Named(new),
         NEW fresh, NEW again, NEW match, AddsRecords(i, fresh, again, match)
  PROVE  AdditionsInv'
<1>1. /\ CountedImports' = CountedImports \cup {i} /\ i \notin Imported /\ Imported' = Imported \cup {i}
      /\ i # NoImport /\ history'[i] = entry /\ \A n \in Imported : history'[n] = history[n]
  BY ImportsAddRecords
<1>2. /\ exists' = exists /\ reviews' = reviews /\ Rejected' = Rejected /\ merges' = merges /\ reconciled' = reconciled
      /\ Grows(new, i) /\ SourcesGrow
  BY DEF Adds, Rejected
<1>3. RecoveredRecords' = RecoveredRecords
  BY <1>2, GrowingSources
<1>4. Unmerged' = Unmerged
  BY <1>2 DEF Unmerged
<1> SUFFICES ASSUME Unmerged PROVE AdditionsInv'
  BY <1>4 DEF AdditionsInv
<1>5. /\ RecoveredRecords \subseteq DOMAIN rows
      /\ \A r \in DOMAIN rows \ RecoveredRecords :
           r[1] \in Providers \cup {"file"} /\ rows[r].import \in CountedImports \ Rejected
      /\ \A n \in CountedImports \ Rejected : Cardinality(Owned(n) \ RecoveredRecords) = history[n].count
      /\ \A r \in DOMAIN rows : IF r[1] \in Providers THEN rows[r].lead = r ELSE rows[r].lead[1] \in FileLabels
  BY DEF AdditionsInv
<1>6. new \cap DOMAIN rows = {} /\ Cardinality(new) = entry.count
  BY <1>5 DEF Adds
<1>7. DOMAIN rows' = DOMAIN rows \cup new /\ \A r \in DOMAIN rows : rows'[r] = rows[r]
  BY <1>6 DEF Adds, Grows
<1>8. \A r \in new : rows'[r].import = i
  BY <1>2, <1>6 DEF Grows
<1>9. new \cap RecoveredRecords = {}
  BY <1>5, <1>6
<1>10. i \notin Rejected
  BY <1>1 DEF Rejected, IInv, LedgerInv
<1>11. \A n \in CountedImports : Owned(n)' = Owned(n)
  BY <1>1, <1>7, <1>8 DEF Owned, CountedImports
<1>12. Owned(i)' \ RecoveredRecords = new
  <2>1. \A r \in DOMAIN rows \ RecoveredRecords : rows[r].import # i
    BY <1>1, <1>5 DEF CountedImports
  <2>2. QED
    BY <1>7, <1>8, <1>9, <2>1 DEF Owned
<1>13. \A n \in CountedImports' \ Rejected : Cardinality(Owned(n)' \ RecoveredRecords) = history'[n].count
  <2>1. \A n \in CountedImports : n \in Imported
    BY DEF CountedImports
  <2>2. QED
    BY <1>1, <1>5, <1>6, <1>11, <1>12, <2>1
<1>14. \A r \in DOMAIN rows' \ RecoveredRecords :
         r[1] \in Providers \cup {"file"} /\ rows'[r].import \in CountedImports' \ Rejected
  BY <1>1, <1>5, <1>7, <1>8, <1>10 DEF Named
<1>15. \A r \in DOMAIN rows' : IF r[1] \in Providers THEN rows'[r].lead = r ELSE rows'[r].lead[1] \in FileLabels
  BY <1>5, <1>7 DEF Named
<1>16. QED
  BY <1>2, <1>3, <1>5, <1>7, <1>13, <1>14, <1>15 DEF AdditionsInv

\* The rows an import adds have a new record that introduced them, and the
\* provider's keys of its new records name publications.
Introduces(new, fresh) ==
  /\ \A r \in new : \E o \in fresh : sources'[o].canonical = r /\ sources'[o].status # "linked"
  /\ \A o \in fresh : o[1] \in Providers => o[3][1] \in DOMAIN rows'

\* An import introduces its publications.
LEMMA ImportKeepsIntroduced ==
  ASSUME IntroducedInv, NEW new, NEW i, NEW entry, Adds(new, i, entry),
         NEW fresh, NEW again, NEW match, AddsRecords(i, fresh, again, match),
         Unmerged /\ Rejected = {} => Introduces(new, fresh)
  PROVE  IntroducedInv'
<1>1. /\ exists' = exists /\ Rejected' = Rejected /\ merges' = merges /\ reconciled' = reconciled
      /\ DOMAIN rows' = DOMAIN rows \cup new
  BY DEF Adds, Rejected, Grows
<1>2. Unmerged' = Unmerged
  BY <1>1 DEF Unmerged
<1> SUFFICES ASSUME Unmerged, Rejected = {} PROVE IntroducedInv'
  BY <1>1, <1>2 DEF IntroducedInv
<1>3. DOMAIN sources' = DOMAIN sources \cup fresh /\ \A o \in DOMAIN sources : sources'[o] = sources[o]
  BY DEF AddsRecords
<1>4. \A r \in DOMAIN rows' : \E o \in DOMAIN sources' : sources'[o].canonical = r /\ sources'[o].status # "linked"
  <2> SUFFICES ASSUME NEW r \in DOMAIN rows'
               PROVE  \E o \in DOMAIN sources' : sources'[o].canonical = r /\ sources'[o].status # "linked"
    OBVIOUS
  <2>1. CASE r \in DOMAIN rows
    BY <1>3, <2>1 DEF IntroducedInv
  <2>2. CASE r \in new
    BY <1>3, <2>2 DEF Introduces
  <2>3. QED
    BY <1>1, <2>1, <2>2
<1>5. \A o \in DOMAIN sources' : o[1] \in Providers => o[3][1] \in DOMAIN rows'
  BY <1>1, <1>3 DEF IntroducedInv, Introduces
<1>6. QED
  BY <1>4, <1>5 DEF IntroducedInv

----------------------------------------------------------------------------
(* The accounts of the two imports *)

\* What a source record says.
LEMMA SourceRecordSays ==
  \A i, canonical, status : LET s == SourceRecord(i, canonical, status)
                            IN s.import = i /\ s.canonical = canonical /\ s.status = status
BY DEF SourceRecord

\* The import of a file writes the records of its entries.
LEMMA FileImportAddsRecords ==
  ASSUME NEW es, EntriesAreGiven(es), DOMAIN es # {}, NEW i, NEW linked, NEW new, NEW target,
         linked = LinkedInFile(es), new = NewInFile(es), FileWrites(es, i, linked, new, target)
  PROVE  AddsRecords(i, {es[n].occ : n \in linked \cup new}, {es[n].occ : n \in Repeated(es)},
                     [o \in {es[n].occ : n \in linked \cup new} |-> "exact_doi"])
<1> DEFINE fresh == {es[n].occ : n \in linked \cup new}
           again == {es[n].occ : n \in Repeated(es)}
           match == [o \in fresh |-> "exact_doi"]
           occ == [n \in DOMAIN es |-> es[n].occ]
<1>1. PICK k \in Nat : DOMAIN es = 1..k
  BY DEF EntriesAreGiven
<1>2. /\ linked \cup new \subseteq DOMAIN es /\ Repeated(es) \subseteq DOMAIN es /\ linked \cap new = {}
      /\ linked \cup new \cup Repeated(es) = DOMAIN es
      /\ (linked \cup new) \cap Repeated(es) = {}
  BY DEF LinkedInFile, NewInFile, Repeated
<1>3. IsFiniteSet(fresh) /\ IsFiniteSet(again)
  <2>1. IsFiniteSet(DOMAIN es)
    BY <1>1, FS_Interval
  <2>2. IsFiniteSet(linked \cup new) /\ IsFiniteSet(Repeated(es))
    BY <1>2, <2>1, FS_Subset
  <2>3. fresh = {occ[n] : n \in linked \cup new} /\ again = {occ[n] : n \in Repeated(es)}
    BY <1>2
  <2> HIDE DEF fresh, again, occ
  <2>4. IsFiniteSet({occ[n] : n \in linked \cup new}) /\ IsFiniteSet({occ[n] : n \in Repeated(es)})
    BY <2>2, ImageIsFinite
  <2>5. QED
    BY <2>3, <2>4
<1>4. fresh \cup again # {}
  BY <1>2
<1>5. again \subseteq DOMAIN sources /\ fresh \cap DOMAIN sources = {}
  BY <1>2 DEF Repeated
<1>6. DOMAIN sources' = DOMAIN sources \cup fresh /\ \A o \in DOMAIN sources : sources'[o] = sources[o]
  BY DEF FileWrites
<1>7. \A n \in linked : sources'[es[n].occ].import = i /\ sources'[es[n].occ].status = "linked"
  <2>1. \A n \in linked : sources'[es[n].occ] = SourceRecord(i, target[n], "linked")
    BY DEF FileWrites
  <2>2. QED
    BY <2>1, SourceRecordSays
<1>8. \A n \in new : /\ sources'[es[n].occ].import = i /\ sources'[es[n].occ].status = "imported"
                     /\ sources'[es[n].occ].canonical[1] = "file"
  <2>1. \A n \in new : sources'[es[n].occ] = SourceRecord(i, FileRow(i, n), "imported")
    BY DEF FileWrites
  <2>2. QED
    <3>1. \A n : FileRow(i, n)[1] = "file"
      BY DEF FileRow
    <3>2. QED
      BY <2>1, <3>1, SourceRecordSays
<1>9. \A o \in fresh : /\ sources'[o].import = i /\ sources'[o].status \in {"imported", "linked"}
                       /\ sources'[o].status = "imported" => sources'[o].canonical[1] \in Providers \cup {"file"}
                       /\ match[o] \in {"exact_doi", "provider_key_duplicate"}
  BY <1>7, <1>8
<1>10. {x \in fresh : sources'[x].status = "linked"} = {es[n].occ : n \in linked}
  BY <1>7, <1>8
<1>11. {Skip(i, es[n].occ, "repeated_occurrence") : n \in Repeated(es)} = {Skip(i, o, "repeated_occurrence") : o \in again}
  OBVIOUS
<1>12. {Skip(i, es[n].occ, "exact_doi") : n \in linked} = {Skip(i, o, match[o]) : o \in {es[n].occ : n \in linked}}
  OBVIOUS
<1>13. skips' = skips \cup {Skip(i, o, "repeated_occurrence") : o \in again}
                      \cup {Skip(i, o, match[o]) : o \in {x \in fresh : sources'[x].status = "linked"}}
  BY <1>10, <1>11, <1>12 DEF FileWrites
<1> HIDE DEF fresh, again, match
<1>14. QED
  BY <1>3, <1>4, <1>5, <1>6, <1>9, <1>13 DEF AddsRecords, fresh, again, match

\* The import of a file keeps the accounts.
LEMMA FileImportKeepsAccounts ==
  ASSUME IInv, AccountsInv, NEW f \in DOMAIN Files, ImportFile(f)
  PROVE  AccountsInv'
<1>1. PICK es : es = Uploads[f].entries
  OBVIOUS
<1>2. PICK linked, new : linked = LinkedInFile(es) /\ new = NewInFile(es)
  OBVIOUS
<1>3. PICK i : i = Len(history) + 1
  OBVIOUS
<1>4. /\ Tick /\ Len(history) < MaxImports /\ Uploads[f].ok /\ ImportEntries(f, Files[f].format, es)
      /\ Files[f].format \in FileLabels /\ EntriesAreGiven(es) /\ DOMAIN es # {} /\ exists
  BY <1>1, UploadsAreRead, FilesGiveEntries, ImportsAssumption DEF ImportFile, ImportUpload, Records, Tick
<1>5. PICK added, entry : /\ Adds(added, i, entry) /\ entry.file = f /\ entry.label = Files[f].format /\ entry.kind = "file"
                          /\ \A r \in added : r[1] = "file" /\ \E n \in DOMAIN es : rows'[r].lead = es[n].key
  BY <1>3, <1>4, FileImportAdds
<1>6. PICK target : FileWrites(es, i, linked, new, target)
  BY <1>2, <1>3, <1>4, FileImportWrites
<1>7. PICK fresh, again, match :
        /\ fresh = {es[n].occ : n \in linked \cup new} /\ again = {es[n].occ : n \in Repeated(es)}
        /\ AddsRecords(i, fresh, again, match)
  <2>1. PICK fresh, again : fresh = {es[n].occ : n \in linked \cup new} /\ again = {es[n].occ : n \in Repeated(es)}
    OBVIOUS
  <2>2. AddsRecords(i, {es[n].occ : n \in linked \cup new}, {es[n].occ : n \in Repeated(es)},
                    [o \in {es[n].occ : n \in linked \cup new} |-> "exact_doi"])
    BY <1>2, <1>4, <1>6, FileImportAddsRecords
  <2>3. AddsRecords(i, fresh, again, [o \in fresh |-> "exact_doi"])
    BY <2>1, <2>2
  <2>4. QED
    BY <2>1, <2>3
<1>8. RecordsInv /\ AdditionsInv /\ IntroducedInv /\ DisjointInv
  BY DEF AccountsInv
<1>9. OfItsFile(entry, fresh, again)
  <2>1. linked \cup new \cup Repeated(es) = DOMAIN es
    BY <1>2 DEF LinkedInFile, NewInFile, Repeated
  <2>2. fresh \cup again = {es[n].occ : n \in DOMAIN es}
    BY <1>7, <2>1
  <2>3. QED
    BY <1>1, <1>4, <1>5, <2>2 DEF OfItsFile, OccurrencesOf, Records
<1>10. RecordsInv'
  BY <1>4, <1>5, <1>7, <1>8, <1>9, ImportKeepsRecords
<1>11. Named(added)
  <2>1. \A n \in DOMAIN es : es[n].key[1] \in FileLabels
    BY <1>4 DEF EntriesAreGiven
  <2>2. "file" \notin Providers
    BY ImportsAssumption
  <2>3. QED
    BY <1>5, <2>1, <2>2 DEF Named
<1>12. AdditionsInv'
  BY <1>4, <1>5, <1>7, <1>8, <1>11, ImportKeepsAdditions
<1>13. Introduces(added, fresh)
  <2>1. \A r \in added : Introduced(i, r)'
    BY <1>5 DEF Adds
  <2>2. \A o \in DOMAIN sources' : sources'[o].import = i => o \in fresh
    <3>1. SourcesOf(i)' = fresh
      BY <1>4, <1>5, <1>7, <1>8, ImportsAddRecords
    <3>2. QED
      BY <3>1 DEF SourcesOf
  <2>3. \A r \in added : \E o \in fresh : sources'[o].canonical = r /\ sources'[o].status # "linked"
    BY <2>1, <2>2 DEF Introduced
  <2>4. \A o \in fresh : o[1] \notin Providers
    <3>1. \A n \in DOMAIN es : es[n].occ[1] \in FileLabels
      BY <1>4 DEF EntriesAreGiven
    <3>2. linked \cup new \subseteq DOMAIN es
      BY <1>2 DEF LinkedInFile, NewInFile
    <3>3. QED
      BY <1>7, <3>1, <3>2, ImportsAssumption
  <2>5. QED
    BY <2>3, <2>4 DEF Introduces
<1>14. IntroducedInv'
  BY <1>5, <1>7, <1>8, <1>13, ImportKeepsIntroduced
<1>15. DisjointInv'
  BY <1>5, <1>8 DEF Adds, DisjointInv
<1>16. QED
  BY <1>10, <1>12, <1>14, <1>15 DEF AccountsInv

\* A source record of a provider import names the import, and the row that it
\* introduces when it does.
LEMMA ProviderSourceSays ==
  ASSUME NEW now, NEW batch, NEW n, NEW i, NEW s \in ProviderSource(now, batch, n, i)
  PROVE  /\ s.import = i /\ s.status \in {"imported", "linked"}
         /\ s.status = "imported" => s.canonical = RowOf(batch[n])
         /\ RowOf(batch[n]) \in NewRows(batch) => s.status = "imported"
<1> DEFINE d == batch[n]
           fresh == RowOf(d) \in {RowOf(batch[m]) : m \in Inserted(batch)}
           owners == DoiOwners(now, d.doi)
           holders == {r \in DOMAIN now : now[r].lead = d.prov[1]}
<1>1. fresh <=> RowOf(d) \in NewRows(batch)
  BY DEF NewRows
<1>2. s \in IF fresh THEN {SourceRecord(i, RowOf(d), "imported")}
            ELSE {SourceRecord(i, Canonical(now, r), "linked") : r \in owners}
                 \cup {SourceRecord(i, r, "linked") : r \in IF owners = {} THEN holders ELSE {}}
  BY DEF ProviderSource, fresh, owners, holders
<1> HIDE DEF fresh, owners, holders
<1>3. CASE fresh
  <2>1. s = SourceRecord(i, RowOf(d), "imported")
    BY <1>2, <1>3
  <2>2. QED
    BY <2>1, SourceRecordSays
<1>4. CASE ~ fresh
  <2>1. \E r : s = SourceRecord(i, r, "linked")
    BY <1>2, <1>4
  <2>2. s.import = i /\ s.status = "linked"
    BY <2>1, SourceRecordSays
  <2>3. QED
    BY <1>1, <1>4, <2>2
<1>5. QED
  BY <1>3, <1>4

\* The occurrences of a batch are told apart, and name the provider and the key.
LEMMA BatchOccurrences ==
  ASSUME NEW p, NEW k \in Nat, NEW batch, DOMAIN batch = 1..k
  PROVE  /\ \A m, n \in 1..k : OccurrenceInBatch(p, batch, m) = OccurrenceInBatch(p, batch, n) => m = n
         /\ \A n \in 1..k : /\ OccurrenceInBatch(p, batch, n)[1] = p
                            /\ OccurrenceInBatch(p, batch, n)[3][1] = RowOf(batch[n])
<1> DEFINE c == [m \in DOMAIN batch |-> Fingerprint(batch[m])]
<1>1. \A n \in 1..k : c[n] = Fingerprint(batch[n])
  OBVIOUS
<1> HIDE DEF c
<1>2. \A n : OccurrenceInBatch(p, batch, n) = Occurrence(p, "provider", c, n)
  BY DEF OccurrenceInBatch, c
<1>3. \A m, n \in 1..k : m < n =>
        Occurrence(p, "provider", c, m) # Occurrence(p, "provider", c, n)
  <2> SUFFICES ASSUME NEW m \in 1..k, NEW n \in 1..k, m < n
               PROVE  Occurrence(p, "provider", c, m) # Occurrence(p, "provider", c, n)
    OBVIOUS
  <2>1. m \in Nat /\ n \in Nat
    OBVIOUS
  <2>2. QED
    BY <2>1, OccurrencesDiffer
<1>4. \A m, n \in 1..k : m = n \/ m < n \/ n < m
  OBVIOUS
<1>5. \A m, n \in 1..k : OccurrenceInBatch(p, batch, m) = OccurrenceInBatch(p, batch, n) => m = n
  BY <1>2, <1>3, <1>4
<1>6. \A n \in 1..k : Occurrence(p, "provider", c, n)[1] = p /\ Occurrence(p, "provider", c, n)[3] = c[n]
  BY DEF Occurrence
<1>7. \A n \in 1..k : c[n][1] = RowOf(batch[n])
  BY <1>1 DEF Fingerprint, RowOf
<1>8. QED
  BY <1>2, <1>5, <1>6, <1>7

\* The occurrences of a batch that are new, and those that are known.
FreshOccurrences(p, batch) == {OccurrenceInBatch(p, batch, n) : n \in FreshInBatch(p, batch)}
KnownOccurrences(p, batch) == {OccurrenceInBatch(p, batch, n) : n \in DOMAIN batch \ FreshInBatch(p, batch)}

\* The import of provider results writes the records of its batch.
LEMMA ProviderImportAddsRecords ==
  ASSUME NEW p \in Providers, NEW k \in Nat, k # 0, NEW batch, DOMAIN batch = 1..k,
         \A n \in 1..k : RowOf(batch[n])[1] = p,
         NEW src, NEW kinds, ProviderWrites(p, batch, src, kinds)
  PROVE  \E match : AddsRecords(Len(history) + 1, FreshOccurrences(p, batch), KnownOccurrences(p, batch), match)
<1> DEFINE occ == [n \in 1..k |-> OccurrenceInBatch(p, batch, n)]
<1>1. PICK i, new : i = Len(history) + 1 /\ new = FreshInBatch(p, batch)
  OBVIOUS
<1>2. new \subseteq 1..k /\ DOMAIN batch = 1..k /\ \A n \in 1..k : n \in new <=> occ[n] \notin DOMAIN sources
  BY <1>1 DEF FreshInBatch
<1>3. \A m, n \in 1..k : occ[m] = occ[n] => m = n
  <2>1. \A m, n \in 1..k : OccurrenceInBatch(p, batch, m) = OccurrenceInBatch(p, batch, n) => m = n
    BY BatchOccurrences
  <2>2. \A n \in 1..k : occ[n] = OccurrenceInBatch(p, batch, n)
    OBVIOUS
  <2> HIDE DEF occ
  <2>3. QED
    BY <2>1, <2>2
<1>4. PICK fresh, again : fresh = {occ[n] : n \in new} /\ again = {occ[n] : n \in 1..k \ new}
  OBVIOUS
<1>5. /\ {OccurrenceInBatch(p, batch, n) : n \in new} = fresh
      /\ {OccurrenceInBatch(p, batch, n) : n \in DOMAIN batch \ new} = again
  BY <1>2, <1>4
<1>6. /\ DOMAIN src = fresh /\ sources' = Written(src, sources)
      /\ \A n \in new : /\ src[occ[n]] \in ProviderSource(rows', batch, n, i)
                        /\ kinds[n] \in {"exact_doi", "provider_key_duplicate"}
  <2>1. /\ DOMAIN src = {OccurrenceInBatch(p, batch, n) : n \in FreshInBatch(p, batch)}
        /\ sources' = Written(src, sources)
        /\ \A n \in FreshInBatch(p, batch) :
             /\ src[OccurrenceInBatch(p, batch, n)] \in ProviderSource(rows', batch, n, Len(history) + 1)
             /\ kinds[n] \in {"exact_doi", "provider_key_duplicate"}
    BY DEF ProviderWrites
  <2>2. \A n \in new : occ[n] = OccurrenceInBatch(p, batch, n)
    BY <1>2
  <2> HIDE DEF occ
  <2>3. QED
    BY <1>1, <1>5, <2>1, <2>2
<1>7. skips' = skips \cup {Skip(i, occ[n], "repeated_occurrence") : n \in 1..k \ new}
                     \cup {Skip(i, occ[n], kinds[n]) : n \in {m \in new : src[occ[m]].status = "linked"}}
  <2>1. skips' = skips \cup {Skip(i, OccurrenceInBatch(p, batch, n), "repeated_occurrence") : n \in DOMAIN batch \ new}
                       \cup {Skip(i, OccurrenceInBatch(p, batch, n), kinds[n]) :
                               n \in {m \in new : src[OccurrenceInBatch(p, batch, m)].status = "linked"}}
    BY <1>1 DEF ProviderWrites
  <2>2. {m \in new : src[OccurrenceInBatch(p, batch, m)].status = "linked"} = {m \in new : src[occ[m]].status = "linked"}
    BY <1>2
  <2>3. {Skip(i, OccurrenceInBatch(p, batch, n), "repeated_occurrence") : n \in DOMAIN batch \ new}
          = {Skip(i, occ[n], "repeated_occurrence") : n \in 1..k \ new}
    BY <1>2
  <2>4. PICK L : L = {m \in new : src[occ[m]].status = "linked"}
    OBVIOUS
  <2>5. {Skip(i, OccurrenceInBatch(p, batch, n), kinds[n]) : n \in L} = {Skip(i, occ[n], kinds[n]) : n \in L}
    BY <1>2, <2>4
  <2> HIDE DEF occ
  <2>6. QED
    BY <2>1, <2>2, <2>3, <2>4, <2>5
<1> HIDE DEF occ
<1>8. IsFiniteSet(fresh) /\ IsFiniteSet(again) /\ fresh \cup again # {}
  <2>1. IsFiniteSet(new) /\ IsFiniteSet(1..k \ new)
    <3>1. IsFiniteSet(1..k)
      BY FS_Interval
    <3>2. QED
      BY <1>2, <3>1, FS_Subset
  <2>2. IsFiniteSet({occ[n] : n \in new}) /\ IsFiniteSet({occ[n] : n \in 1..k \ new})
    BY <2>1, ImageIsFinite
  <2>3. 1 \in 1..k
    OBVIOUS
  <2>4. occ[1] \in fresh \cup again
    BY <1>4, <2>3
  <2>5. QED
    BY <1>4, <2>2, <2>4
<1>9. again \subseteq DOMAIN sources /\ fresh \cap DOMAIN sources = {}
  BY <1>2, <1>4
<1>10. DOMAIN sources' = DOMAIN sources \cup fresh /\ \A o \in DOMAIN sources : sources'[o] = sources[o]
  BY <1>6, <1>9 DEF Written
<1>11. \A o \in fresh : sources'[o] = src[o]
  BY <1>6 DEF Written
<1> DEFINE match(f) == [o \in {occ[n] : n \in f} |-> kinds[CHOOSE n \in 1..k : occ[n] = o]]
<1>12. \A n \in new : match(new)[occ[n]] = kinds[n]
  <2> SUFFICES ASSUME NEW n \in new PROVE match(new)[occ[n]] = kinds[n]
    OBVIOUS
  <2>1. (CHOOSE m \in 1..k : occ[m] = occ[n]) = n
    BY <1>2, <1>3
  <2>2. match(new)[occ[n]] = kinds[CHOOSE m \in 1..k : occ[m] = occ[n]]
    OBVIOUS
  <2>3. QED
    BY <2>1, <2>2
<1> HIDE DEF match
<1>13. \A n \in new : /\ src[occ[n]].import = i /\ src[occ[n]].status \in {"imported", "linked"}
                      /\ src[occ[n]].status = "imported" => src[occ[n]].canonical[1] = p
  BY <1>2, <1>6, ProviderSourceSays
<1>14. \A o \in fresh : /\ sources'[o].import = i /\ sources'[o].status \in {"imported", "linked"}
                        /\ sources'[o].status = "imported" => sources'[o].canonical[1] \in Providers \cup {"file"}
                        /\ match(new)[o] \in {"exact_doi", "provider_key_duplicate"}
  <2> SUFFICES ASSUME NEW o \in fresh
               PROVE  /\ sources'[o].import = i /\ sources'[o].status \in {"imported", "linked"}
                      /\ sources'[o].status = "imported" => sources'[o].canonical[1] \in Providers \cup {"file"}
                      /\ match(new)[o] \in {"exact_doi", "provider_key_duplicate"}
    OBVIOUS
  <2>1. PICK n \in new : o = occ[n]
    BY <1>4
  <2>2. match(new)[o] \in {"exact_doi", "provider_key_duplicate"}
    BY <1>6, <1>12, <2>1
  <2>3. QED
    BY <1>11, <1>13, <2>1, <2>2
<1>15. {Skip(i, occ[n], "repeated_occurrence") : n \in 1..k \ new} = {Skip(i, o, "repeated_occurrence") : o \in again}
  BY <1>4
<1>16. {Skip(i, occ[n], kinds[n]) : n \in {m \in new : src[occ[m]].status = "linked"}}
         = {Skip(i, o, match(new)[o]) : o \in {x \in fresh : sources'[x].status = "linked"}}
  <2>1. PICK L : L = {m \in new : src[occ[m]].status = "linked"}
    OBVIOUS
  <2>2. {x \in fresh : sources'[x].status = "linked"} = {occ[n] : n \in L}
    BY <1>4, <1>11, <2>1
  <2>3. {Skip(i, occ[n], kinds[n]) : n \in L} = {Skip(i, o, match(new)[o]) : o \in {occ[n] : n \in L}}
    <3>1. PICK g : g = match(new)
      OBVIOUS
    <3>2. \A n \in L : kinds[n] = g[occ[n]]
      BY <1>12, <2>1, <3>1
    <3>3. {Skip(i, occ[n], kinds[n]) : n \in L} = {Skip(i, o, g[o]) : o \in {occ[n] : n \in L}}
      BY <3>2
    <3>4. QED
      BY <3>1, <3>3
  <2>4. QED
    BY <2>1, <2>2, <2>3
<1>17. AddsRecords(i, fresh, again, match(new))
  BY <1>7, <1>8, <1>9, <1>10, <1>14, <1>15, <1>16 DEF AddsRecords
<1>18. fresh = FreshOccurrences(p, batch) /\ again = KnownOccurrences(p, batch)
  BY <1>1, <1>5 DEF FreshOccurrences, KnownOccurrences
<1>19. QED
  BY <1>1, <1>17, <1>18

\* The first record of a batch with a key that no row leads with is inserted.
LEMMA KeysOfBatchHaveRows ==
  ASSUME NEW k \in Nat, NEW batch, DOMAIN batch = 1..k, NEW n \in 1..k
  PROVE  RowOf(batch[n]) \in Keys \cup NewRows(batch)
<1> DEFINE same == {m \in 1..k : RowOf(batch[m]) = RowOf(batch[n])}
           first == Min(same)
<1>1. same \in SUBSET Nat /\ same # {}
  OBVIOUS
<1>2. first \in same /\ \A m \in same : first <= m
  <2> HIDE DEF same
  <2>1. QED
    BY <1>1, MinOfSet
<1>3. first \in 1..k /\ RowOf(batch[first]) = RowOf(batch[n])
  BY <1>2
<1>4. \A m \in 1..(first - 1) : RowOf(batch[m]) # RowOf(batch[first])
  <2> SUFFICES ASSUME NEW m \in 1..(first - 1), RowOf(batch[m]) = RowOf(batch[first]) PROVE FALSE
    OBVIOUS
  <2>1. m \in same /\ m < first
    BY <1>3
  <2> HIDE DEF same, first
  <2>2. first \in Nat /\ m \in Nat
    BY <1>3
  <2>3. QED
    BY <1>2, <2>1, <2>2
<1> HIDE DEF same, first
<1>5. RowOf(batch[n]) \notin Keys => first \in Inserted(batch)
  BY <1>3, <1>4 DEF Inserted, RowOf
<1>6. QED
  BY <1>3, <1>5 DEF NewRows

\* The import of provider results introduces the rows it adds, as long as nothing
\* was merged or rejected.
LEMMA ProviderImportIntroduces ==
  ASSUME NEW p \in Providers, NEW k \in Nat, NEW batch, DOMAIN batch = 1..k,
         \A n \in 1..k : RowOf(batch[n])[1] = p,
         NEW src, NEW kinds, ProviderWrites(p, batch, src, kinds),
         NEW new, new = NewRows(batch), new \cap DOMAIN rows = {}, DOMAIN rows' = DOMAIN rows \cup new,
         AdditionsInv, IntroducedInv, Unmerged, Rejected = {}
  PROVE  Introduces(new, FreshOccurrences(p, batch))
<1>0. PICK fresh : fresh = FreshOccurrences(p, batch)
  OBVIOUS
<1>1. \A n \in 1..k : /\ OccurrenceInBatch(p, batch, n)[1] = p
                      /\ OccurrenceInBatch(p, batch, n)[3][1] = RowOf(batch[n])
  BY BatchOccurrences
<1>2. ASSUME NEW r \in new
      PROVE  \E o \in fresh : sources'[o].canonical = r /\ sources'[o].status # "linked"
  <2>1. PICK n \in Inserted(batch) : r = RowOf(batch[n])
    BY <1>2 DEF NewRows
  <2>2. n \in 1..k
    BY DEF Inserted
  <2>3. PICK o : o = OccurrenceInBatch(p, batch, n)
    OBVIOUS
  <2>4. o \notin DOMAIN sources
    <3>1. o[1] \in Providers /\ o[3][1] = r
      BY <1>1, <2>1, <2>2, <2>3
    <3>2. QED
      BY <1>2, <3>1 DEF IntroducedInv
  <2>5. n \in FreshInBatch(p, batch) /\ o \in fresh
    BY <1>0, <2>2, <2>3, <2>4 DEF FreshInBatch, FreshOccurrences
  <2>6. /\ sources' = Written(src, sources) /\ o \in DOMAIN src
        /\ src[o] \in ProviderSource(rows', batch, n, Len(history) + 1)
    BY <1>0, <2>3, <2>5 DEF ProviderWrites, FreshOccurrences
  <2>7. sources'[o] = src[o]
    BY <2>6 DEF Written
  <2>8. src[o].status = "imported" /\ src[o].canonical = r
    BY <1>2, <2>1, <2>6, ProviderSourceSays
  <2>9. QED
    BY <2>5, <2>7, <2>8
<1>3. ASSUME NEW o \in fresh PROVE o[3][1] \in DOMAIN rows'
  <2>1. PICK n \in FreshInBatch(p, batch) : o = OccurrenceInBatch(p, batch, n)
    BY <1>0, <1>3 DEF FreshOccurrences
  <2>2. n \in 1..k
    BY DEF FreshInBatch
  <2>3. PICK key : key = RowOf(batch[n])
    OBVIOUS
  <2>4. key \in Keys \cup new /\ key[1] = p /\ o[3][1] = key
    BY <1>1, <2>1, <2>2, <2>3, KeysOfBatchHaveRows
  <2>5. ASSUME key \in Keys PROVE key \in DOMAIN rows
    <3>1. PICK r \in DOMAIN rows : rows[r].lead = key
      BY <2>5 DEF Keys
    <3>2. r[1] \in Providers
      BY <2>4, <3>1, ImportsAssumption DEF AdditionsInv
    <3>3. QED
      BY <3>1, <3>2 DEF AdditionsInv
  <2>6. QED
    BY <2>4, <2>5
<1>4. QED
  BY <1>0, <1>2, <1>3 DEF Introduces

\* The import of provider results keeps the accounts.
LEMMA ProviderImportKeepsAccounts ==
  ASSUME IInv, AccountsInv, NEW p \in Providers, NEW k \in 1..MaxBatch,
         NEW batch \in [1..k -> {d \in snapshots : d.prov[1][1] = p}], ImportProvider(p, batch)
  PROVE  AccountsInv'
<1>1. PICK i, new, entry : /\ i = Len(history) + 1 /\ new = NewRows(batch)
                           /\ entry = HistoryEntry("provider", p, None, Cardinality(Inserted(batch)), "success")
  OBVIOUS
<1>2. Adds(new, i, entry)
  BY <1>1, ProviderImportAdds
<1>3. exists /\ entry.file = None /\ Grows(new, i)
  BY <1>1, <1>2 DEF Adds, HistoryEntry
<1>4. k \in Nat /\ k # 0 /\ DOMAIN batch = 1..k
  BY ImportsAssumption
<1>5. \A n \in 1..k : RowOf(batch[n])[1] = p
  BY DEF RowOf
<1>6. PICK src, kinds : ProviderWrites(p, batch, src, kinds)
  BY ProviderImportWrites
<1>7. PICK fresh, again, match :
        /\ fresh = FreshOccurrences(p, batch)
        /\ AddsRecords(i, fresh, again, match)
  BY <1>1, <1>4, <1>5, <1>6, ProviderImportAddsRecords
<1>8. RecordsInv /\ AdditionsInv /\ IntroducedInv /\ DisjointInv
  BY DEF AccountsInv
<1>9. RecordsInv'
  <2>1. OfItsFile(entry, fresh, again)
    BY <1>3 DEF OfItsFile
  <2>2. QED
    BY <1>2, <1>3, <1>7, <1>8, <2>1, ImportKeepsRecords
<1>10. \A r \in new : r[1] = p /\ rows'[r].lead = r
  <2>1. HistoryInv /\ RowsInv /\ LedgerInv
    BY DEF IInv
  <2>2. QED
    BY <1>1, <2>1, ProviderImportGrows
<1>11. AdditionsInv'
  <2>1. Named(new)
    BY <1>10 DEF Named
  <2>2. QED
    BY <1>2, <1>3, <1>7, <1>8, <2>1, ImportKeepsAdditions
<1>12. IntroducedInv'
  <2>1. ASSUME Unmerged, Rejected = {} PROVE Introduces(new, fresh)
    <3>1. new \cap DOMAIN rows = {}
      BY <1>2, <1>8, <2>1 DEF Adds, AdditionsInv
    <3>2. DOMAIN rows' = DOMAIN rows \cup new
      BY <1>3 DEF Grows
    <3>3. QED
      BY <1>1, <1>4, <1>5, <1>6, <1>7, <1>8, <2>1, <3>1, <3>2, ProviderImportIntroduces
  <2>2. QED
    BY <1>2, <1>7, <1>8, <2>1, ImportKeepsIntroduced
<1>13. DisjointInv'
  BY <1>2, <1>8 DEF Adds, DisjointInv
<1>14. QED
  BY <1>9, <1>11, <1>12, <1>13 DEF AccountsInv

----------------------------------------------------------------------------
(* The accounts of the other actions *)

\* What changes neither records nor reviews, and no publication but to give it an
\* import, keeps the accounts.
LEMMA SteadyStepsKeepAccounts ==
  ASSUME IInv, AccountsInv, UNCHANGED <<exists, history, sources, skips, reviews, merges, reconciled>>,
         reconciled = {} => Steady
  PROVE  AccountsInv'
<1>1. RecordsInv /\ AdditionsInv /\ IntroducedInv /\ DisjointInv
  BY DEF AccountsInv
<1>2. Rejected' = Rejected
  BY DEF Rejected
<1>3. RecordsInv'
  <2>1. exists => \A i \in DOMAIN reviews' : history[i].status = "warning" /\ reviews'[i] \in {"accepted", "rejected"}
    BY <1>1 DEF RecordsInv, ReviewsInv
  <2>2. QED
    BY <1>1, <2>1, SameRecordsKeepInv
<1>4. AdditionsInv' /\ IntroducedInv'
  BY <1>1, <1>2, SteadyRowsKeepInv
<1>5. DisjointInv'
  BY <1>1 DEF DisjointInv
<1>6. QED
  BY <1>3, <1>4, <1>5 DEF AccountsInv

\* Publications that do not change are steady.
LEMMA SameRowsAreSteady ==
  ASSUME rows' = rows
  PROVE  Steady
BY DEF Steady

\* A record that is removed stays a publication.
LEMMA RemoveKeepsAccounts ==
  ASSUME IInv, AccountsInv, NEW x \in DOMAIN rows, RemoveRecord(x)
  PROVE  AccountsInv'
<1>1. UNCHANGED <<exists, history, sources, skips, reviews, merges, reconciled>>
  BY DEF RemoveRecord
<1>2. Steady
  <2>1. rows' = [rows EXCEPT ![x].status = "removed"] /\ IsRow(rows[x])
    BY DEF RemoveRecord, IInv, RowsInv
  <2>2. rows'[x] = [rows[x] EXCEPT !.status = "removed"] /\ \A r \in DOMAIN rows : r # x => rows'[r] = rows[r]
    BY <2>1
  <2>3. rows'[x].lead = rows[x].lead /\ rows'[x].import = rows[x].import
    BY <2>1, <2>2 DEF IsRow
  <2>4. DOMAIN rows' = DOMAIN rows
    BY <2>1
  <2>5. QED
    BY <2>2, <2>3, <2>4 DEF Steady
<1>3. QED
  BY <1>1, <1>2, SteadyStepsKeepAccounts

\* As long as nothing was reconciled, a record that is restored still is a
\* publication.
LEMMA RestoreKeepsAccounts ==
  ASSUME IInv, AccountsInv, NEW i \in Imported, NEW x \in DOMAIN rows \cup DOMAIN archive, RestoreRecord(i, x)
  PROVE  AccountsInv'
<1>1. UNCHANGED <<exists, history, sources, skips, reviews, merges, reconciled>> /\ exists
  BY DEF RestoreRecord, Tick
<1>2. ASSUME reconciled = {} PROVE Steady
  <2>1. x \in DOMAIN rows
    BY <1>1, <1>2 DEF IInv, MergesInv
  <2>2. rows' = [rows EXCEPT ![x].status = "retained"] /\ IsRow(rows[x])
    BY <2>1 DEF RestoreRecord, IInv, RowsInv
  <2>3. rows'[x] = [rows[x] EXCEPT !.status = "retained"] /\ \A r \in DOMAIN rows : r # x => rows'[r] = rows[r]
    BY <2>1, <2>2
  <2>4. rows'[x].lead = rows[x].lead /\ rows'[x].import = rows[x].import
    BY <2>2, <2>3 DEF IsRow
  <2>5. DOMAIN rows' = DOMAIN rows
    BY <2>2
  <2>6. QED
    BY <2>3, <2>4, <2>5 DEF Steady
<1>3. QED
  BY <1>1, <1>2, SteadyStepsKeepAccounts

\* Looking at an import gives it publications that have none.
LEMMA ViewKeepsAccounts ==
  ASSUME IInv, AccountsInv, NEW i \in Imported, View(i)
  PROVE  AccountsInv'
<1>1. UNCHANGED <<exists, history, sources, skips, reviews, merges, reconciled>>
  BY DEF View, review
<1>2. /\ DOMAIN rows' = DOMAIN rows
      /\ \A r \in DOMAIN rows : \/ rows'[r] = rows[r]
                                \/ rows[r].import = NoImport /\ rows'[r] = [rows[r] EXCEPT !.import = i]
  BY DEF View
<1>3. \A r \in DOMAIN rows : IsRow(rows[r])
  BY DEF IInv, RowsInv
<1>4. \A r \in DOMAIN rows : rows'[r].lead = rows[r].lead
  BY <1>2, <1>3 DEF IsRow
<1>5. Steady
  BY <1>2, <1>4 DEF Steady
<1>6. QED
  BY <1>1, <1>5, SteadyStepsKeepAccounts

\* A warning import that is accepted counts as before.
LEMMA AcceptKeepsAccounts ==
  ASSUME IInv, AccountsInv, NEW i \in Imported, Accept(i)
  PROVE  AccountsInv'
<1>1. /\ UNCHANGED <<exists, rows, history, sources, skips, merges, reconciled>>
      /\ reviews' = Put(reviews, i, "accepted") /\ i \notin DOMAIN reviews /\ history[i].status = "warning"
  BY DEF Accept, Reviewable, review
<1>2. RecordsInv /\ AdditionsInv /\ IntroducedInv /\ DisjointInv
  BY DEF AccountsInv
<1>3. Rejected' = Rejected
  BY <1>1 DEF Rejected, Put
<1>4. RecordsInv'
  <2>1. exists => \A n \in DOMAIN reviews' : history[n].status = "warning" /\ reviews'[n] \in {"accepted", "rejected"}
    BY <1>1, <1>2 DEF RecordsInv, ReviewsInv, Put
  <2>2. QED
    BY <1>1, <1>2, <2>1, SameRecordsKeepInv
<1>5. AdditionsInv' /\ IntroducedInv'
  BY <1>1, <1>2, <1>3, SameRowsAreSteady, SteadyRowsKeepInv
<1>6. DisjointInv'
  BY <1>1, <1>2 DEF DisjointInv
<1>7. QED
  BY <1>4, <1>5, <1>6 DEF AccountsInv

\* A file that cannot be read counts nothing.
LEMMA FailUploadKeepsAccounts ==
  ASSUME IInv, AccountsInv, NEW f \in DOMAIN Files, FailUpload(f)
  PROVE  AccountsInv'
<1>1. PICK entry, n : entry = HistoryEntry("file", Files[f].format, f, 0, "failed") /\ n = Len(history) + 1
  OBVIOUS
<1>2. /\ entry \in HistoryEntries /\ entry.status = "failed" /\ entry.file = f
      /\ entry.label = Files[f].format /\ entry.count = 0
  BY <1>1, ImportsAssumption DEF HistoryEntries, HistoryEntry
<1>3. /\ Imported = 1..Len(history) /\ Imported' = 1..(Len(history) + 1) /\ Len(history) \in Nat
      /\ history'[n] = entry /\ \A i \in Imported : history'[i] = history[i]
  BY <1>1, <1>2, HistoryGrows DEF IInv, FailUpload
<1>4. Imported' = Imported \cup {n} /\ n \notin Imported
  BY <1>1, <1>3
<1>5. UNCHANGED <<exists, rows, sources, skips, reviews, merges, reconciled>>
  BY DEF FailUpload, review
<1>6. RecordsInv /\ AdditionsInv /\ IntroducedInv /\ DisjointInv
  BY DEF AccountsInv
<1>7. CountedImports' = CountedImports /\ Rejected' = Rejected /\ RecoveredRecords' = RecoveredRecords /\ Unmerged' = Unmerged
  BY <1>2, <1>3, <1>4, <1>5 DEF CountedImports, Rejected, RecoveredRecords, Unmerged
<1>8. \A i : /\ SourcesOf(i)' = SourcesOf(i) /\ RepeatedIn(i)' = RepeatedIn(i) /\ (Audited(i)' <=> Audited(i))
             /\ Owned(i)' = Owned(i)
  BY <1>5 DEF SourcesOf, RepeatedIn, SkipsOf, Audited, Owned
<1>9. AuditInv'
  <2>1. \A i \in Imported' : history'[i].status = "failed" => history'[i].count = 0
    BY <1>2, <1>3, <1>4, <1>5, <1>6 DEF RecordsInv, AuditInv, FailUpload, Tick
  <2>2. QED
    BY <1>5, <1>6, <1>7, <1>8, <2>1 DEF RecordsInv, AuditInv
<1>10. ReviewsInv'
  BY <1>3, <1>5, <1>6 DEF RecordsInv, ReviewsInv, IInv, LedgerInv
<1>11. FilesInv'
  BY <1>2, <1>3, <1>4, <1>5, <1>6, <1>8 DEF RecordsInv, FilesInv
<1>12. NamesInv'
  BY <1>5, <1>6 DEF RecordsInv, NamesInv
<1>13. AdditionsInv'
  <2>1. \A i \in CountedImports : history'[i] = history[i]
    BY <1>3 DEF CountedImports
  <2>2. QED
    BY <1>5, <1>6, <1>7, <1>8, <2>1 DEF AdditionsInv
<1>14. IntroducedInv' /\ DisjointInv'
  BY <1>5, <1>6, <1>7 DEF IntroducedInv, DisjointInv
<1>15. QED
  BY <1>9, <1>10, <1>11, <1>12, <1>13, <1>14 DEF AccountsInv, RecordsInv

\* A rejection takes no recovered publication, and those of no other import.
LEMMA RejectKeepsAccounts ==
  ASSUME IInv, AccountsInv, NEW i \in Imported, Reject(i)
  PROVE  AccountsInv'
<1>1. /\ UNCHANGED <<exists, history, sources, skips, merges, reconciled>> /\ exists
      /\ ~ Blocked(i) /\ history[i].status = "warning"
      /\ reviews' = Put(reviews, i, "rejected")
      /\ rows' = Restrict(rows, DOMAIN rows \ Owned(i))
  BY DEF Reject, Reviewable, Tick
<1>2. RecordsInv /\ AdditionsInv /\ IntroducedInv /\ DisjointInv
  BY DEF AccountsInv
<1>3. DOMAIN rows' = DOMAIN rows \ Owned(i) /\ \A r \in DOMAIN rows' : rows'[r] = rows[r]
  BY <1>1 DEF Restrict
<1>4. Rejected' = Rejected \cup {i} /\ RecoveredRecords' = RecoveredRecords /\ CountedImports' = CountedImports
      /\ Unmerged' = Unmerged
  BY <1>1 DEF Rejected, RecoveredRecords, Put, CountedImports, Imported, Unmerged
<1>5. RecordsInv'
  <2>1. exists => \A n \in DOMAIN reviews' : history[n].status = "warning" /\ reviews'[n] \in {"accepted", "rejected"}
    BY <1>1, <1>2 DEF RecordsInv, ReviewsInv, Put
  <2>2. QED
    BY <1>1, <1>2, <2>1, SameRecordsKeepInv
<1>6. RecoveredRecords \cap Owned(i) = {}
  <2> SUFFICES ASSUME NEW r \in RecoveredRecords, r \in Owned(i) PROVE FALSE
    OBVIOUS
  <2>1. r \in DOMAIN sources /\ sources[r].canonical = r
    BY <1>1, <1>2 DEF RecoveredRecords, RecordsInv, NamesInv
  <2>2. sources[r].import = i /\ SourcesOf(i) \cap DOMAIN approvals = {}
    BY <1>1, <2>1, NothingBlocks
  <2>3. r \in DOMAIN approvals
    BY <1>1 DEF IInv, KeepInv
  <2>4. QED
    BY <2>1, <2>2, <2>3 DEF SourcesOf
<1>7. AdditionsInv'
  <2> SUFFICES ASSUME Unmerged PROVE AdditionsInv'
    BY <1>4 DEF AdditionsInv
  <2>1. RecoveredRecords \subseteq DOMAIN rows'
    BY <1>2, <1>3, <1>6 DEF AdditionsInv
  <2>2. \A r \in DOMAIN rows' \ RecoveredRecords :
          r[1] \in Providers \cup {"file"} /\ rows'[r].import \in CountedImports \ Rejected'
    <3>1. \A r \in DOMAIN rows' : rows'[r].import # i
      BY <1>3 DEF Owned
    <3>2. QED
      BY <1>2, <1>3, <1>4, <3>1 DEF AdditionsInv
  <2>3. \A n \in CountedImports \ Rejected' : Owned(n)' = Owned(n) /\ n \notin Rejected
    BY <1>3, <1>4 DEF Owned
  <2>4. \A n \in CountedImports \ Rejected' : Cardinality(Owned(n)' \ RecoveredRecords) = history[n].count
    BY <1>2, <2>3 DEF AdditionsInv
  <2>5. \A r \in DOMAIN rows' : IF r[1] \in Providers THEN rows'[r].lead = r ELSE rows'[r].lead[1] \in FileLabels
    BY <1>2, <1>3 DEF AdditionsInv
  <2>6. QED
    BY <1>1, <1>4, <2>1, <2>2, <2>4, <2>5 DEF AdditionsInv
<1>8. IntroducedInv' /\ DisjointInv'
  BY <1>1, <1>2, <1>4 DEF IntroducedInv, DisjointInv
<1>9. QED
  BY <1>5, <1>7, <1>8 DEF AccountsInv

\* Only publications that are not superseded are merged.
LEMMA MergeKeepsAccounts ==
  ASSUME IInv, AccountsInv, NEW g \in Candidates, Merge(g)
  PROVE  AccountsInv'
<1>1. UNCHANGED <<exists, history, sources, skips, reviews, reconciled>> /\ exists
  BY DEF Merge, Tick
<1>2. RecordsInv /\ DisjointInv
  BY DEF AccountsInv
<1>3. PICK n : merges' = merges \cup {n} /\ n.members = g
  <2>1. PICK c : merges' = merges \cup {[canonical |-> c, members |-> g]}
    BY DEF Merge
  <2>2. PICK n : n = [canonical |-> c, members |-> g]
    OBVIOUS
  <2>3. QED
    BY <2>1, <2>2
<1>4. \A r \in g : rows[r].superseded = None
  <2>1. g \subseteq Corpus(rows)
    BY CandidatesAreActive DEF IInv, RowsInv, Candidates
  <2>2. QED
    BY <2>1 DEF Corpus, Live
<1>5. RecordsInv'
  <2>1. exists => \A i \in DOMAIN reviews' : history[i].status = "warning" /\ reviews'[i] \in {"accepted", "rejected"}
    BY <1>1, <1>2 DEF RecordsInv, ReviewsInv
  <2>2. QED
    BY <1>1, <1>2, <2>1, SameRecordsKeepInv
<1>6. AdditionsInv' /\ IntroducedInv'
  BY <1>3 DEF AdditionsInv, IntroducedInv, Unmerged
<1>7. DisjointInv'
  <2> SUFFICES ASSUME reconciled = {}
               PROVE  \A m, k \in merges' : m # k => (m.members \ {m.canonical}) \cap (k.members \ {k.canonical}) = {}
    BY <1>1 DEF DisjointInv
  <2>1. ASSUME NEW m \in merges, NEW r \in m.members \ {m.canonical} PROVE r \notin g
    <3>1. m.canonical \in DOMAIN rows /\ rows[r].superseded = m.canonical
      BY <1>1, <2>1 DEF IInv, MergesInv
    <3>2. m.canonical # None
      BY <1>1, <3>1 DEF IInv, IdsInv
    <3>3. QED
      BY <1>4, <3>1, <3>2
  <2>2. \A m, k \in merges : m # k => (m.members \ {m.canonical}) \cap (k.members \ {k.canonical}) = {}
    BY <1>1, <1>2 DEF DisjointInv
  <2>3. QED
    BY <1>3, <2>1, <2>2
<1>8. QED
  BY <1>5, <1>6, <1>7 DEF AccountsInv

\* What a recovery writes for the records it has chosen: their rows and their
\* source records, which the audit does not have yet.
RecoveryWrites(es, chosen, back) ==
  /\ chosen \subseteq DOMAIN es /\ back = {es[n].occ : n \in chosen}
  /\ \A n \in chosen : ~ InAudit(es[n])
  /\ DOMAIN sources' = DOMAIN sources \cup back
  /\ \A o \in DOMAIN sources \ back : sources'[o] = sources[o]
  /\ \A o \in back : /\ sources'[o].canonical = o /\ sources'[o].status = "recovered"
                     /\ sources'[o].import = IF o \in DOMAIN sources THEN sources[o].import ELSE NoImport
  /\ DOMAIN rows' = DOMAIN rows \cup back
  /\ \A r \in DOMAIN rows : rows'[r] = rows[r]
  /\ \A r \in back \ DOMAIN rows :
       rows'[r].import = NoImport /\ \E n \in chosen : rows'[r].lead = <<es[n].key[1], es[n].occ>>

\* A recovery writes what it has chosen.
LEMMA RecoveryIsWritten ==
  ASSUME NEW es, RecoverEntries(es)
  PROVE  \E chosen, back : RecoveryWrites(es, chosen, back)
<1>1. PICK chosen : chosen =
        {n \in DOMAIN es : /\ es[n].occ \in {o \in DOMAIN approvals : approvals[o] # "rejected"}
                           /\ approvals[es[n].occ] = "approved"
                           /\ Classification(es, n) = "confirmed_distinct_publication"}
  OBVIOUS
<1>2. PICK back : back = {es[n].occ : n \in chosen}
  OBVIOUS
<1>3. chosen \subseteq DOMAIN es /\ \A n \in chosen : ~ InAudit(es[n])
  BY <1>1 DEF Classification
<1>4. PICK made : /\ DOMAIN made = back \ DOMAIN rows /\ rows' = Written(made, rows)
                  /\ \A o \in back \ DOMAIN rows : \E n \in chosen : made[o] = RecoveredRow(es[n])
  <2> DEFINE place(o) == CHOOSE n \in chosen : es[n].occ = o
             rec == [o \in back \ DOMAIN rows |-> RecoveredRow(es[place(o)])]
  <2>1. rows' = Written(rec, rows)
    BY <1>1, <1>2 DEF RecoverEntries
  <2>2. \A o \in back : place(o) \in chosen
    BY <1>2
  <2>3. DOMAIN rec = back \ DOMAIN rows /\ \A o \in back \ DOMAIN rows : rec[o] = RecoveredRow(es[place(o)])
    OBVIOUS
  <2> HIDE DEF rec, place
  <2>4. QED
    BY <2>1, <2>2, <2>3
<1>5. /\ DOMAIN rows' = DOMAIN rows \cup back /\ \A r \in DOMAIN rows : rows'[r] = rows[r]
      /\ \A r \in back \ DOMAIN rows : rows'[r] = made[r]
  BY <1>4 DEF Written
<1>6. \A r \in back \ DOMAIN rows :
        rows'[r].import = NoImport /\ \E n \in chosen : rows'[r].lead = <<es[n].key[1], es[n].occ>>
  <2> SUFFICES ASSUME NEW r \in back \ DOMAIN rows
               PROVE  rows'[r].import = NoImport /\ \E n \in chosen : rows'[r].lead = <<es[n].key[1], es[n].occ>>
    OBVIOUS
  <2>1. PICK n \in chosen : rows'[r] = RecoveredRow(es[n])
    BY <1>4, <1>5
  <2>2. rows'[r].import = NoImport /\ rows'[r].lead = <<es[n].key[1], es[n].occ>>
    BY <2>1 DEF RecoveredRow, NewRow
  <2>3. QED
    BY <2>2
<1>7. /\ DOMAIN sources' = DOMAIN sources \cup back
      /\ \A o \in back : /\ sources'[o].canonical = o /\ sources'[o].status = "recovered"
                         /\ sources'[o].import = IF o \in DOMAIN sources THEN sources[o].import ELSE NoImport
      /\ \A o \in DOMAIN sources \ back : sources'[o] = sources[o]
  <2> DEFINE from(o) == IF o \in DOMAIN sources THEN sources[o].import ELSE NoImport
             rec == [o \in back |-> SourceRecord(from(o), o, "recovered")]
  <2>1. sources' = Written(rec, sources)
    BY <1>1, <1>2 DEF RecoverEntries
  <2>2. DOMAIN rec = back /\ \A o \in back : rec[o].canonical = o /\ rec[o].status = "recovered" /\ rec[o].import = from(o)
    <3>1. DOMAIN rec = back /\ \A o \in back : rec[o] = SourceRecord(from(o), o, "recovered")
      OBVIOUS
    <3> HIDE DEF rec, from
    <3>2. QED
      BY <3>1, SourceRecordSays
  <2> HIDE DEF rec
  <2>3. QED
    BY <2>1, <2>2 DEF Written
<1>8. RecoveryWrites(es, chosen, back)
  BY <1>2, <1>3, <1>5, <1>6, <1>7 DEF RecoveryWrites
<1>9. QED
  BY <1>8

\* A recovery marks or adds the records of publications that the audit does not
\* have, and counts nothing.
LEMMA RecoverKeepsAccounts ==
  ASSUME IInv, AccountsInv, NEW es, EntriesAreGiven(es), Tick, RecoverEntries(es)
  PROVE  AccountsInv'
<1>1. UNCHANGED <<exists, history, skips, reviews, merges, reconciled>> /\ exists
  BY DEF RecoverEntries, Tick, review
<1>2. RecordsInv /\ AdditionsInv /\ IntroducedInv /\ DisjointInv
  BY DEF AccountsInv
<1>3. PICK chosen, back : RecoveryWrites(es, chosen, back)
  BY RecoveryIsWritten
<1>4. /\ DOMAIN sources' = DOMAIN sources \cup back
      /\ \A o \in DOMAIN sources \ back : sources'[o] = sources[o]
      /\ \A o \in back : /\ sources'[o].canonical = o /\ sources'[o].status = "recovered"
                         /\ sources'[o].import = IF o \in DOMAIN sources THEN sources[o].import ELSE NoImport
      /\ DOMAIN rows' = DOMAIN rows \cup back
      /\ \A r \in DOMAIN rows : rows'[r] = rows[r]
      /\ \A r \in back \ DOMAIN rows : rows'[r].import = NoImport
  BY <1>3 DEF RecoveryWrites
<1>5. \A o \in back : /\ o[1] \in FileLabels
                      /\ o \in DOMAIN sources => sources[o].canonical \notin DOMAIN rows
                      /\ \A s \in skips : s.occ # o
  <2> SUFFICES ASSUME NEW n \in chosen
               PROVE  LET o == es[n].occ
                      IN /\ o[1] \in FileLabels /\ (o \in DOMAIN sources => sources[o].canonical \notin DOMAIN rows)
                         /\ \A s \in skips : s.occ # o
    BY <1>3 DEF RecoveryWrites
  <2>1. n \in DOMAIN es /\ ~ InAudit(es[n])
    BY <1>3 DEF RecoveryWrites
  <2>2. es[n].occ[1] \in FileLabels
    BY <2>1 DEF EntriesAreGiven
  <2>3. QED
    BY <2>1, <2>2 DEF InAudit
<1>6. \A r \in back \ DOMAIN rows : rows'[r].lead[1] \in FileLabels
  <2> SUFFICES ASSUME NEW r \in back \ DOMAIN rows PROVE rows'[r].lead[1] \in FileLabels
    OBVIOUS
  <2>1. PICK n \in chosen : rows'[r].lead = <<es[n].key[1], es[n].occ>>
    BY <1>3 DEF RecoveryWrites
  <2>2. n \in DOMAIN es
    BY <1>3 DEF RecoveryWrites
  <2>3. QED
    BY <2>1, <2>2 DEF EntriesAreGiven
<1>7. CountedImports' = CountedImports /\ Imported' = Imported /\ Rejected' = Rejected /\ Unmerged' = Unmerged
      /\ NoImport \notin Imported
  BY <1>1 DEF CountedImports, Imported, Rejected, Unmerged, NoImport, IInv, HistoryInv
<1>8. \A i \in Imported : SourcesOf(i)' = SourcesOf(i) /\ RepeatedIn(i)' = RepeatedIn(i)
  BY <1>1, <1>4, <1>7 DEF SourcesOf, RepeatedIn, SkipsOf
<1>9. AuditInv'
  <2>1. IsFiniteSet(DOMAIN sources') /\ IsFiniteSet(skips)
    <3>1. PICK k \in Nat : DOMAIN es = 1..k
      BY DEF EntriesAreGiven
    <3>2. IsFiniteSet(chosen)
      BY <1>3, <3>1, FS_Interval, FS_Subset DEF RecoveryWrites
    <3> DEFINE occ == [n \in chosen |-> es[n].occ]
    <3>3. back = {occ[n] : n \in chosen}
      BY <1>3 DEF RecoveryWrites
    <3> HIDE DEF occ
    <3>4. IsFiniteSet(back)
      BY <3>2, <3>3, ImageIsFinite
    <3>5. IsFiniteSet(DOMAIN sources) /\ IsFiniteSet(skips)
      BY <1>1, <1>2 DEF RecordsInv, AuditInv
    <3>6. IsFiniteSet(DOMAIN sources \cup back)
      BY <3>4, <3>5, FS_Union
    <3>7. QED
      BY <1>4, <3>5, <3>6
  <2>2. \A o \in DOMAIN sources' : sources'[o].import \in CountedImports \cup {NoImport}
    BY <1>1, <1>2, <1>4 DEF RecordsInv, AuditInv
  <2>3. \A s \in skips : s.occ \in DOMAIN sources /\ sources'[s.occ] = sources[s.occ]
    BY <1>1, <1>2, <1>4, <1>5 DEF RecordsInv, AuditInv
  <2>4. \A s \in skips :
          /\ s = Skip(s.import, s.occ, s.match) /\ s.import \in CountedImports
          /\ s.match \in {"repeated_occurrence", "exact_doi", "provider_key_duplicate"}
          /\ s.occ \in DOMAIN sources'
          /\ IF s.match = "repeated_occurrence" THEN sources'[s.occ].import # s.import
             ELSE sources'[s.occ].status = "linked" /\ sources'[s.occ].import = s.import
    BY <1>1, <1>2, <1>4, <2>3 DEF RecordsInv, AuditInv
  <2>5. \A o \in DOMAIN sources' : sources'[o].status = "linked" => \E s \in skips : s.occ = o /\ s.match # "repeated_occurrence"
    BY <1>1, <1>2, <1>4 DEF RecordsInv, AuditInv
  <2>6. \A i \in CountedImports : Audited(i)'
    <3>1. \A i \in CountedImports : i \in Imported /\ Audited(i)
      BY <1>1, <1>2 DEF RecordsInv, AuditInv, CountedImports
    <3>2. QED
      BY <1>1, <1>8, <3>1 DEF Audited
  <2>7. /\ \A s, t \in skips : s.occ = t.occ /\ "repeated_occurrence" \notin {s.match, t.match} => s = t
        /\ \A i \in Imported : history[i].status = "failed" => history[i].count = 0
    BY <1>1, <1>2 DEF RecordsInv, AuditInv
  <2>8. QED
    BY <1>1, <1>7, <2>1, <2>2, <2>4, <2>5, <2>6, <2>7 DEF AuditInv
<1>10. ReviewsInv'
  BY <1>1, <1>2 DEF RecordsInv, ReviewsInv
<1>11. FilesInv'
  BY <1>1, <1>2, <1>7, <1>8 DEF RecordsInv, FilesInv
<1>12. NamesInv'
  BY <1>1, <1>2, <1>4, <1>5 DEF RecordsInv, NamesInv
<1>13. RecoveredRecords' = RecoveredRecords \cup back
  BY <1>4 DEF RecoveredRecords
<1>14. AdditionsInv'
  <2> SUFFICES ASSUME Unmerged PROVE AdditionsInv'
    BY <1>7 DEF AdditionsInv
  <2>1. RecoveredRecords' \subseteq DOMAIN rows'
    BY <1>2, <1>4, <1>13 DEF AdditionsInv
  <2>2. \A r \in DOMAIN rows' \ RecoveredRecords' :
          r[1] \in Providers \cup {"file"} /\ rows'[r].import \in CountedImports \ Rejected
    BY <1>2, <1>4, <1>13 DEF AdditionsInv
  <2>3. \A i \in CountedImports : Owned(i)' \ RecoveredRecords' = Owned(i) \ RecoveredRecords
    <3>1. \A i \in CountedImports : i # NoImport
      BY <1>7 DEF CountedImports
    <3>2. \A r \in DOMAIN rows \ RecoveredRecords : r \notin back
      BY <1>2, <1>5, ImportsAssumption DEF AdditionsInv
    <3>3. QED
      BY <1>4, <1>13, <3>1, <3>2 DEF Owned
  <2>4. \A i \in CountedImports \ Rejected : Cardinality(Owned(i)' \ RecoveredRecords') = history[i].count
    BY <1>2, <2>3 DEF AdditionsInv
  <2>5. \A r \in DOMAIN rows' : IF r[1] \in Providers THEN rows'[r].lead = r ELSE rows'[r].lead[1] \in FileLabels
    <3>1. \A r \in back : r[1] \notin Providers
      BY <1>5, ImportsAssumption
    <3>2. QED
      BY <1>2, <1>4, <1>6, <3>1 DEF AdditionsInv
  <2>6. QED
    BY <1>1, <1>7, <2>1, <2>2, <2>4, <2>5 DEF AdditionsInv
<1>15. IntroducedInv'
  <2> SUFFICES ASSUME Unmerged, Rejected = {} PROVE IntroducedInv'
    BY <1>7 DEF IntroducedInv
  <2>1. ASSUME NEW r \in DOMAIN rows'
        PROVE  \E o \in DOMAIN sources' : sources'[o].canonical = r /\ sources'[o].status # "linked"
    <3>1. CASE r \in DOMAIN rows
      <4>1. PICK o \in DOMAIN sources : sources[o].canonical = r /\ sources[o].status # "linked"
        BY <1>2, <3>1 DEF IntroducedInv
      <4>2. o \notin back
        BY <1>5, <3>1, <4>1
      <4>3. QED
        BY <1>4, <4>1, <4>2
    <3>2. CASE r \in back
      BY <1>4, <3>2
    <3>3. QED
      BY <1>4, <2>1, <3>1, <3>2
  <2>2. \A o \in DOMAIN sources' : o[1] \in Providers => o[3][1] \in DOMAIN rows'
    <3>1. \A o \in back : o[1] \notin Providers
      BY <1>5, ImportsAssumption
    <3>2. QED
      BY <1>2, <1>4, <3>1 DEF IntroducedInv
  <2>3. QED
    BY <2>1, <2>2 DEF IntroducedInv
<1>16. DisjointInv'
  BY <1>1, <1>2 DEF DisjointInv
<1>17. QED
  BY <1>9, <1>10, <1>11, <1>12, <1>14, <1>15, <1>16 DEF AccountsInv, RecordsInv

\* Once records are reconciled, only the audit counts.
LEMMA ReconcileKeepsAccounts ==
  ASSUME IInv, AccountsInv, NEW i \in Imported, NEW R \in SUBSET Owned(i), Reconcile(i, R)
  PROVE  AccountsInv'
<1>1. UNCHANGED <<exists, history, sources, skips, reviews>> /\ reconciled' # {}
  BY DEF Reconcile
<1>2. RecordsInv'
  <2>1. exists => \A n \in DOMAIN reviews' : history[n].status = "warning" /\ reviews'[n] \in {"accepted", "rejected"}
    BY <1>1 DEF AccountsInv, RecordsInv, ReviewsInv
  <2>2. QED
    BY <1>1, <2>1, SameRecordsKeepInv DEF AccountsInv
<1>3. AdditionsInv' /\ IntroducedInv' /\ DisjointInv'
  BY <1>1 DEF AdditionsInv, IntroducedInv, DisjointInv, Unmerged
<1>4. QED
  BY <1>2, <1>3 DEF AccountsInv

\* A project that is deleted has no accounts.
LEMMA DeleteProjectKeepsAccounts ==
  ASSUME DeleteProject
  PROVE  AccountsInv'
<1>1. ~ exists'
  BY DEF DeleteProject
<1>2. QED
  BY <1>1 DEF AccountsInv, RecordsInv, AuditInv, ReviewsInv, FilesInv, NamesInv, AdditionsInv, IntroducedInv,
              DisjointInv, Unmerged

\* Every step keeps the accounts.
LEMMA NextKeepsAccounts ==
  ASSUME IInv, AccountsInv, [Next]_vars
  PROVE  AccountsInv'
<1>1. ASSUME UNCHANGED <<exists, rows, history, sources, skips, reviews, merges, reconciled>> PROVE AccountsInv'
  BY <1>1, SameRowsAreSteady, SteadyStepsKeepAccounts
<1>2. CASE ImportResults
  BY <1>2, ProviderImportKeepsAccounts DEF ImportResults
<1>3. CASE Search \/ Normalize
  BY <1>1, <1>3 DEF Search, Normalize, review
<1>4. CASE DeleteProject
  BY <1>4, DeleteProjectKeepsAccounts
<1>5. ASSUME NEW f \in DOMAIN Files,
             ImportFile(f) \/ FailUpload(f) \/ ExecuteRecovery(f) \/ \E n \in Records(f) : DecideRecovery(f, n)
      PROVE  AccountsInv'
  <2>1. CASE ImportFile(f) \/ FailUpload(f)
    BY <2>1, FileImportKeepsAccounts, FailUploadKeepsAccounts
  <2>2. CASE ExecuteRecovery(f)
    <3>1. PICK es : es = Uploads[f].entries
      OBVIOUS
    <3>2. EntriesAreGiven(es) /\ Tick /\ RecoverEntries(es)
      BY <2>2, <3>1, FilesGiveEntries DEF ExecuteRecovery
    <3>3. QED
      BY <3>2, RecoverKeepsAccounts
  <2>3. CASE \E n \in Records(f) : DecideRecovery(f, n)
    BY <1>1, <2>3 DEF DecideRecovery, review
  <2>4. QED
    BY <1>5, <2>1, <2>2, <2>3
<1>6. ASSUME NEW i \in Imported,
             \/ View(i) \/ Accept(i) \/ Reject(i)
             \/ \E r \in DOMAIN rows \cup DOMAIN archive : RestoreRecord(i, r)
             \/ \E R \in SUBSET Owned(i) : Reconcile(i, R)
      PROVE  AccountsInv'
  BY <1>6, ViewKeepsAccounts, AcceptKeepsAccounts, RejectKeepsAccounts, RestoreKeepsAccounts, ReconcileKeepsAccounts
<1>7. ASSUME NEW g \in Candidates, DecideGroup(g) \/ Merge(g) PROVE AccountsInv'
  <2>1. CASE DecideGroup(g)
    BY <1>1, <2>1 DEF DecideGroup
  <2>2. QED
    BY <1>7, <2>1, MergeKeepsAccounts
<1>8. ASSUME NEW r \in DOMAIN rows, RemoveRecord(r) \/ Use(r) PROVE AccountsInv'
  <2>1. CASE Use(r)
    BY <1>1, <2>1 DEF Use, review
  <2>2. QED
    BY <1>8, <2>1, RemoveKeepsAccounts
<1>9. CASE UNCHANGED vars
  BY <1>1, <1>9 DEF vars, review
<1>10. QED
  BY <1>2, <1>3, <1>4, <1>5, <1>6, <1>7, <1>8, <1>9 DEF Next

\* A project starts with empty accounts.
LEMMA InitiallyAccounts ==
  ASSUME Init
  PROVE  AccountsInv
<1>1. Len(<<>>) = 0 /\ DOMAIN <<>> = {} /\ IsFiniteSet({})
  BY FS_EmptySet
<1>2. /\ sources = <<>> /\ history = <<>> /\ reviews = <<>> /\ skips = {} /\ merges = {} /\ rows = LegacyRows
      /\ DOMAIN sources = {} /\ Imported = {} /\ CountedImports = {} /\ DOMAIN reviews = {}
  BY <1>1 DEF Init, Imported, CountedImports
<1>3. RecordsInv
  BY <1>1, <1>2 DEF RecordsInv, AuditInv, ReviewsInv, FilesInv, NamesInv
<1>4. AdditionsInv
  <2>1. Unmerged => DOMAIN rows = {}
    BY <1>1, <1>2 DEF Unmerged
  <2>2. RecoveredRecords = {}
    BY <1>2 DEF RecoveredRecords
  <2>3. QED
    BY <1>2, <2>1, <2>2 DEF AdditionsInv
<1>5. IntroducedInv
  BY <1>1, <1>2 DEF IntroducedInv, Unmerged
<1>6. DisjointInv
  BY <1>2 DEF DisjointInv
<1>7. QED
  BY <1>3, <1>4, <1>5, <1>6 DEF AccountsInv

----------------------------------------------------------------------------
(* The sums of the accounts *)

\* The records identified by a set of imports are summed in any order.
LEMMA IdentifiedIsSummed ==
  ASSUME NEW S, IsFiniteSet(S), \A i \in S : Identified(i) \in Nat
  PROVE  \E it : IsSum(it, S, [i \in S |-> Identified(i)]) /\ MapThenSumSet(Identified, S) = it[S]
<1> DEFINE c == [i \in S |-> Identified(i)]
           Fold(f) == f = [s \in SUBSET S |-> IF s = {} THEN 0 ELSE Identified(Pick(s)) + f[s \ {Pick(s)}]]
           iter == CHOOSE g : Fold(g)
<1>1. PICK f : IsSum(f, S, c)
  <2>1. \A x \in S : c[x] \in Nat
    OBVIOUS
  <2> HIDE DEF c
  <2>2. QED
    BY <2>1, SumExists
<1>2. \A s \in SUBSET S : s # {} => c[Pick(s)] = Identified(Pick(s))
  BY PickIsMember
<1>3. \A g : Fold(g) <=> IsSum(g, S, c)
  <2> SUFFICES ASSUME NEW g PROVE Fold(g) <=> IsSum(g, S, c)
    OBVIOUS
  <2>1. \A s \in SUBSET S : (IF s = {} THEN 0 ELSE Identified(Pick(s)) + g[s \ {Pick(s)}])
                              = (IF s = {} THEN 0 ELSE c[Pick(s)] + g[s \ {Pick(s)}])
    <3> HIDE DEF c
    <3>1. QED
      BY <1>2
  <2> HIDE DEF c
  <2>2. QED
    BY <2>1 DEF IsSum
<1>4. Fold(iter)
  <2>1. Fold(f)
    <3> HIDE DEF Fold, c
    <3>1. QED
      BY <1>1, <1>3
  <2> HIDE DEF Fold
  <2>2. QED
    BY <2>1
<1>5. MapThenSumSet(Identified, S) = iter[S]
  BY DEF MapThenSumSet, MapThenFoldSet, Pick
<1>6. QED
  <2> HIDE DEF iter, Fold, c
  <2>1. IsSum(iter, S, c)
    BY <1>3, <1>4
  <2>2. QED
    BY <1>5, <2>1 DEF c

\* What the audit holds of an import is finite, and a repeated occurrence is
\* counted once.
LEMMA OccurrencesAreCounted ==
  ASSUME exists, AuditInv, NEW i
  PROVE  /\ IsFiniteSet(SourcesOf(i)) /\ IsFiniteSet(SkipsOf(i, "repeated_occurrence")) /\ IsFiniteSet(RepeatedIn(i))
         /\ Cardinality(RepeatedIn(i)) = Cardinality(SkipsOf(i, "repeated_occurrence"))
         /\ SourcesOf(i) \cap RepeatedIn(i) = {}
         /\ Occurrences(i) \in Nat
         /\ Occurrences(i) = Cardinality(SourcesOf(i) \cup RepeatedIn(i))
<1>1. IsFiniteSet(DOMAIN sources) /\ IsFiniteSet(skips) /\ \A s \in skips : s = Skip(s.import, s.occ, s.match)
  BY DEF AuditInv
<1>2. IsFiniteSet(SourcesOf(i))
  BY <1>1, FS_Subset DEF SourcesOf
<1>3. IsFiniteSet(SkipsOf(i, "repeated_occurrence"))
  BY <1>1, FS_Subset DEF SkipsOf
<1> DEFINE K == SkipsOf(i, "repeated_occurrence")
           occ == [s \in K |-> s.occ]
<1>4. \A s, t \in K : occ[s] = occ[t] => s = t
  BY <1>1 DEF SkipsOf
<1>5. RepeatedIn(i) = {occ[s] : s \in K}
  BY DEF RepeatedIn
<1>6. IsFiniteSet(RepeatedIn(i)) /\ Cardinality(RepeatedIn(i)) = Cardinality(K)
  <2> HIDE DEF K, occ
  <2>1. IsFiniteSet(K)
    BY <1>3 DEF K
  <2>2. QED
    BY <1>4, <1>5, <2>1, ImagesCount
<1>7. SourcesOf(i) \cap RepeatedIn(i) = {}
  <2> SUFFICES ASSUME NEW s \in K, s.occ \in SourcesOf(i) PROVE FALSE
    BY DEF RepeatedIn
  <2>1. sources[s.occ].import # s.import /\ s.import = i
    BY DEF AuditInv, SkipsOf
  <2>2. QED
    BY <2>1 DEF SourcesOf
<1>8. /\ Cardinality(SourcesOf(i) \cup RepeatedIn(i)) = Cardinality(SourcesOf(i)) + Cardinality(RepeatedIn(i))
      /\ Cardinality(SourcesOf(i)) \in Nat /\ Cardinality(RepeatedIn(i)) \in Nat
  BY <1>2, <1>6, <1>7, DisjointUnion
<1>9. QED
  BY <1>2, <1>3, <1>6, <1>7, <1>8 DEF Occurrences

\* The source records and the repeated occurrences of some imports.
SourcesIn(S) == {o \in DOMAIN sources : sources[o].import \in S}
RepeatedSkips(S) == {s \in skips : s.match = "repeated_occurrence" /\ s.import \in S}

\* What imports identify is what the audit holds of them.
LEMMA IdentifiedIsAudited ==
  ASSUME exists, AuditInv, NEW S \in SUBSET CountedImports, IsFiniteSet(S)
  PROVE  /\ MapThenSumSet(Identified, S) = Cardinality(SourcesIn(S)) + Cardinality(RepeatedSkips(S))
         /\ IsFiniteSet(SourcesIn(S)) /\ IsFiniteSet(RepeatedSkips(S))
<1> DEFINE A == SourcesIn(S)
           B == RepeatedSkips(S)
           K == [i \in S |-> SkipsOf(i, "repeated_occurrence")]
           O == [i \in S |-> SourcesOf(i)]
           F == [i \in S |-> ({1} \X O[i]) \cup ({2} \X K[i])]
           c == [i \in S |-> Identified(i)]
<1>1. IsFiniteSet(A) /\ IsFiniteSet(B)
  BY FS_Subset DEF AuditInv, SourcesIn, RepeatedSkips
<1>2. \A i \in S : Identified(i) = Occurrences(i) /\ Occurrences(i) \in Nat
  <2>1. \A i \in S : Audited(i)
    BY DEF AuditInv
  <2>2. QED
    BY <2>1, OccurrencesAreCounted DEF Identified
<1>3. ASSUME NEW i \in S PROVE IsFiniteSet(F[i]) /\ c[i] = Cardinality(F[i])
  <2>1. /\ IsFiniteSet(O[i]) /\ IsFiniteSet(K[i])
        /\ c[i] = Cardinality(O[i]) + Cardinality(K[i])
    <3>1. IsFiniteSet(SourcesOf(i)) /\ IsFiniteSet(SkipsOf(i, "repeated_occurrence"))
      BY OccurrencesAreCounted
    <3>2. c[i] = Cardinality(SourcesOf(i)) + Cardinality(SkipsOf(i, "repeated_occurrence"))
      BY <1>2 DEF Occurrences
    <3>3. QED
      BY <3>1, <3>2
  <2>2. F[i] = ({1} \X O[i]) \cup ({2} \X K[i])
    OBVIOUS
  <2> HIDE DEF F, O, K, c
  <2>3. /\ IsFiniteSet({1} \X O[i]) /\ Cardinality({1} \X O[i]) = Cardinality(O[i])
        /\ IsFiniteSet({2} \X K[i]) /\ Cardinality({2} \X K[i]) = Cardinality(K[i])
    BY <2>1, PairsWithOne
  <2>4. ({1} \X O[i]) \cap ({2} \X K[i]) = {}
    OBVIOUS
  <2>5. /\ IsFiniteSet(({1} \X O[i]) \cup ({2} \X K[i]))
        /\ Cardinality(({1} \X O[i]) \cup ({2} \X K[i])) = Cardinality({1} \X O[i]) + Cardinality({2} \X K[i])
    <3> DEFINE X == {1} \X O[i]
               Y == {2} \X K[i]
    <3>1. IsFiniteSet(X) /\ IsFiniteSet(Y) /\ X \cap Y = {}
      BY <2>3, <2>4
    <3> HIDE DEF X, Y
    <3>2. IsFiniteSet(X \cup Y) /\ Cardinality(X \cup Y) = Cardinality(X) + Cardinality(Y)
      BY <3>1, DisjointUnion
    <3>3. QED
      BY <3>2 DEF X, Y
  <2>6. QED
    BY <2>1, <2>2, <2>3, <2>5
<1>4. ASSUME NEW i \in S, NEW j \in S, i # j PROVE F[i] \cap F[j] = {}
  <2>1. O[i] \cap O[j] = {} /\ K[i] \cap K[j] = {}
    BY <1>4 DEF SourcesOf, SkipsOf
  <2>2. F[i] = ({1} \X O[i]) \cup ({2} \X K[i]) /\ F[j] = ({1} \X O[j]) \cup ({2} \X K[j])
    OBVIOUS
  <2> HIDE DEF F, O, K
  <2>3. QED
    BY <2>1, <2>2
<1> DEFINE U == ({1} \X A) \cup ({2} \X B)
<1>5. \A x : x \in U <=> \E i \in S : x \in F[i]
  <2>1. \A o : o \in A <=> \E i \in S : o \in O[i]
    BY DEF SourcesIn, SourcesOf
  <2>2. \A s : s \in B <=> \E i \in S : s \in K[i]
    BY DEF RepeatedSkips, SkipsOf
  <2>3. \A i \in S : F[i] = ({1} \X O[i]) \cup ({2} \X K[i])
    OBVIOUS
  <2> HIDE DEF F, O, K, A, B
  <2>4. QED
    BY <2>1, <2>2, <2>3
<1>6. Cardinality(U) = Cardinality(A) + Cardinality(B)
  <2> HIDE DEF A, B
  <2>1. /\ IsFiniteSet({1} \X A) /\ Cardinality({1} \X A) = Cardinality(A)
        /\ IsFiniteSet({2} \X B) /\ Cardinality({2} \X B) = Cardinality(B)
    BY <1>1, PairsWithOne
  <2>2. ({1} \X A) \cap ({2} \X B) = {}
    OBVIOUS
  <2>3. QED
    BY <2>1, <2>2, DisjointUnion
<1>7. PICK it : IsSum(it, S, c) /\ MapThenSumSet(Identified, S) = it[S]
  BY <1>2, IdentifiedIsSummed
<1> HIDE DEF F, c, A, B, O, K, U
<1>8. it[S] = Cardinality(U)
  <2>1. (\A i \in S : IsFiniteSet(F[i])) /\ \A i \in S : c[i] = Cardinality(F[i])
    BY <1>3
  <2>2. \A i, j \in S : i # j => F[i] \cap F[j] = {}
    BY <1>4
  <2>3. QED
    BY <1>5, <1>7, <2>1, <2>2, DisjointSetsAdd
<1>9. QED
  BY <1>1, <1>6, <1>7, <1>8 DEF A, B

\* Every source record and every repeated occurrence is identified by one import,
\* or by none.
LEMMA AllIsIdentified ==
  ASSUME exists, IInv, AuditInv
  PROVE  IdentifiedBy("provider") + IdentifiedBy("file") + Cardinality(SourcesOf(NoImport))
           = Cardinality(DOMAIN sources) + SkipCount("repeated_occurrence")
<1> DEFINE P == {i \in Imported : history[i].kind = "provider" /\ history[i].status # "failed"}
           F == {i \in Imported : history[i].kind = "file" /\ history[i].status # "failed"}
<1>1. IsFiniteSet(Imported) /\ NoImport \notin Imported /\ \A i \in Imported : history[i].kind \in {"provider", "file"}
  <2>1. Len(history) \in Nat /\ Imported = 1..Len(history)
    BY DEF IInv, HistoryInv, Imported
  <2>2. \A i \in Imported : history[i] \in HistoryEntries
    BY DEF IInv, HistoryInv, Imported
  <2>3. IsFiniteSet(Imported)
    BY <2>1, FS_Interval
  <2>4. QED
    BY <2>1, <2>2, <2>3 DEF NoImport, HistoryEntries
<1>2. P \in SUBSET CountedImports /\ F \in SUBSET CountedImports /\ P \cap F = {} /\ P \cup F = CountedImports
  BY <1>1 DEF CountedImports
<1>3. IsFiniteSet(P) /\ IsFiniteSet(F)
  BY <1>1, FS_Subset
<1>4. IdentifiedBy("provider") = MapThenSumSet(Identified, P) /\ IdentifiedBy("file") = MapThenSumSet(Identified, F)
  BY DEF IdentifiedBy
<1> HIDE DEF P, F
<1>5. /\ MapThenSumSet(Identified, P) = Cardinality(SourcesIn(P)) + Cardinality(RepeatedSkips(P))
      /\ IsFiniteSet(SourcesIn(P)) /\ IsFiniteSet(RepeatedSkips(P))
  BY <1>2, <1>3, IdentifiedIsAudited
<1>6. /\ MapThenSumSet(Identified, F) = Cardinality(SourcesIn(F)) + Cardinality(RepeatedSkips(F))
      /\ IsFiniteSet(SourcesIn(F)) /\ IsFiniteSet(RepeatedSkips(F))
  BY <1>2, <1>3, IdentifiedIsAudited
<1>7. /\ Cardinality(RepeatedSkips(P)) + Cardinality(RepeatedSkips(F)) = SkipCount("repeated_occurrence")
      /\ Cardinality(RepeatedSkips(P)) \in Nat /\ Cardinality(RepeatedSkips(F)) \in Nat
  <2>1. RepeatedSkips(P) \cap RepeatedSkips(F) = {}
    BY <1>2 DEF RepeatedSkips
  <2>2. RepeatedSkips(P) \cup RepeatedSkips(F) = {s \in skips : s.match = "repeated_occurrence"}
    BY <1>2 DEF RepeatedSkips, AuditInv
  <2>3. QED
    BY <1>5, <1>6, <2>1, <2>2, DisjointUnion DEF SkipCount
<1>8. /\ Cardinality(SourcesIn(P)) + Cardinality(SourcesIn(F)) + Cardinality(SourcesOf(NoImport)) = Cardinality(DOMAIN sources)
      /\ Cardinality(SourcesIn(P)) \in Nat /\ Cardinality(SourcesIn(F)) \in Nat /\ Cardinality(SourcesOf(NoImport)) \in Nat
  <2>1. SourcesIn(P) \cap SourcesIn(F) = {}
    BY <1>2 DEF SourcesIn
  <2>2. (SourcesIn(P) \cup SourcesIn(F)) \cap SourcesOf(NoImport) = {}
    BY <1>1, <1>2 DEF SourcesIn, SourcesOf, CountedImports
  <2>3. SourcesIn(P) \cup SourcesIn(F) \cup SourcesOf(NoImport) = DOMAIN sources
    BY <1>2 DEF SourcesIn, SourcesOf, AuditInv
  <2>4. IsFiniteSet(SourcesOf(NoImport))
    BY OccurrencesAreCounted
  <2>5. /\ Cardinality(SourcesIn(P) \cup SourcesIn(F)) = Cardinality(SourcesIn(P)) + Cardinality(SourcesIn(F))
        /\ IsFiniteSet(SourcesIn(P) \cup SourcesIn(F))
        /\ Cardinality(SourcesIn(P)) \in Nat /\ Cardinality(SourcesIn(F)) \in Nat
    BY <1>5, <1>6, <2>1, DisjointUnion
  <2>6. /\ Cardinality(SourcesIn(P) \cup SourcesIn(F) \cup SourcesOf(NoImport))
             = Cardinality(SourcesIn(P) \cup SourcesIn(F)) + Cardinality(SourcesOf(NoImport))
        /\ Cardinality(SourcesOf(NoImport)) \in Nat
    BY <2>2, <2>4, <2>5, DisjointUnion
  <2>7. QED
    BY <2>3, <2>5, <2>6
<1>9. QED
  BY <1>4, <1>5, <1>6, <1>7, <1>8

----------------------------------------------------------------------------
(* The publications of the sources summary *)

\* The publications that some imports have added, without those recovered.
AddedRows(S) == {r \in DOMAIN rows \ RecoveredRecords : rows[r].import \in S}

\* As long as nothing is merged, imports count what they have added.
LEMMA AdditionsAreRows ==
  ASSUME Unmerged, IInv, AdditionsInv, NEW S \in SUBSET (CountedImports \ Rejected)
  PROVE  SumOfCounts(history, S) = Cardinality(AddedRows(S)) /\ IsFiniteSet(AddedRows(S))
<1> DEFINE F == [i \in S |-> Owned(i) \ RecoveredRecords]
           c == [i \in S |-> history[i].count]
<1>1. IsFiniteSet(S)
  <2>1. Len(history) \in Nat /\ Imported = 1..Len(history)
    BY DEF IInv, HistoryInv, Imported
  <2>2. IsFiniteSet(Imported)
    BY <2>1, FS_Interval
  <2>3. S \in SUBSET Imported
    BY DEF CountedImports
  <2>4. QED
    BY <2>2, <2>3, FS_Subset
<1>2. IsFiniteSet(DOMAIN rows)
  BY DEF IInv, RowsInv
<1>3. IsFiniteSet(AddedRows(S))
  BY <1>2, FS_Subset DEF AddedRows
<1>4. ASSUME NEW i \in S PROVE IsFiniteSet(F[i]) /\ c[i] = Cardinality(F[i])
  <2>1. F[i] = Owned(i) \ RecoveredRecords /\ c[i] = history[i].count
    OBVIOUS
  <2> HIDE DEF F, c
  <2>2. F[i] \in SUBSET DOMAIN rows
    BY <2>1 DEF Owned
  <2>3. IsFiniteSet(F[i])
    BY <1>2, <2>2, FS_Subset
  <2>4. Cardinality(Owned(i) \ RecoveredRecords) = history[i].count
    BY DEF AdditionsInv
  <2>5. QED
    BY <2>1, <2>3, <2>4
<1>5. ASSUME NEW i \in S, NEW j \in S, i # j PROVE F[i] \cap F[j] = {}
  BY <1>5 DEF Owned
<1>6. \A r : r \in AddedRows(S) <=> \E i \in S : r \in F[i]
  BY DEF AddedRows, Owned
<1>7. \A i \in S : history[i].count \in Nat
  <2>1. \A i \in S : history[i] \in HistoryEntries
    BY DEF IInv, HistoryInv, CountedImports, Imported
  <2>2. QED
    BY <2>1 DEF HistoryEntries
<1>8. PICK it : IsSum(it, S, c) /\ SumOfCounts(history, S) = it[S]
  BY <1>1, <1>7, CountsAreSummed
<1> HIDE DEF F, c
<1>9. it[S] = Cardinality(AddedRows(S))
  <2>1. (\A i \in S : IsFiniteSet(F[i])) /\ \A i \in S : c[i] = Cardinality(F[i])
    BY <1>4
  <2>2. \A i, j \in S : i # j => F[i] \cap F[j] = {}
    BY <1>5
  <2>3. QED
    BY <1>1, <1>6, <1>8, <2>1, <2>2, DisjointSetsAdd
<1>10. QED
  BY <1>3, <1>8, <1>9

\* What a summary of the sources says was added.
AddedIn(summaries) == MapThenSumSet(LAMBDA l : summaries.sources[l].records_added, DOMAIN summaries.sources)

LEMMA SummaryIsSummed ==
  ASSUME NEW summaries, NEW S, S = DOMAIN summaries.sources, IsFiniteSet(S),
         \A l \in S : summaries.sources[l].records_added \in Nat
  PROVE  \E it : IsSum(it, S, [l \in S |-> summaries.sources[l].records_added]) /\ AddedIn(summaries) = it[S]
<1> DEFINE c == [l \in S |-> summaries.sources[l].records_added]
           Fold(f) == f = [s \in SUBSET S |-> IF s = {} THEN 0 ELSE summaries.sources[Pick(s)].records_added + f[s \ {Pick(s)}]]
           iter == CHOOSE g : Fold(g)
<1>1. PICK f : IsSum(f, S, c)
  <2>1. \A x \in S : c[x] \in Nat
    OBVIOUS
  <2> HIDE DEF c
  <2>2. QED
    BY <2>1, SumExists
<1>2. \A s \in SUBSET S : s # {} => c[Pick(s)] = summaries.sources[Pick(s)].records_added
  BY PickIsMember
<1>3. \A g : Fold(g) <=> IsSum(g, S, c)
  <2> SUFFICES ASSUME NEW g PROVE Fold(g) <=> IsSum(g, S, c)
    OBVIOUS
  <2>1. \A s \in SUBSET S : (IF s = {} THEN 0 ELSE summaries.sources[Pick(s)].records_added + g[s \ {Pick(s)}])
                              = (IF s = {} THEN 0 ELSE c[Pick(s)] + g[s \ {Pick(s)}])
    <3> HIDE DEF c
    <3>1. QED
      BY <1>2
  <2> HIDE DEF c
  <2>2. QED
    BY <2>1 DEF IsSum
<1>4. Fold(iter)
  <2>1. Fold(f)
    <3> HIDE DEF Fold, c
    <3>1. QED
      BY <1>1, <1>3
  <2> HIDE DEF Fold
  <2>2. QED
    BY <2>1
<1>5. AddedIn(summaries) = iter[S]
  BY DEF AddedIn, MapThenSumSet, MapThenFoldSet, Pick
<1>6. QED
  <2> HIDE DEF iter, Fold, c
  <2>1. IsSum(iter, S, c)
    BY <1>3, <1>4
  <2>2. QED
    BY <1>5, <2>1 DEF c

\* The imports under a label that the summary counts records of.
CountedAs(l) == {i \in CountedImports \ Rejected : history[i].label = l}

\* As long as nothing is merged, the summary has all publications but those
\* recovered.
LEMMA SummaryHasAllRows ==
  ASSUME Unmerged, IInv, ReviewsInv, AuditInv, AdditionsInv
  PROVE  Cardinality(DOMAIN rows) = Cardinality(RecoveredRecords) + AddedIn(Summaries)
<1> DEFINE L == {history[i].label : i \in ActiveImports}
<1>1. \A i \in Imported : /\ history[i].status \in {"success", "warning", "failed"}
                          /\ EffectiveStatus(i) \in {"success", "warning"} <=> i \in CountedImports \ Rejected
                          /\ i \in CountedImports \ Rejected => i \in ActiveImports
  <2> SUFFICES ASSUME NEW i \in Imported
               PROVE  /\ history[i].status \in {"success", "warning", "failed"}
                      /\ EffectiveStatus(i) \in {"success", "warning"} <=> i \in CountedImports \ Rejected
                      /\ i \in CountedImports \ Rejected => i \in ActiveImports
    OBVIOUS
  <2>1. history[i] \in HistoryEntries
    BY DEF IInv, HistoryInv, Imported
  <2>2. history[i].status \in {"success", "warning", "failed"}
    BY <2>1 DEF HistoryEntries
  <2>3. i \in DOMAIN reviews => history[i].status = "warning" /\ reviews[i] \in {"accepted", "rejected"}
    BY DEF ReviewsInv, Unmerged
  <2>4. QED
    BY <2>2, <2>3 DEF EffectiveStatus, CountedImports, Rejected, ActiveImports
<1>2. \A l \in L : Summaries.sources[l].records_added = SumOfCounts(history, CountedAs(l))
  <2> SUFFICES ASSUME NEW l \in L PROVE Summaries.sources[l].records_added = SumOfCounts(history, CountedAs(l))
    OBVIOUS
  <2> DEFINE mine == {i \in ActiveImports : history[i].label = l}
             added == {i \in mine : EffectiveStatus(i) \in {"success", "warning"}}
  <2>1. Summaries.sources[l] = SourceSummary(l)
    BY DEF Summaries
  <2>2. SourceSummary(l).records_added = SumOfCounts(history, added)
    BY DEF SourceSummary, SumOfCounts
  <2>3. added = CountedAs(l)
    BY <1>1 DEF CountedAs, CountedImports, ActiveImports
  <2> HIDE DEF added
  <2>4. QED
    BY <2>1, <2>2, <2>3
<1>3. DOMAIN Summaries.sources = L
  BY DEF Summaries
<1>4. IsFiniteSet(L)
  <2>1. Len(history) \in Nat /\ Imported = 1..Len(history)
    BY DEF IInv, HistoryInv, Imported
  <2>2. IsFiniteSet(ActiveImports)
    <3>1. IsFiniteSet(Imported)
      BY <2>1, FS_Interval
    <3>2. ActiveImports \in SUBSET Imported
      BY DEF ActiveImports
    <3>3. QED
      BY <3>1, <3>2, FS_Subset
  <2> DEFINE label == [i \in ActiveImports |-> history[i].label]
  <2>3. L = {label[i] : i \in ActiveImports}
    OBVIOUS
  <2> HIDE DEF L, label
  <2>4. QED
    BY <2>2, <2>3, ImageIsFinite
<1> DEFINE F == [l \in L |-> AddedRows(CountedAs(l))]
           c == [l \in L |-> Summaries.sources[l].records_added]
<1>5. ASSUME NEW l \in L PROVE IsFiniteSet(F[l]) /\ c[l] = Cardinality(F[l]) /\ Summaries.sources[l].records_added \in Nat
  <2>1. CountedAs(l) \in SUBSET (CountedImports \ Rejected)
    BY DEF CountedAs
  <2>2. SumOfCounts(history, CountedAs(l)) = Cardinality(AddedRows(CountedAs(l))) /\ IsFiniteSet(AddedRows(CountedAs(l)))
    BY <2>1, AdditionsAreRows
  <2>3. Cardinality(AddedRows(CountedAs(l))) \in Nat
    BY <2>2, FS_CardinalityType
  <2>4. Summaries.sources[l].records_added = SumOfCounts(history, CountedAs(l))
    BY <1>2
  <2>5. F[l] = AddedRows(CountedAs(l)) /\ c[l] = Summaries.sources[l].records_added
    BY <1>5
  <2> HIDE DEF F, c, L
  <2>6. QED
    BY <2>2, <2>3, <2>4, <2>5
<1>6. ASSUME NEW l \in L, NEW k \in L, l # k PROVE F[l] \cap F[k] = {}
  BY <1>6 DEF AddedRows, CountedAs
<1>7. \A r : r \in DOMAIN rows \ RecoveredRecords <=> \E l \in L : r \in F[l]
  <2>1. ASSUME NEW r \in DOMAIN rows \ RecoveredRecords PROVE \E l \in L : r \in F[l]
    <3>1. rows[r].import \in CountedImports \ Rejected
      BY <2>1 DEF AdditionsInv
    <3>2. rows[r].import \in ActiveImports
      BY <1>1, <3>1 DEF CountedImports
    <3>3. history[rows[r].import].label \in L
      BY <3>2
    <3>4. r \in AddedRows(CountedAs(history[rows[r].import].label))
      BY <2>1, <3>1 DEF AddedRows, CountedAs
    <3>5. QED
      BY <3>3, <3>4
  <2>2. ASSUME NEW l \in L, NEW r \in F[l] PROVE r \in DOMAIN rows \ RecoveredRecords
    <3>1. F[l] = AddedRows(CountedAs(l))
      BY <2>2
    <3> HIDE DEF F, L
    <3>2. QED
      BY <2>2, <3>1 DEF AddedRows
  <2> HIDE DEF F, L
  <2>3. QED
    BY <2>1, <2>2
<1> HIDE DEF F, L
<1>8. PICK it : IsSum(it, L, c) /\ AddedIn(Summaries) = it[L]
  BY <1>3, <1>4, <1>5, SummaryIsSummed
<1> HIDE DEF c
<1>9. it[L] = Cardinality(DOMAIN rows \ RecoveredRecords) /\ IsFiniteSet(DOMAIN rows \ RecoveredRecords)
  <2>1. (\A l \in L : IsFiniteSet(F[l])) /\ \A l \in L : c[l] = Cardinality(F[l])
    BY <1>5
  <2>2. \A l, k \in L : l # k => F[l] \cap F[k] = {}
    BY <1>6
  <2>3. QED
    BY <1>4, <1>7, <1>8, <2>1, <2>2, DisjointSetsAdd
<1>10. IsFiniteSet(RecoveredRecords) /\ RecoveredRecords \subseteq DOMAIN rows
  <2>1. IsFiniteSet(DOMAIN sources) /\ RecoveredRecords \subseteq DOMAIN sources
    BY DEF AuditInv, Unmerged, RecoveredRecords
  <2>2. QED
    BY <2>1, FS_Subset DEF AdditionsInv
<1>11. Cardinality(RecoveredRecords \cup (DOMAIN rows \ RecoveredRecords))
         = Cardinality(RecoveredRecords) + Cardinality(DOMAIN rows \ RecoveredRecords)
  <2>1. RecoveredRecords \cap (DOMAIN rows \ RecoveredRecords) = {}
    OBVIOUS
  <2>2. QED
    BY <1>9, <1>10, <2>1, DisjointUnion
<1>12. RecoveredRecords \cup (DOMAIN rows \ RecoveredRecords) = DOMAIN rows
  BY <1>10
<1>13. QED
  BY <1>8, <1>9, <1>11, <1>12

----------------------------------------------------------------------------
(* The flow diagram *)

\* A source record that is linked leaves one skip.
LEMMA LinkedAreSkipped ==
  ASSUME exists, AuditInv, SkipCount("provider_key_duplicate") = 0
  PROVE  Cardinality({o \in DOMAIN sources : sources[o].status = "linked"}) = SkipCount("exact_doi")
<1> DEFINE K == {s \in skips : s.match = "exact_doi"}
           linked == {o \in DOMAIN sources : sources[o].status = "linked"}
           occ == [s \in K |-> s.occ]
<1>1. IsFiniteSet(skips) /\ IsFiniteSet(K)
  BY FS_Subset DEF AuditInv
<1>2. \A s \in skips : s.match # "provider_key_duplicate"
  <2> DEFINE P == {s \in skips : s.match = "provider_key_duplicate"}
  <2>1. IsFiniteSet(P) /\ Cardinality(P) = 0
    BY <1>1, FS_Subset DEF SkipCount
  <2>2. P = {}
    <3> HIDE DEF P
    <3>1. QED
      BY <2>1, FS_EmptySet
  <2>3. QED
    BY <2>2
<1>3. \A s, t \in K : occ[s] = occ[t] => s = t
  BY DEF AuditInv
<1>4. \A o : o \in linked <=> \E s \in K : s.occ = o
  BY <1>2 DEF AuditInv
<1>5. linked = {occ[s] : s \in K}
  <2>1. \A s \in K : occ[s] = s.occ
    OBVIOUS
  <2> HIDE DEF linked, occ, K
  <2>2. QED
    BY <1>4, <2>1
<1>6. Cardinality(linked) = Cardinality(K)
  <2> HIDE DEF linked, occ, K
  <2>1. QED
    BY <1>1, <1>3, <1>5, ImagesCount
<1>7. QED
  BY <1>6 DEF SkipCount

\* The other source records are those that introduced the publications.
LEMMA IntroducingAreRows ==
  ASSUME exists, LegacyRows = <<>>, IInv, AccountsInv, Rejected = {}, touched = {}, reconciled = {}, ImportedOnce
  PROVE  Cardinality({o \in DOMAIN sources : sources[o].status # "linked"}) = Cardinality(DOMAIN rows)
<1> DEFINE N == {o \in DOMAIN sources : sources[o].status # "linked"}
           row == [o \in N |-> sources[o].canonical]
<1>1. IsFiniteSet(N)
  BY FS_Subset DEF AccountsInv, RecordsInv, AuditInv
<1>2. \A o \in N : sources[o].status \in {"imported", "recovered"} /\ row[o] = sources[o].canonical
  BY DEF IInv, LedgerInv
<1>3. \A o \in N : row[o] \in DOMAIN rows
  BY <1>2 DEF IInv, KeepInv, SourceKeepsItsRow
<1>4. \A o, q \in N : row[o] = row[q] => o = q
  <2> SUFFICES ASSUME NEW o \in N, NEW q \in N, sources[o].canonical = sources[q].canonical PROVE o = q
    BY <1>2
  <2>1. NamesInv
    BY DEF AccountsInv, RecordsInv
  <2>2. CASE sources[o].status = "imported" /\ sources[q].status = "imported"
    BY <2>2 DEF ImportedOnce
  <2>3. CASE sources[o].status = "recovered" /\ sources[q].status = "recovered"
    BY <2>1, <2>3 DEF NamesInv
  <2>4. ASSUME NEW x \in N, NEW y \in N, sources[x].canonical = sources[y].canonical,
               sources[x].status = "imported", sources[y].status = "recovered"
        PROVE  FALSE
    <3>1. sources[x].canonical[1] \in Providers \cup {"file"} /\ sources[y].canonical[1] \in FileLabels
      BY <2>1, <2>4 DEF NamesInv
    <3>2. QED
      BY <2>4, <3>1, ImportsAssumption
  <2>5. QED
    BY <1>2, <2>2, <2>3, <2>4
<1>5. \A r \in DOMAIN rows : \E o \in N : row[o] = r
  <2>1. \A r \in DOMAIN rows : \E o \in DOMAIN sources : sources[o].canonical = r /\ sources[o].status # "linked"
    BY DEF ImportedOnce, AccountsInv, IntroducedInv, Unmerged
  <2>2. QED
    BY <1>2, <2>1
<1>6. DOMAIN rows = {row[o] : o \in N}
  <2> HIDE DEF N, row
  <2>1. QED
    BY <1>3, <1>5
<1>7. QED
  <2> HIDE DEF row
  <2>1. Cardinality({row[o] : o \in N}) = Cardinality(N)
    <3> HIDE DEF N
    <3>1. QED
      BY <1>1, <1>4, ImagesCount
  <2>2. QED
    BY <1>6, <2>1

\* What the merges have taken away is summed in any order.
LEMMA MergedIsSummed ==
  ASSUME IsFiniteSet(merges), \A m \in merges : Cardinality(m.members) - 1 \in Nat
  PROVE  \E it : IsSum(it, merges, [m \in merges |-> Cardinality(m.members) - 1]) /\ MergedDuplicates = it[merges]
<1> DEFINE S == merges
           c == [m \in S |-> Cardinality(m.members) - 1]
           Fold(f) == f = [s \in SUBSET S |-> IF s = {} THEN 0 ELSE Cardinality(Pick(s).members) - 1 + f[s \ {Pick(s)}]]
           iter == CHOOSE g : Fold(g)
<1>1. PICK f : IsSum(f, S, c)
  <2>1. \A x \in S : c[x] \in Nat
    OBVIOUS
  <2> HIDE DEF c
  <2>2. QED
    BY <2>1, SumExists
<1>2. \A s \in SUBSET S : s # {} => c[Pick(s)] = Cardinality(Pick(s).members) - 1
  BY PickIsMember
<1>3. \A g : Fold(g) <=> IsSum(g, S, c)
  <2> SUFFICES ASSUME NEW g PROVE Fold(g) <=> IsSum(g, S, c)
    OBVIOUS
  <2>1. \A s \in SUBSET S : (IF s = {} THEN 0 ELSE Cardinality(Pick(s).members) - 1 + g[s \ {Pick(s)}])
                              = (IF s = {} THEN 0 ELSE c[Pick(s)] + g[s \ {Pick(s)}])
    <3> HIDE DEF c
    <3>1. QED
      BY <1>2
  <2> HIDE DEF c
  <2>2. QED
    BY <2>1 DEF IsSum
<1>4. Fold(iter)
  <2>1. Fold(f)
    <3> HIDE DEF Fold, c
    <3>1. QED
      BY <1>1, <1>3
  <2> HIDE DEF Fold
  <2>2. QED
    BY <2>1
<1>5. MergedDuplicates = iter[S]
  BY DEF MergedDuplicates, MapThenSumSet, MapThenFoldSet, Pick
<1>6. QED
  <2> HIDE DEF iter, Fold, c
  <2>1. IsSum(iter, S, c)
    BY <1>3, <1>4
  <2>2. QED
    BY <1>5, <2>1 DEF c

\* The publications that are superseded are those the merges have taken away.
LEMMA MergedAreSuperseded ==
  ASSUME exists, reconciled = {}, IInv, DisjointInv
  PROVE  MergedDuplicates = Cardinality(DOMAIN rows \ Live(rows))
<1> DEFINE F == [m \in merges |-> m.members \ {m.canonical}]
           c == [m \in merges |-> Cardinality(m.members) - 1]
<1>1. IsFiniteSet(DOMAIN rows)
  BY DEF IInv, RowsInv
<1>2. \A m \in merges : /\ m.canonical \in m.members /\ m.members \subseteq DOMAIN rows /\ m.members # {m.canonical}
                        /\ \A r \in m.members \ {m.canonical} : rows[r].superseded = m.canonical
  BY DEF IInv, MergesInv
<1>3. ASSUME NEW m \in merges
      PROVE  IsFiniteSet(F[m]) /\ c[m] = Cardinality(F[m]) /\ Cardinality(m.members) - 1 \in Nat
  <2>1. IsFiniteSet(m.members)
    BY <1>1, <1>2, FS_Subset
  <2>2. IsFiniteSet(m.members \ {m.canonical}) /\ Cardinality(m.members \ {m.canonical}) = Cardinality(m.members) - 1
    BY <1>2, <2>1, FS_RemoveElement
  <2>3. Cardinality(m.members \ {m.canonical}) \in Nat
    BY <2>2, FS_CardinalityType
  <2>4. QED
    BY <2>2, <2>3
<1>4. \A m, n \in merges : m # n => F[m] \cap F[n] = {}
  BY DEF DisjointInv
<1>5. IsFiniteSet(merges)
  <2>1. IsFiniteSet(SUBSET DOMAIN rows)
    BY <1>1, FS_SUBSET
  <2>2. \A m \in merges : F[m] \in SUBSET DOMAIN rows /\ F[m] # {}
    BY <1>2
  <2>3. F \in [merges -> SUBSET DOMAIN rows]
    BY <2>2
  <2> HIDE DEF F
  <2>4. \A m, n \in merges : F[m] = F[n] => m = n
    BY <1>4, <2>2
  <2>5. F \in Injection(merges, SUBSET DOMAIN rows)
    BY <2>3, <2>4, Zenon DEF Injection, IsInjective
  <2>6. QED
    BY <2>1, <2>5, FS_Injection
<1>6. \A r : r \in DOMAIN rows \ Live(rows) <=> \E m \in merges : r \in F[m]
  <2>1. \A r \in DOMAIN rows : r # None /\ rows[r].superseded # r
    BY DEF IInv, IdsInv, RowsInv
  <2>2. ASSUME NEW r \in DOMAIN rows, rows[r].superseded # None PROVE \E m \in merges : r \in F[m]
    <3>1. PICK m \in merges : m.canonical = rows[r].superseded /\ r \in m.members
      BY <2>2 DEF IInv, MergesInv
    <3>2. r \in F[m]
      BY <2>1, <3>1
    <3>3. QED
      BY <3>2
  <2>3. ASSUME NEW m \in merges, NEW r \in F[m] PROVE r \in DOMAIN rows /\ rows[r].superseded # None
    <3>1. r \in m.members \ {m.canonical}
      BY <2>3
    <3>2. rows[r].superseded = m.canonical /\ m.canonical \in DOMAIN rows /\ r \in DOMAIN rows
      BY <1>2, <3>1
    <3>3. QED
      BY <2>1, <3>2
  <2> HIDE DEF F
  <2>4. QED
    BY <2>2, <2>3 DEF Live
<1>7. PICK it : IsSum(it, merges, c) /\ MergedDuplicates = it[merges]
  BY <1>3, <1>5, MergedIsSummed
<1> HIDE DEF F, c
<1>8. QED
  <2>1. (\A m \in merges : IsFiniteSet(F[m])) /\ \A m \in merges : c[m] = Cardinality(F[m])
    BY <1>3
  <2>2. QED
    BY <1>4, <1>5, <1>6, <1>7, <2>1, DisjointSetsAdd

\* The flow diagram balances and agrees with the recovery tool.
LEMMA FlowIsBalanced ==
  ASSUME exists, LegacyRows = <<>>, IInv, AccountsInv
  PROVE  FlowBalances
<1> SUFFICES ASSUME Rejected = {}, touched = {}, reconciled = {}, ImportedOnce
             PROVE  Balanced(FlowModel, 0) /\ PrismaReconciliation = SourceAccounting
  BY DEF FlowBalances
<1>1. RecordsInv /\ AuditInv /\ DisjointInv
  BY DEF AccountsInv, RecordsInv
<1>2. Corpus(rows) = Live(rows) /\ RemovedRows = {}
  BY DEF IInv, KeepInv, Corpus, Live, RemovedRows
<1>3. PrismaReconciliation = SourceAccounting
  <2> DEFINE persisted == Cardinality(DOMAIN sources)
             repeated == SkipCount("repeated_occurrence")
             exact == SkipCount("exact_doi")
             recovered == Cardinality({o \in DOMAIN sources : sources[o].status = "recovered"})
             historical == Cardinality(WithoutSource)
             identified == persisted + repeated
             canonical == Cardinality(Corpus(rows))
  <2>1. SourceAccounting = [identified |-> identified, persisted |-> persisted, exact |-> exact, repeated |-> repeated,
                            recovered |-> recovered, canonical |-> canonical, historical |-> historical]
    BY DEF SourceAccounting
  <2>2. canonical = Cardinality(Live(rows))
    BY <1>2
  <2> HIDE DEF persisted, repeated, exact, recovered, historical, identified, canonical
  <2>3. QED
    BY <2>1, <2>2 DEF PrismaReconciliation
<1> DEFINE linked == {o \in DOMAIN sources : sources[o].status = "linked"}
           N == {o \in DOMAIN sources : sources[o].status # "linked"}
<1>4. /\ Cardinality(DOMAIN sources) = Cardinality(linked) + Cardinality(N)
      /\ Cardinality(linked) \in Nat /\ Cardinality(N) \in Nat
  <2>1. IsFiniteSet(linked) /\ IsFiniteSet(N)
    BY <1>1, FS_Subset DEF AuditInv
  <2>2. linked \cap N = {} /\ linked \cup N = DOMAIN sources
    OBVIOUS
  <2> HIDE DEF linked, N
  <2>3. QED
    BY <2>1, <2>2, DisjointUnion
<1>5. Cardinality(linked) = SkipCount("exact_doi")
  BY <1>1, LinkedAreSkipped DEF ImportedOnce
<1>6. Cardinality(N) = Cardinality(DOMAIN rows)
  BY IntroducingAreRows
<1>7. MergedDuplicates = Cardinality(DOMAIN rows \ Live(rows))
  BY <1>1, MergedAreSuperseded
<1>8. /\ Cardinality(DOMAIN rows) = Cardinality(Live(rows)) + MergedDuplicates
      /\ Cardinality(Live(rows)) \in Nat /\ MergedDuplicates \in Nat
  <2>1. IsFiniteSet(DOMAIN rows) /\ Live(rows) \subseteq DOMAIN rows
    BY DEF IInv, RowsInv, Live
  <2>2. IsFiniteSet(Live(rows)) /\ IsFiniteSet(DOMAIN rows \ Live(rows))
    BY <2>1, FS_Subset
  <2>3. Live(rows) \cap (DOMAIN rows \ Live(rows)) = {} /\ Live(rows) \cup (DOMAIN rows \ Live(rows)) = DOMAIN rows
    BY <2>1
  <2>4. /\ Cardinality(Live(rows) \cup (DOMAIN rows \ Live(rows))) = Cardinality(Live(rows)) + Cardinality(DOMAIN rows \ Live(rows))
        /\ Cardinality(Live(rows)) \in Nat /\ Cardinality(DOMAIN rows \ Live(rows)) \in Nat
    BY <2>2, <2>3, DisjointUnion
  <2>5. QED
    BY <1>7, <2>3, <2>4
<1>9. SkipCount("repeated_occurrence") \in Nat
  BY <1>1, FS_Subset, FS_CardinalityType DEF AuditInv, SkipCount
<1>10. IdentifiedBy("provider") + IdentifiedBy("file") + Cardinality(SourcesOf(NoImport))
         = Cardinality(DOMAIN sources) + SkipCount("repeated_occurrence")
  BY <1>1, AllIsIdentified
<1> DEFINE duplicates == SkipCount("exact_doi") + SkipCount("repeated_occurrence") + MergedDuplicates
           removed == IF duplicates # 0 THEN duplicates ELSE Metrics.before_dedup - Metrics.after_dedup
<1>11. /\ FlowModel.databases = IdentifiedBy("provider") /\ FlowModel.other_methods = IdentifiedBy("file")
       /\ FlowModel.after_deduplication = Cardinality(Corpus(rows)) /\ FlowModel.duplicates_removed = removed
       /\ Metrics.before_dedup = Cardinality(DOMAIN rows) - Cardinality(RemovedRows)
       /\ Metrics.after_dedup = Cardinality(Corpus(rows))
  <2>1. /\ Metrics.before_dedup = Cardinality(DOMAIN rows) - Cardinality(RemovedRows)
        /\ Metrics.after_dedup = Cardinality(Corpus(rows))
        /\ Metrics.merged_duplicates = MergedDuplicates
        /\ Metrics.sources = SourceAccounting
    BY DEF Metrics
  <2>2. SourceAccounting.exact = SkipCount("exact_doi") /\ SourceAccounting.repeated = SkipCount("repeated_occurrence")
    BY DEF SourceAccounting
  <2>3. duplicates = Metrics.sources.exact + Metrics.sources.repeated + Metrics.merged_duplicates
    BY <2>1, <2>2
  <2>4. FlowModel = FlowBoxes(Metrics, duplicates)
    BY <2>3 DEF FlowModel, FlowOf
  <2> HIDE DEF duplicates
  <2>5. QED
    BY <2>1, <2>4 DEF FlowBoxes
<1>12. Cardinality(RemovedRows) = 0
  BY <1>2, FS_EmptySet
<1>13. Cardinality(Corpus(rows)) = Cardinality(Live(rows))
  BY <1>2
<1> HIDE DEF linked, N
<1>14. removed = duplicates
  BY <1>4, <1>5, <1>8, <1>9, <1>11, <1>12, <1>13
<1>15. QED
  <2>1. Cardinality(DOMAIN sources) + SkipCount("repeated_occurrence") = Cardinality(Corpus(rows)) + removed
    BY <1>4, <1>5, <1>6, <1>8, <1>9, <1>13, <1>14
  <2>2. Cardinality(Live(rows)) \in Nat /\ removed \in Nat
    BY <1>4, <1>5, <1>8, <1>9, <1>14
  <2> HIDE DEF removed
  <2>3. QED
    BY <1>3, <1>10, <1>11, <1>13, <2>1, <2>2 DEF Balanced

\* The BibTeX parser finds the entries of every file it reads, which are told by
\* their @ outside braces: so it does unless a brace is part of a citation key or
\* of a quoted value, or something stands between an @ and the word comment.
BibtexFilesAreCounted ==
  \A f \in DOMAIN Files :
    Files[f].format # "ris" /\ Uploads[f].ok => Cardinality(Records(f)) = Entries(Files[f].format, Files[f].content)

\* No two entries of a file are the same occurrence.
LEMMA EntriesOccurOnce ==
  ASSUME NEW es, EntriesAreGiven(es)
  PROVE  Cardinality({es[n].occ : n \in DOMAIN es}) = Cardinality(DOMAIN es)
<1>1. PICK k \in Nat : DOMAIN es = 1..k
  BY DEF EntriesAreGiven
<1>2. IsFiniteSet(DOMAIN es)
  BY <1>1, FS_Interval
<1>3. PICK S : S = DOMAIN es
  OBVIOUS
<1>4. PICK occ : occ = [n \in S |-> es[n].occ]
  OBVIOUS
<1>5. IsFiniteSet(S) /\ \A m, n \in S : occ[m] = occ[n] => m = n
  BY <1>2, <1>3, <1>4 DEF EntriesAreGiven
<1>6. Cardinality({occ[n] : n \in S}) = Cardinality(S)
  BY <1>5, ImagesCount, Zenon
<1>7. {es[n].occ : n \in S} = {occ[n] : n \in S}
  BY <1>4
<1>8. QED
  BY <1>3, <1>6, <1>7

\* Every entry of an imported file is accounted for.
LEMMA FileEntriesAreCounted ==
  ASSUME BibtexFilesAreCounted, exists, IInv, RecordsInv, NEW i \in Imported, history[i].file # None
  PROVE  /\ history[i].status # "failed" => Occurrences(i) = Entries(history[i].label, Files[history[i].file].content)
         /\ Identified(i) = Occurrences(i)
<1> DEFINE f == history[i].file
<1>1. f \in DOMAIN Files /\ history[i].label = Files[f].format
  <2>1. history[i] \in HistoryEntries
    BY DEF IInv, HistoryInv, Imported
  <2>2. f \in DOMAIN Files
    BY <2>1 DEF HistoryEntries
  <2>3. QED
    BY <2>2 DEF RecordsInv, FilesInv
<1>2. AuditInv /\ i # NoImport
  BY DEF RecordsInv, IInv, HistoryInv, Imported, NoImport
<1>3. CASE history[i].status = "failed"
  <2>1. SourcesOf(i) = {} /\ \A s \in skips : s.import # i
    BY <1>2, <1>3 DEF AuditInv, SourcesOf, CountedImports
  <2>2. SkipsOf(i, "repeated_occurrence") = {} /\ ~ Audited(i)
    BY <2>1 DEF SkipsOf, Audited
  <2>3. Occurrences(i) = 0
    BY <2>1, <2>2, FS_EmptySet DEF Occurrences
  <2>4. QED
    BY <1>2, <1>3, <2>2, <2>3 DEF AuditInv, Identified
<1>4. CASE history[i].status # "failed"
  <2>1. Uploads[f].ok /\ SourcesOf(i) \cup RepeatedIn(i) = OccurrencesOf(f)
    BY <1>4 DEF RecordsInv, FilesInv
  <2>2. Occurrences(i) = Cardinality(SourcesOf(i) \cup RepeatedIn(i))
    BY <1>2, OccurrencesAreCounted
  <2>3. Cardinality(OccurrencesOf(f)) = Cardinality(Records(f))
    <3>1. EntriesAreGiven(Uploads[f].entries)
      BY <1>1, FilesGiveEntries, Zenon
    <3>2. Cardinality({Uploads[f].entries[n].occ : n \in DOMAIN Uploads[f].entries}) = Cardinality(DOMAIN Uploads[f].entries)
      BY <3>1, EntriesOccurOnce, Zenon
    <3>3. QED
      BY <3>2, Zenon DEF OccurrencesOf, Records
  <2>4. Audited(i)
    BY <1>2, <1>4 DEF AuditInv, CountedImports
  <2>5. Cardinality(Records(f)) = Entries(Files[f].format, Files[f].content)
    BY <1>1, <2>1, RisFilesAreCounted DEF BibtexFilesAreCounted
  <2>6. QED
    BY <1>1, <2>1, <2>2, <2>3, <2>4, <2>5 DEF Identified
<1>5. QED
  BY <1>3, <1>4

\* Together they are what the reports agree on.
LEMMA ReportsOfImportsAgree ==
  ASSUME BibtexFilesAreCounted, IInv, AccountsInv
  PROVE  AccountsAgree
<1> SUFFICES ASSUME exists, LegacyRows = <<>>
             PROVE  EntriesAreCounted /\ FlowBalances /\ (reconciled = {} => Candidates \cap MergedGroups = {})
  BY DEF AccountsAgree
<1>1. RecordsInv /\ AuditInv /\ ReviewsInv /\ AdditionsInv
  BY DEF AccountsInv, RecordsInv
<1>2. EntriesAreCounted
  <2>1. SourceAccounting.identified = Cardinality(DOMAIN sources) + SkipCount("repeated_occurrence")
    BY DEF SourceAccounting
  <2>2. IdentifiedBy("provider") + IdentifiedBy("file") + Cardinality(SourcesOf(NoImport)) = SourceAccounting.identified
    BY <1>1, <2>1, AllIsIdentified
  <2>3. Summaries.total_records = Cardinality(DOMAIN rows)
    BY DEF Summaries
  <2>4. AddedIn(Summaries) = MapThenSumSet(LAMBDA l : Summaries.sources[l].records_added, DOMAIN Summaries.sources)
    BY DEF AddedIn
  <2>5. merges = {} /\ reconciled = {} => Summaries.total_records = Cardinality(RecoveredRecords) + AddedIn(Summaries)
    BY <1>1, <2>3, SummaryHasAllRows DEF Unmerged
  <2>6. \A i \in Imported : history[i].file # None =>
          /\ history[i].status # "failed" => Occurrences(i) = Entries(history[i].label, Files[history[i].file].content)
          /\ Identified(i) = Occurrences(i)
    BY <1>1, FileEntriesAreCounted
  <2>7. QED
    BY <2>2, <2>4, <2>5, <2>6 DEF EntriesAreCounted
<1>3. FlowBalances
  BY FlowIsBalanced
<1>4. reconciled = {} => Candidates \cap MergedGroups = {}
  BY MergedAreNoCandidates
<1>5. QED
  BY <1>2, <1>3, <1>4

\* The records, the additions, the introductions and the merges stay as the
\* accounts need them.
LEMMA AccountsHold == Spec => []AccountsInv
<1>1. Init => AccountsInv
  BY InitiallyAccounts
<1>2. IInv /\ AccountsInv /\ [Next]_vars => AccountsInv'
  BY NextKeepsAccounts
<1>3. QED
  BY <1>1, <1>2, InvariantHolds, PTL DEF Spec

\* The reports on the imports agree with the tables and with each other, in
\* every project: each entry of a file is a source record or a repeated
\* occurrence, the summary has every publication, and the flow diagram balances.
\* The entries of a RIS file are counted by the proof, those of BibTeX files as
\* the assumption has it.
THEOREM AccountsAlwaysAgree ==
  ASSUME BibtexFilesAreCounted
  PROVE  Spec => []AccountsAgree
<1>1. IInv /\ AccountsInv => AccountsAgree
  BY ReportsOfImportsAgree
<1>2. QED
  BY <1>1, InvariantHolds, AccountsHold, PTL

================================================================================
