------------------------------- MODULE SetFacts --------------------------------
(***************************************************************************)
(* Facts that the proofs of several components cite: the largest and the   *)
(* smallest of a set of numbers, induction over numbers and over finite    *)
(* sets, what a fold over a set or a sequence returns, and sums.           *)
(*                                                                         *)
(* Properties are sets here, and steps are functions, so that a lemma can  *)
(* be cited for any of them.                                               *)
(***************************************************************************)
EXTENDS FiniteSetsExt, Sequences, FiniteSetTheorems, WellFoundedInduction, TLAPS

\* A set of naturals that is not empty has a least element, and Min is it.
LEMMA MinOfSet ==
  ASSUME NEW S \in SUBSET Nat, S # {}
  PROVE  Min(S) \in S /\ \A y \in S : Min(S) <= y
<1> DEFINE R == {ss \in Nat \X Nat : ss[1] < ss[2]}
<1>1. OpToRel(<, Nat) = R
  BY Zenon DEF OpToRel
<1>2. IsWellFoundedOn(R, Nat)
  BY <1>1, NatLessThanWellFounded, Zenon
<1>3. PICK x \in S : \A y \in S : <<y, x>> \notin R
  <2> HIDE DEF R
  <2>1. QED
    BY <1>2, WFMin
<1>4. \A y \in S : x <= y
  <2> SUFFICES ASSUME NEW y \in S PROVE x <= y
    OBVIOUS
  <2>1. ~(y < x)
    BY <1>3
  <2>2. QED
    BY <2>1
<1>5. QED
  BY <1>4 DEF Min

\* A set of naturals with a bound that is not empty has a greatest element, and
\* Max is it.
LEMMA MaxOfSet ==
  ASSUME NEW S \in SUBSET Nat, S # {}, NEW n \in Nat, \A y \in S : y <= n
  PROVE  Max(S) \in S /\ \A y \in S : Max(S) >= y
<1> DEFINE T == {n - y : y \in S}
<1>1. T \in SUBSET Nat /\ T # {}
  <2>1. \A y \in S : y \in Nat /\ n - y \in Nat
    OBVIOUS
  <2>2. QED
    BY <2>1
<1>2. Min(T) \in T /\ \A t \in T : Min(T) <= t
  <2> HIDE DEF T
  <2>1. QED
    BY <1>1, MinOfSet
<1>3. PICK x \in S : Min(T) = n - x
  BY <1>2
<1>4. \A y \in S : x >= y
  <2> SUFFICES ASSUME NEW y \in S PROVE x >= y
    OBVIOUS
  <2>1. n - x <= n - y
    BY <1>2, <1>3
  <2>2. x \in Nat /\ y \in Nat
    OBVIOUS
  <2>3. QED
    BY <2>1, <2>2
<1>5. QED
  BY <1>4 DEF Max

\* The positions of a sequence have a greatest element.
LEMMA MaxOfPositions ==
  ASSUME NEW D, NEW s \in Seq(D), NEW S \in SUBSET DOMAIN s, S # {}
  PROVE  Max(S) \in S /\ \A y \in S : Max(S) >= y
<1>1. Len(s) \in Nat /\ DOMAIN s = 1 .. Len(s)
  OBVIOUS
<1>2. S \in SUBSET Nat /\ \A y \in S : y <= Len(s)
  BY <1>1
<1>3. QED
  BY <1>1, <1>2, MaxOfSet

\* Induction over the naturals: a set that has zero and with every number its
\* successor has all of them.
LEMMA NatSetInduction ==
  ASSUME NEW Q, 0 \in Q, \A n \in Nat : n \in Q => n + 1 \in Q
  PROVE  \A n \in Nat : n \in Q
<1> SUFFICES ASSUME NEW k \in Nat, k \notin Q PROVE FALSE
  OBVIOUS
<1> DEFINE B == {n \in Nat : n \notin Q}
<1>1. Min(B) \in B /\ \A y \in B : Min(B) <= y
  <2>1. B \in SUBSET Nat /\ B # {}
    OBVIOUS
  <2> HIDE DEF B
  <2>2. QED
    BY <2>1, MinOfSet
<1>2. PICK m \in B : \A y \in B : m <= y
  BY <1>1
<1>3. m # 0 /\ m \in Nat /\ m - 1 \in Nat /\ m = (m - 1) + 1
  BY <1>2
<1>4. m - 1 \in Q
  BY <1>2, <1>3
<1>5. QED
  BY <1>2, <1>3, <1>4

\* f[n] is what n steps of G make of x, in D.
IsIteration(f, N, D, x, G) ==
  f \in [0..N -> D] /\ \A n \in 0..N : f[n] = IF n = 0 THEN x ELSE G[f[n - 1]]

\* A function of the steps a recursion takes exists, when each step stays in
\* the set of its values.
LEMMA IterationExists ==
  ASSUME NEW D, NEW x \in D, NEW G \in [D -> D], NEW N \in Nat
  PROVE  \E f : IsIteration(f, N, D, x, G)
<1> DEFINE Runs(k, f) == f \in [0..k -> D] /\ \A n \in 0..k : f[n] = IF n = 0 THEN x ELSE G[f[n - 1]]
           Q == {k \in Nat : \E f : Runs(k, f)}
<1>1. 0 \in Q
  <2>1. Runs(0, [n \in 0..0 |-> x])
    OBVIOUS
  <2>2. QED
    BY <2>1
<1>2. \A k \in Nat : k \in Q => k + 1 \in Q
  <2> SUFFICES ASSUME NEW k \in Nat, k \in Q PROVE k + 1 \in Q
    OBVIOUS
  <2>1. PICK f : Runs(k, f)
    OBVIOUS
  <2> DEFINE g == [n \in 0..(k + 1) |-> IF n = k + 1 THEN G[f[k]] ELSE f[n]]
  <2>2. f[k] \in D
    BY <2>1
  <2>3. g \in [0..(k + 1) -> D]
    BY <2>1, <2>2
  <2>4. ASSUME NEW n \in 0..(k + 1) PROVE g[n] = IF n = 0 THEN x ELSE G[g[n - 1]]
    <3>1. CASE n = k + 1
      <4>1. g[n] = G[f[k]] /\ n # 0 /\ n - 1 = k /\ k \in 0..(k+1) /\ k # k + 1
        BY <3>1
      <4>2. g[k] = f[k]
        BY <4>1
      <4>3. QED
        BY <4>1, <4>2
    <3>2. CASE n # k + 1
      <4>1. n \in 0..k /\ g[n] = f[n]
        BY <3>2
      <4>2. CASE n = 0
        BY <4>1, <4>2, <2>1
      <4>3. CASE n # 0
        <5>1. n - 1 \in 0..k /\ n - 1 # k + 1 /\ n - 1 \in 0..(k + 1)
          BY <4>1, <4>3
        <5>2. g[n - 1] = f[n - 1]
          BY <5>1
        <5>3. f[n] = G[f[n - 1]]
          BY <2>1, <4>1, <4>3
        <5>4. QED
          BY <4>1, <4>3, <5>2, <5>3
      <4>4. QED
        BY <4>2, <4>3
    <3>3. QED
      BY <3>1, <3>2
  <2>5. Runs(k + 1, g)
    <3> HIDE DEF g
    <3>1. QED
      BY <2>3, <2>4
  <2>6. \E h : Runs(k + 1, h)
    <3> HIDE DEF Runs
    <3>1. QED
      BY <2>5
  <2>7. QED
    <3> HIDE DEF Runs
    <3>1. QED
      BY <2>6
<1>3. N \in Q
  <2> HIDE DEF Q
  <2>1. QED
    BY <1>1, <1>2, NatSetInduction
<1>4. QED
  BY <1>3 DEF IsIteration

\* Induction over the subsets of a finite set.
LEMMA SubsetInduction ==
  ASSUME NEW S, IsFiniteSet(S), NEW Q,
         \A s \in SUBSET S : (\A t \in SUBSET s : t # s => t \in Q) => s \in Q
  PROVE  \A s \in SUBSET S : s \in Q
<1> DEFINE B == {s \in SUBSET S : s \notin Q}
           N == {Cardinality(s) : s \in B}
<1> SUFFICES ASSUME B # {} PROVE FALSE
  OBVIOUS
<1>1. N \in SUBSET Nat /\ N # {}
  <2>1. \A s \in SUBSET S : Cardinality(s) \in Nat
    BY FS_Subset, FS_CardinalityType
  <2>2. QED
    BY <2>1
<1>2. Min(N) \in N /\ \A y \in N : Min(N) <= y
  <2> HIDE DEF N
  <2>1. QED
    BY <1>1, MinOfSet
<1>3. PICK s \in B : Min(N) = Cardinality(s)
  BY <1>2
<1>4. \A t \in SUBSET s : t # s => t \in Q
  <2> SUFFICES ASSUME NEW t \in SUBSET s, t # s, t \notin Q PROVE FALSE
    OBVIOUS
  <2>1. IsFiniteSet(s) /\ s \in SUBSET S
    BY <1>3, FS_Subset
  <2>2. Cardinality(t) <= Cardinality(s) /\ Cardinality(s) # Cardinality(t)
    BY <2>1, FS_Subset
  <2>3. t \in B
    BY <2>1
  <2>4. Cardinality(s) <= Cardinality(t)
    BY <1>2, <1>3, <2>3
  <2>5. Cardinality(s) \in Nat /\ Cardinality(t) \in Nat
    BY <2>1, FS_Subset, FS_CardinalityType
  <2>6. QED
    BY <2>2, <2>4, <2>5
<1>5. QED
  BY <1>3, <1>4

\* it[s] is the fold of the elements of s, in D.
IsFold(it, S, D, b, C, G) ==
  it \in [SUBSET S -> D] /\ \A s \in SUBSET S : it[s] = IF s = {} THEN b ELSE G[s][it[s \ {C[s]}]]

\* The function a fold over a finite set computes exists, when what the fold
\* does with one element stays in the set of its values: C chooses the element
\* that is folded last, and G[s] is what is done with it.
LEMMA FoldExists ==
  ASSUME NEW S, IsFiniteSet(S), NEW D, NEW b \in D,
         NEW C, \A s \in SUBSET S : s # {} => C[s] \in s,
         NEW G, \A s \in SUBSET S : s # {} => G[s] \in [D -> D]
  PROVE  \E it : IsFold(it, S, D, b, C, G)
<1> DEFINE Small(k) == {s \in SUBSET S : Cardinality(s) <= k}
           Runs(k, f) == /\ f \in [Small(k) -> D]
                         /\ \A s \in Small(k) : f[s] = IF s = {} THEN b ELSE G[s][f[s \ {C[s]}]]
           Q == {k \in Nat : \E f : Runs(k, f)}
<1>0. \A s \in SUBSET S : IsFiniteSet(s) /\ Cardinality(s) \in Nat /\ Cardinality(s) <= Cardinality(S)
  BY FS_Subset, FS_CardinalityType
<1>a. \A s \in SUBSET S : s # {} => s \ {C[s]} \in SUBSET S /\ Cardinality(s \ {C[s]}) = Cardinality(s) - 1
  BY <1>0, FS_RemoveElement
<1>b. {} \in SUBSET S /\ Cardinality({}) = 0 /\ \A s \in SUBSET S : Cardinality(s) = 0 => s = {}
  BY <1>0, FS_EmptySet
<1>1. 0 \in Q
  <2>1. Small(0) = {{}}
    BY <1>0, <1>b
  <2>2. Runs(0, [s \in Small(0) |-> b])
    BY <2>1
  <2>3. QED
    BY <2>2
<1>2. \A k \in Nat : k \in Q => k + 1 \in Q
  <2> SUFFICES ASSUME NEW k \in Nat, k \in Q PROVE k + 1 \in Q
    OBVIOUS
  <2>1. PICK f : Runs(k, f)
    OBVIOUS
  <2> DEFINE g == [s \in Small(k + 1) |-> IF s \in Small(k) THEN f[s] ELSE G[s][f[s \ {C[s]}]]]
  <2>2. ASSUME NEW s \in Small(k + 1), s \notin Small(k) PROVE s # {} /\ s \ {C[s]} \in Small(k)
    <3>1. s \in SUBSET S /\ Cardinality(s) = k + 1
      BY <1>0, <2>2
    <3>2. ASSUME s = {} PROVE FALSE
      <4>1. Cardinality(s) = Cardinality({})
        BY <3>2, Zenon
      <4>2. QED
        BY <1>b, <3>1, <4>1
    <3>3. QED
      BY <1>a, <3>1, <3>2
  <2>3. g \in [Small(k + 1) -> D]
    <3> SUFFICES ASSUME NEW s \in Small(k + 1)
                 PROVE  (IF s \in Small(k) THEN f[s] ELSE G[s][f[s \ {C[s]}]]) \in D
      OBVIOUS
    <3>1. CASE s \in Small(k)
      BY <2>1, <3>1
    <3>2. CASE s \notin Small(k)
      <4>1. f[s \ {C[s]}] \in D
        BY <2>1, <2>2, <3>2
      <4>2. G[s] \in [D -> D]
        BY <2>2, <3>2
      <4>3. QED
        BY <3>2, <4>1, <4>2
    <3>3. QED
      BY <3>1, <3>2
  <2>4. ASSUME NEW s \in Small(k + 1) PROVE g[s] = IF s = {} THEN b ELSE G[s][g[s \ {C[s]}]]
    <3>1. ASSUME s # {} PROVE s \ {C[s]} \in Small(k) /\ s \ {C[s]} \in Small(k + 1)
      BY <1>0, <1>a, <3>1
    <3>2. ASSUME s # {} PROVE g[s \ {C[s]}] = f[s \ {C[s]}]
      BY <3>1, <3>2
    <3>3. CASE s \in Small(k)
      BY <2>1, <3>2, <3>3
    <3>4. CASE s \notin Small(k)
      BY <2>2, <3>2, <3>4
    <3>5. QED
      BY <3>3, <3>4
  <2>5. Runs(k + 1, g)
    <3> HIDE DEF g
    <3>1. QED
      BY <2>3, <2>4
  <2>6. \E h : Runs(k + 1, h)
    <3> HIDE DEF Runs
    <3>1. QED
      BY <2>5
  <2>7. QED
    <3> HIDE DEF Runs
    <3>1. QED
      BY <2>6
<1>3. Cardinality(S) \in Q
  <2> HIDE DEF Q
  <2>1. Cardinality(S) \in Nat
    BY FS_CardinalityType
  <2>2. QED
    BY <1>1, <1>2, <2>1, NatSetInduction
<1>4. PICK f : Runs(Cardinality(S), f)
  BY <1>3
<1>5. Small(Cardinality(S)) = SUBSET S
  BY <1>0
<1>6. f \in [SUBSET S -> D] /\ \A s \in SUBSET S : f[s] = IF s = {} THEN b ELSE G[s][f[s \ {C[s]}]]
  BY <1>4, <1>5
<1>7. QED
  BY <1>6 DEF IsFold

\* Every value such a fold goes through is in a set that it starts in and does
\* not leave.
LEMMA FoldStays ==
  ASSUME NEW S, IsFiniteSet(S), NEW D, NEW C, \A s \in SUBSET S : s # {} => C[s] \in s,
         NEW it, it[{}] \in D,
         \A s \in SUBSET S : s # {} /\ it[s \ {C[s]}] \in D => it[s] \in D
  PROVE  it[S] \in D
<1> DEFINE Q == {s \in SUBSET S : it[s] \in D}
<1>1. ASSUME NEW s \in SUBSET S, \A t \in SUBSET s : t # s => t \in Q PROVE s \in Q
  <2>1. CASE s = {}
    BY <2>1
  <2>2. CASE s # {}
    <3>1. C[s] \in s
      BY <2>2
    <3>2. s \ {C[s]} \in Q
      BY <1>1, <3>1
    <3>3. QED
      BY <2>2, <3>2
  <2>3. QED
    BY <2>1, <2>2
<1>2. \A s \in SUBSET S : s \in Q
  <2> HIDE DEF Q
  <2>1. QED
    BY <1>1, SubsetInduction
<1>3. QED
  BY <1>2

\* The element a fold over a set takes next.
Pick(s) == CHOOSE x \in s : TRUE

\* What a fold over a set takes next is one of its members.
LEMMA PickIsMember == \A s : s # {} => Pick(s) \in s
BY DEF Pick

\* The two forms of fold the models use: over a set, where G[x] is what is done
\* with the element x, and over a sequence, where G[n] is what is done with the
\* n-th element.
IsSetFold(it, S, D, b, G) ==
  it \in [SUBSET S -> D] /\ \A s \in SUBSET S : it[s] = IF s = {} THEN b ELSE G[Pick(s)][it[s \ {Pick(s)}]]

IsSequenceFold(it, q, D, b, G) ==
  /\ it \in [SUBSET DOMAIN q -> D]
  /\ \A s \in SUBSET DOMAIN q : it[s] = IF s = {} THEN b ELSE G[Max(s)][it[s \ {Max(s)}]]

\* Every fold over a finite set whose steps stay in D has its function.
LEMMA SetFoldExists ==
  ASSUME NEW S, IsFiniteSet(S), NEW D, NEW b \in D, NEW G, \A x \in S : G[x] \in [D -> D]
  PROVE  \E it : IsSetFold(it, S, D, b, G)
<1> DEFINE C == [s \in SUBSET S |-> Pick(s)]
           H == [s \in SUBSET S |-> G[Pick(s)]]
<1>1. \A s \in SUBSET S : s # {} => C[s] \in s
  BY PickIsMember
<1>2. \A s \in SUBSET S : s # {} => H[s] \in [D -> D]
  BY PickIsMember
<1>3. PICK it : IsFold(it, S, D, b, C, H)
  <2> HIDE DEF C, H
  <2>1. QED
    BY <1>1, <1>2, FoldExists
<1>4. IsSetFold(it, S, D, b, G)
  BY <1>3 DEF IsFold, IsSetFold
<1>5. QED
  BY <1>4

\* A fold over a finite set ends where every one of its steps stays.
LEMMA SetFoldStays ==
  ASSUME NEW S, IsFiniteSet(S), NEW D, NEW it, it[{}] \in D,
         \A s \in SUBSET S : s # {} /\ it[s \ {Pick(s)}] \in D => it[s] \in D
  PROVE  it[S] \in D
<1> DEFINE C == [s \in SUBSET S |-> Pick(s)]
<1>1. \A s \in SUBSET S : s # {} => C[s] \in s
  BY PickIsMember
<1>2. \A s \in SUBSET S : s # {} /\ it[s \ {C[s]}] \in D => it[s] \in D
  OBVIOUS
<1>3. QED
  <2> HIDE DEF C
  <2>1. QED
    BY <1>1, <1>2, FoldStays

\* The positions of a sequence are a finite set, and any of them have a last one.
LEMMA LastPosition ==
  ASSUME NEW T, NEW q \in Seq(T)
  PROVE  /\ IsFiniteSet(DOMAIN q)
         /\ \A s \in SUBSET DOMAIN q : s # {} => Max(s) \in s
<1>1. DOMAIN q = 1 .. Len(q) /\ Len(q) \in Int /\ 1 \in Int
  OBVIOUS
<1>2. IsFiniteSet(DOMAIN q)
  BY <1>1, FS_Interval
<1>3. QED
  BY <1>2, MaxOfPositions

\* Every fold over a sequence whose steps stay in D has its function.
LEMMA SequenceFoldExists ==
  ASSUME NEW T, NEW q \in Seq(T), NEW D, NEW b \in D, NEW G, \A n \in DOMAIN q : G[n] \in [D -> D]
  PROVE  \E it : IsSequenceFold(it, q, D, b, G)
<1> DEFINE C == [s \in SUBSET DOMAIN q |-> Max(s)]
           H == [s \in SUBSET DOMAIN q |-> G[Max(s)]]
<1>1. \A s \in SUBSET DOMAIN q : s # {} => C[s] \in s
  BY LastPosition
<1>2. \A s \in SUBSET DOMAIN q : s # {} => H[s] \in [D -> D]
  BY LastPosition
<1>3. PICK it : IsFold(it, DOMAIN q, D, b, C, H)
  <2> HIDE DEF C, H
  <2>1. QED
    BY <1>1, <1>2, LastPosition, FoldExists
<1>4. IsSequenceFold(it, q, D, b, G)
  BY <1>3 DEF IsFold, IsSequenceFold
<1>5. QED
  BY <1>4

\* A fold over a sequence ends where every one of its steps stays.
LEMMA SequenceFoldStays ==
  ASSUME NEW T, NEW q \in Seq(T), NEW D, NEW it, it[{}] \in D,
         \A s \in SUBSET DOMAIN q : s # {} /\ it[s \ {Max(s)}] \in D => it[s] \in D
  PROVE  it[DOMAIN q] \in D
<1> DEFINE C == [s \in SUBSET DOMAIN q |-> Max(s)]
<1>1. \A s \in SUBSET DOMAIN q : s # {} => C[s] \in s
  BY LastPosition
<1>2. \A s \in SUBSET DOMAIN q : s # {} /\ it[s \ {C[s]}] \in D => it[s] \in D
  OBVIOUS
<1>3. QED
  <2> HIDE DEF C
  <2>1. QED
    BY <1>1, <1>2, LastPosition, FoldStays

\* A function on an initial interval is a sequence.
LEMMA ListedIsSequence ==
  \A T : \A n \in Nat : \A g \in [1..n -> T] : g \in Seq(T)
OBVIOUS

\* A sum over the subsets of S: it takes the members off one by one, in the
\* order a fold picks them.
IsSum(it, S, c) ==
  it = [s \in SUBSET S |-> IF s = {} THEN 0 ELSE c[Pick(s)] + it[s \ {Pick(s)}]]

\* A finite set of naturals has a sum over each of its subsets.
LEMMA SumExists ==
  ASSUME NEW S, IsFiniteSet(S), NEW c, \A x \in S : c[x] \in Nat
  PROVE  \E it : IsSum(it, S, c)
<1> DEFINE G == [x \in S |-> [n \in Nat |-> c[x] + n]]
<1>1. \A x \in S : G[x] \in [Nat -> Nat]
  OBVIOUS
<1>2. PICK it : IsSetFold(it, S, Nat, 0, G)
  <2> HIDE DEF G
  <2>1. QED
    BY <1>1, SetFoldExists
<1>3. ASSUME NEW s \in SUBSET S, s # {}
      PROVE  G[Pick(s)][it[s \ {Pick(s)}]] = c[Pick(s)] + it[s \ {Pick(s)}]
  <2>1. it[s \ {Pick(s)}] \in Nat /\ Pick(s) \in S
    BY <1>2, <1>3, PickIsMember DEF IsSetFold
  <2>2. QED
    BY <2>1
<1>4. IsSum(it, S, c)
  <2> HIDE DEF G
  <2>1. QED
    BY <1>2, <1>3 DEF IsSetFold, IsSum
<1>5. QED
  BY <1>4

\* Such a sum is a natural number.
LEMMA SumIsNatural ==
  ASSUME NEW S, NEW c, NEW it, IsFiniteSet(S), \A x \in S : c[x] \in Nat, IsSum(it, S, c)
  PROVE  \A s \in SUBSET S : it[s] \in Nat
<1> DEFINE Q == {s \in SUBSET S : it[s] \in Nat}
<1>1. ASSUME NEW s \in SUBSET S, \A t \in SUBSET s : t # s => t \in Q PROVE s \in Q
  <2>1. CASE s = {}
    BY <2>1 DEF IsSum
  <2>2. CASE s # {}
    <3>1. Pick(s) \in s
      BY <2>2, PickIsMember
    <3>2. s \ {Pick(s)} \in Q
      BY <1>1, <3>1
    <3>3. it[s] = c[Pick(s)] + it[s \ {Pick(s)}]
      BY <2>2 DEF IsSum
    <3>4. QED
      BY <3>1, <3>2, <3>3
  <2>3. QED
    BY <2>1, <2>2
<1>2. \A s \in SUBSET S : s \in Q
  <2> HIDE DEF Q
  <2>1. QED
    BY <1>1, SubsetInduction
<1>3. QED
  BY <1>2

\* The order does not matter: any member can be taken off first.
TakesOff(it, S, c) == \A s \in SUBSET S : \A x \in s : it[s] = c[x] + it[s \ {x}]

\* A sum is what any member brings and the sum of the rest, whichever member is taken.
LEMMA SumTakesOff ==
  ASSUME NEW S, NEW c, NEW it, IsFiniteSet(S), \A x \in S : c[x] \in Nat, IsSum(it, S, c)
  PROVE  TakesOff(it, S, c)
<1> DEFINE Q == {s \in SUBSET S : \A x \in s : it[s] = c[x] + it[s \ {x}]}
<1>0. \A s \in SUBSET S : it[s] \in Nat
  BY SumIsNatural
<1>1. ASSUME NEW s \in SUBSET S, \A t \in SUBSET s : t # s => t \in Q PROVE s \in Q
  <2> SUFFICES ASSUME NEW x \in s PROVE it[s] = c[x] + it[s \ {x}]
    OBVIOUS
  <2> DEFINE y == Pick(s)
  <2>1. y \in s /\ it[s] = c[y] + it[s \ {y}]
    BY PickIsMember DEF IsSum
  <2>2. CASE x = y
    BY <2>1, <2>2
  <2>3. CASE x # y
    <3> HIDE DEF y
    <3>1. s \ {y} \in Q /\ s \ {x} \in Q /\ x \in s \ {y} /\ y \in s \ {x}
      BY <1>1, <2>1, <2>3
    <3>2. it[s \ {y}] = c[x] + it[(s \ {y}) \ {x}] /\ it[s \ {x}] = c[y] + it[(s \ {x}) \ {y}]
      BY <3>1
    <3>3. (s \ {y}) \ {x} = (s \ {x}) \ {y} /\ (s \ {x}) \ {y} \in SUBSET S /\ s \ {y} \in SUBSET S /\ s \ {x} \in SUBSET S
      OBVIOUS
    <3>4. c[x] \in Nat /\ c[y] \in Nat /\ it[(s \ {x}) \ {y}] \in Nat
      BY <1>0, <2>1, <3>3
    <3>5. it[s] = c[y] + (c[x] + it[(s \ {x}) \ {y}]) /\ it[s \ {x}] = c[y] + it[(s \ {x}) \ {y}]
      <4>1. it[(s \ {y}) \ {x}] = it[(s \ {x}) \ {y}]
        BY <3>3
      <4>2. QED
        BY <2>1, <3>2, <4>1
    <3>6. \A a, b, d \in Nat : a + (b + d) = b + (a + d)
      OBVIOUS
    <3>7. QED
      BY <3>4, <3>5, <3>6
  <2>4. QED
    BY <2>2, <2>3
<1>2. \A s \in SUBSET S : s \in Q
  <2> HIDE DEF Q
  <2>1. QED
    BY <1>1, SubsetInduction
<1>3. QED
  BY <1>2 DEF TakesOff

\* Sums of the same values agree.
LEMMA SumsAgree ==
  ASSUME NEW S, NEW T, NEW c, NEW e, NEW it, NEW jt, IsSum(it, S, c), IsSum(jt, T, e),
         IsFiniteSet(S), S \subseteq T, \A x \in S : c[x] = e[x]
  PROVE  \A s \in SUBSET S : it[s] = jt[s]
<1> DEFINE Q == {s \in SUBSET S : it[s] = jt[s]}
<1>1. ASSUME NEW s \in SUBSET S, \A t \in SUBSET s : t # s => t \in Q PROVE s \in Q
  <2>1. CASE s = {}
    BY <2>1 DEF IsSum
  <2>2. CASE s # {}
    <3>1. Pick(s) \in s
      BY <2>2, PickIsMember
    <3>2. s \ {Pick(s)} \in Q
      BY <1>1, <3>1
    <3>3. it[s] = c[Pick(s)] + it[s \ {Pick(s)}] /\ jt[s] = e[Pick(s)] + jt[s \ {Pick(s)}]
      BY <2>2 DEF IsSum
    <3>4. QED
      BY <3>1, <3>2, <3>3
  <2>3. QED
    BY <2>1, <2>2
<1>2. \A s \in SUBSET S : s \in Q
  <2> HIDE DEF Q
  <2>1. QED
    BY <1>1, SubsetInduction
<1>3. QED
  BY <1>2

\* What a set is summed to by a function.
SumOver(c, S) == MapThenSumSet(LAMBDA x : c[x], S)

\* It is a sum in the sense above.
LEMMA SumOverIsSum ==
  ASSUME NEW S, IsFiniteSet(S), NEW c, \A x \in S : c[x] \in Nat
  PROVE  \E it : IsSum(it, S, c) /\ SumOver(c, S) = it[S]
<1> DEFINE iter == CHOOSE g : IsSum(g, S, c)
<1>1. IsSum(iter, S, c)
  <2>1. PICK f : IsSum(f, S, c)
    BY SumExists
  <2>2. QED
    BY <2>1
<1>2. SumOver(c, S) = iter[S]
  BY DEF SumOver, MapThenSumSet, MapThenFoldSet, Pick, IsSum
<1> HIDE DEF iter
<1>3. QED
  BY <1>1, <1>2

\* The pairs of a member of s and a member of its set.
PairsOf(s, F) == UNION {{x} \X F[x] : x \in s}

\* A set has as many members as there are pairs of one thing with them.
LEMMA PairsWithOne ==
  ASSUME NEW x, NEW T, IsFiniteSet(T)
  PROVE  IsFiniteSet({x} \X T) /\ Cardinality({x} \X T) = Cardinality(T)
<1> DEFINE f == [t \in T |-> <<x, t>>]
<1>1. f \in [T -> {x} \X T] /\ \A w \in {x} \X T : \E t \in T : f[t] = w
  OBVIOUS
<1>2. \A a, b \in T : f[a] = f[b] => a = b
  OBVIOUS
<1> HIDE DEF f
<1>3. f \in Bijection(T, {x} \X T)
  BY <1>1, <1>2, Zenon DEF Bijection, Injection, Surjection, IsInjective
<1>4. QED
  BY <1>3, FS_Bijection DEF ExistsBijection

\* The sizes of some sets sum up to the number of pairs.
LEMMA SumIsPairs ==
  ASSUME NEW S, IsFiniteSet(S), NEW F, \A x \in S : IsFiniteSet(F[x]), NEW c,
         \A x \in S : c[x] = Cardinality(F[x]), NEW it, IsSum(it, S, c)
  PROVE  IsFiniteSet(PairsOf(S, F)) /\ it[S] = Cardinality(PairsOf(S, F))
<1> DEFINE Q == {s \in SUBSET S : IsFiniteSet(PairsOf(s, F)) /\ it[s] = Cardinality(PairsOf(s, F))}
<1>1. ASSUME NEW s \in SUBSET S, \A t \in SUBSET s : t # s => t \in Q PROVE s \in Q
  <2>1. CASE s = {}
    <3>1. PairsOf(s, F) = {} /\ it[s] = 0
      BY <2>1 DEF PairsOf, IsSum
    <3>2. QED
      BY <3>1, FS_EmptySet
  <2>2. CASE s # {}
    <3> DEFINE m == Pick(s)
               A == {m} \X F[m]
               B == PairsOf(s \ {m}, F)
    <3>1. m \in s /\ m \in S
      BY <2>2, PickIsMember
    <3>2. IsFiniteSet(B) /\ it[s \ {m}] = Cardinality(B)
      BY <1>1, <3>1
    <3>3. it[s] = c[m] + it[s \ {m}]
      BY <2>2 DEF IsSum
    <3> HIDE DEF m
    <3>4. PairsOf(s, F) = A \cup B /\ A \cap B = {}
      BY <3>1 DEF PairsOf
    <3>5. IsFiniteSet(A) /\ Cardinality(A) = c[m]
      BY <3>1, PairsWithOne
    <3> HIDE DEF A, B
    <3>6. IsFiniteSet(A \cup B) /\ Cardinality(A \cup B) = Cardinality(A) + Cardinality(B) - Cardinality(A \cap B)
      BY <3>2, <3>5, FS_Union
    <3>7. Cardinality(A) \in Nat /\ Cardinality(B) \in Nat /\ Cardinality(A \cap B) = 0
      BY <3>2, <3>4, <3>5, FS_CardinalityType, FS_EmptySet
    <3>8. Cardinality(A \cup B) = Cardinality(A) + Cardinality(B)
      BY <3>6, <3>7
    <3>9. QED
      BY <3>2, <3>3, <3>4, <3>5, <3>6, <3>8
  <2>3. QED
    BY <2>1, <2>2
<1>2. \A s \in SUBSET S : s \in Q
  <2> HIDE DEF Q
  <2>1. QED
    BY <1>1, SubsetInduction
<1>3. QED
  BY <1>2

\* Counting pairs from either side gives the same.
LEMMA DoubleCount ==
  ASSUME NEW X, IsFiniteSet(X), NEW Y, IsFiniteSet(Y), NEW R, NEW V,
         \A x \in X : R[x] \in SUBSET Y, \A y \in Y : V[y] \in SUBSET X,
         \A x \in X : \A y \in Y : y \in R[x] <=> x \in V[y],
         NEW c, \A x \in X : c[x] = Cardinality(R[x]), NEW it, IsSum(it, X, c),
         NEW e, \A y \in Y : e[y] = Cardinality(V[y]), NEW jt, IsSum(jt, Y, e)
  PROVE  it[X] = jt[Y]
<1> DEFINE f == [w \in PairsOf(X, R) |-> <<w[2], w[1]>>]
<1>1. \A x \in X : IsFiniteSet(R[x])
  BY FS_Subset
<1>2. \A y \in Y : IsFiniteSet(V[y])
  BY FS_Subset
<1>3. \A u, v : <<u, v>> \in PairsOf(X, R) <=> <<v, u>> \in PairsOf(Y, V)
  BY DEF PairsOf
<1>4. /\ \A w \in PairsOf(X, R) : w = <<w[1], w[2]>>
      /\ \A w \in PairsOf(Y, V) : w = <<w[1], w[2]>>
  BY DEF PairsOf
<1>5. /\ f \in [PairsOf(X, R) -> PairsOf(Y, V)]
      /\ \A a, b \in PairsOf(X, R) : f[a] = f[b] => a = b
      /\ \A w \in PairsOf(Y, V) : \E a \in PairsOf(X, R) : f[a] = w
  <2>1. ASSUME NEW a \in PairsOf(X, R) PROVE f[a] \in PairsOf(Y, V) /\ f[a][1] = a[2] /\ f[a][2] = a[1]
    BY <1>3, <1>4
  <2>2. ASSUME NEW w \in PairsOf(Y, V) PROVE \E a \in PairsOf(X, R) : f[a] = w
    <3>1. <<w[2], w[1]>> \in PairsOf(X, R)
      BY <1>3, <1>4
    <3>2. f[<<w[2], w[1]>>] = w
      BY <1>4, <3>1
    <3>3. QED
      BY <3>1, <3>2
  <2>3. f = [w \in PairsOf(X, R) |-> f[w]]
    OBVIOUS
  <2> HIDE DEF f
  <2>4. \A a, b \in PairsOf(X, R) : f[a] = f[b] => a = b
    BY <1>4, <2>1
  <2>5. f \in [PairsOf(X, R) -> PairsOf(Y, V)]
    BY <2>1, <2>3
  <2>6. QED
    BY <2>2, <2>4, <2>5
<1> HIDE DEF f
<1>6. f \in Bijection(PairsOf(X, R), PairsOf(Y, V))
  BY <1>5, Zenon DEF Bijection, Injection, Surjection, IsInjective
<1>7. IsFiniteSet(PairsOf(X, R)) /\ it[X] = Cardinality(PairsOf(X, R))
  BY <1>1, SumIsPairs
<1>8. jt[Y] = Cardinality(PairsOf(Y, V))
  BY <1>2, SumIsPairs
<1>9. QED
  BY <1>6, <1>7, <1>8, FS_Bijection DEF ExistsBijection

\* The sizes of sets that have nothing in common sum up to the size of their union.
LEMMA DisjointSetsAdd ==
  ASSUME NEW S, IsFiniteSet(S), NEW F, \A x \in S : IsFiniteSet(F[x]),
         \A x, y \in S : x # y => F[x] \cap F[y] = {},
         NEW c, \A x \in S : c[x] = Cardinality(F[x]), NEW it, IsSum(it, S, c),
         NEW U, \A u : u \in U <=> \E x \in S : u \in F[x]
  PROVE  IsFiniteSet(U) /\ it[S] = Cardinality(U)
<1> DEFINE P == PairsOf(S, F)
           f == [w \in P |-> w[2]]
<1>1. IsFiniteSet(P) /\ it[S] = Cardinality(P)
  BY SumIsPairs
<1>2. \A w \in P : w[1] \in S /\ w[2] \in F[w[1]] /\ w = <<w[1], w[2]>>
  BY DEF PairsOf
<1>3. \A u \in U : \E x \in S : <<x, u>> \in P
  BY DEF PairsOf
<1> HIDE DEF P
<1>4. f \in [P -> U] /\ \A u \in U : \E w \in P : f[w] = u
  BY <1>2, <1>3
<1>5. \A v, w \in P : f[v] = f[w] => v = w
  <2> SUFFICES ASSUME NEW v \in P, NEW w \in P, v[2] = w[2] PROVE v = w
    OBVIOUS
  <2>1. v[2] \in F[v[1]] \cap F[w[1]]
    BY <1>2
  <2>2. v[1] = w[1]
    BY <1>2, <2>1
  <2>3. v = <<v[1], v[2]>> /\ w = <<w[1], w[2]>>
    BY <1>2
  <2>4. QED
    BY <2>2, <2>3
<1> HIDE DEF f
<1>6. f \in Bijection(P, U)
  BY <1>4, <1>5, Zenon DEF Bijection, Injection, Surjection, IsInjective
<1>7. IsFiniteSet(U) /\ Cardinality(U) = Cardinality(P)
  BY <1>1, <1>6, FS_Bijection DEF ExistsBijection
<1>8. QED
  BY <1>1, <1>7

\* Two sets without a common member have as many members together as each.
LEMMA DisjointUnion ==
  ASSUME NEW S, NEW T, IsFiniteSet(S), IsFiniteSet(T), S \cap T = {}
  PROVE  /\ IsFiniteSet(S \cup T) /\ Cardinality(S \cup T) = Cardinality(S) + Cardinality(T)
         /\ Cardinality(S) \in Nat /\ Cardinality(T) \in Nat
<1>1. IsFiniteSet(S \cup T) /\ Cardinality(S \cup T) = Cardinality(S) + Cardinality(T) - Cardinality(S \cap T)
  BY FS_Union
<1>2. Cardinality(S) \in Nat /\ Cardinality(T) \in Nat /\ Cardinality(S \cap T) = 0
  BY FS_CardinalityType, FS_EmptySet
<1>3. QED
  BY <1>1, <1>2

\* Things that are told apart by f are as many as their images.
LEMMA ImagesCount ==
  ASSUME NEW S, IsFiniteSet(S), NEW f, \A x, y \in S : f[x] = f[y] => x = y
  PROVE  IsFiniteSet({f[x] : x \in S}) /\ Cardinality({f[x] : x \in S}) = Cardinality(S)
<1> DEFINE T == {f[x] : x \in S}
           g == [x \in S |-> f[x]]
<1>1. g \in [S -> T] /\ (\A y \in T : \E x \in S : g[x] = y) /\ \A x, y \in S : g[x] = g[y] => x = y
  OBVIOUS
<1> HIDE DEF T, g
<1>2. g \in Bijection(S, T)
  BY <1>1, Zenon DEF Bijection, Injection, Surjection, IsInjective
<1>3. QED
  BY <1>2, FS_Bijection DEF ExistsBijection, T

\* The images of a finite set are finite.
LEMMA ImageIsFinite ==
  ASSUME NEW S, IsFiniteSet(S), NEW f
  PROVE  IsFiniteSet({f[x] : x \in S})
<1> DEFINE T == {f[x] : x \in S}
           g == [x \in S |-> f[x]]
<1>1. g \in [S -> T] /\ \A y \in T : \E x \in S : g[x] = y
  OBVIOUS
<1> HIDE DEF T, g
<1>2. g \in Surjection(S, T)
  BY <1>1 DEF Surjection
<1>3. QED
  BY <1>2, FS_Surjection DEF T

================================================================================
