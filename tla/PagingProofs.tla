------------------------------ MODULE PagingProofs ------------------------------
(***************************************************************************)
(* What is proved of Paging for every set of records, every holding of the *)
(* providers and every bound: its types, that it implements RecordStream,  *)
(* and that no record a provider maps is missing before the caller's cursor.*)
(***************************************************************************)
EXTENDS Paging, TLAPS, FiniteSetTheorems

Place == Nat \X Nat

----------------------------------------------------------------------------
(* The order of the places, and what lies between them *)

\* The places are ordered.
LEMMA UptoOrder ==
  ASSUME NEW a \in Place, NEW b \in Place, NEW c \in Place
  PROVE  /\ Stream!Upto(a, a)
         /\ Stream!Upto(a, b) \/ Stream!Upto(b, a)
         /\ Stream!Upto(a, b) /\ Stream!Upto(b, c) => Stream!Upto(a, c)
  BY DEF Stream!Upto, Place

\* What is owed of a stretch falls apart at every place in it.
LEMMA OwedSplits ==
  ASSUME NEW a \in Place, NEW b \in Place, NEW c \in Place, NEW cuts,
         upstream \in Seq(Seq(Records)), Stream!Upto(a, b), Stream!Upto(b, c)
  PROVE  Stream!Owed(a, c, cuts) = Stream!Owed(a, b, cuts) \cup Stream!Owed(b, c, cuts)
<1>1. ASSUME NEW q \in DOMAIN upstream, NEW i \in DOMAIN upstream[q]
      PROVE  Stream!Lies(q, i, a, c) <=> Stream!Lies(q, i, a, b) \/ Stream!Lies(q, i, b, c)
  <2>1. q \in Nat /\ upstream[q] \in Seq(Records)
    OBVIOUS
  <2>2. i \in Nat
    BY <2>1
  <2> QED
    BY <2>1, <2>2 DEF Stream!Lies, Stream!Upto, Place
<1> QED
  BY <1>1 DEF Stream!Owed

\* A stretch within another one owes no other works, and fewer when more is cut.
LEMMA OwedWithin ==
  ASSUME NEW a \in Place, NEW b \in Place, NEW c \in Place, NEW d \in Place,
         NEW cuts, NEW more, cuts \subseteq more,
         upstream \in Seq(Seq(Records)), Stream!Upto(a, b), Stream!Upto(c, d)
  PROVE  Stream!Owed(b, c, more) \subseteq Stream!Owed(a, d, cuts)
<1>1. ASSUME NEW q \in DOMAIN upstream, NEW i \in DOMAIN upstream[q]
      PROVE  Stream!Lies(q, i, b, c) => Stream!Lies(q, i, a, d)
  <2>1. q \in Nat /\ upstream[q] \in Seq(Records)
    OBVIOUS
  <2>2. i \in Nat
    BY <2>1
  <2> QED
    BY <2>1, <2>2, SMTT(30) DEF Stream!Lies, Stream!Upto, Place
<1>2. \A q, i : Stream!Cut(q, i, cuts) => Stream!Cut(q, i, more)
  BY DEF Stream!Cut
<1> QED
  BY <1>1, <1>2 DEF Stream!Owed

\* Nothing is owed between a place and an earlier one.
LEMMA OwedEmpty ==
  ASSUME NEW a \in Place, NEW b \in Place, NEW cuts,
         upstream \in Seq(Seq(Records)), Stream!Upto(b, a)
  PROVE  Stream!Owed(a, b, cuts) = {}
<1>1. ASSUME NEW q \in DOMAIN upstream, NEW i \in DOMAIN upstream[q]
      PROVE  ~ Stream!Lies(q, i, a, b)
  <2>1. q \in Nat /\ upstream[q] \in Seq(Records)
    OBVIOUS
  <2>2. i \in Nat
    BY <2>1
  <2> QED
    BY <2>1, <2>2 DEF Stream!Lies, Stream!Upto, Place
<1> QED
  BY <1>1 DEF Stream!Owed

\* A set of finitely many places has finitely many images.
LEMMA FiniteImage ==
  ASSUME NEW S, IsFiniteSet(S), NEW f
  PROVE  IsFiniteSet({f[x] : x \in S})
<1> DEFINE g == [x \in S |-> f[x]]
           T == {f[x] : x \in S}
<1>1. g \in Surjection(S, T)
  BY DEF Surjection
<1>2. IsFiniteSet(T)
  BY <1>1, FS_Surjection
<1> QED
  BY <1>2

\* The records a provider maps are records.
LEMMA AcceptedRecords ==
  ASSUME BoundsAssumption, provider \in Providers
  PROVE  Accepted \subseteq Records
<1>1. provider \in {"crossref", "openalex", "semantic_scholar"}
  BY DEF BoundsAssumption
<1> QED
  BY <1>1 DEF Accepted, CrossrefMaps, OpenAlexMaps, SemanticScholarMaps, BoundsAssumption

\* A stretch has works, finitely many of them.
LEMMA BetweenFinite ==
  ASSUME NEW a, NEW b, upstream \in Seq(Seq(Records)), Accepted \subseteq Records, BoundsAssumption
  PROVE  Stream!Between(a, b) \subseteq Works /\ IsFiniteSet(Stream!Between(a, b))
<1> DEFINE spots(q) == {WorkOf[upstream[q][i]] : i \in DOMAIN upstream[q]}
           rows == {spots(q) : q \in DOMAIN upstream}
           all == UNION rows
<1>1. ASSUME NEW q \in DOMAIN upstream PROVE IsFiniteSet(spots(q))
  <2> DEFINE f == [i \in DOMAIN upstream[q] |-> WorkOf[upstream[q][i]]]
  <2>1. upstream[q] \in Seq(Records)
    OBVIOUS
  <2>2. DOMAIN upstream[q] = 1..Len(upstream[q]) /\ Len(upstream[q]) \in Int /\ 1 \in Int
    BY <2>1
  <2>3. IsFiniteSet(DOMAIN upstream[q])
    BY <2>2, FS_Interval
  <2>4. IsFiniteSet({f[i] : i \in DOMAIN upstream[q]})
    <3> DEFINE S == DOMAIN upstream[q]
    <3>1. IsFiniteSet(S)
      BY <2>3
    <3> HIDE DEF f, S
    <3>2. IsFiniteSet({f[i] : i \in S})
      BY <3>1, FiniteImage, ZenonT(30)
    <3> QED
      BY <3>2 DEF S
  <2>5. spots(q) = {f[i] : i \in DOMAIN upstream[q]}
    OBVIOUS
  <2> QED
    BY <2>4, <2>5
<1>2. IsFiniteSet(rows)
  <2> DEFINE f == [q \in DOMAIN upstream |-> spots(q)]
  <2>1. DOMAIN upstream = 1..Len(upstream) /\ Len(upstream) \in Int /\ 1 \in Int
    OBVIOUS
  <2>2. IsFiniteSet(DOMAIN upstream)
    BY <2>1, FS_Interval
  <2>3. IsFiniteSet({f[q] : q \in DOMAIN upstream})
    <3> HIDE DEF f
    <3> QED
      BY <2>2, FiniteImage, ZenonT(30)
  <2>4. rows = {f[q] : q \in DOMAIN upstream}
    OBVIOUS
  <2> QED
    BY <2>3, <2>4
<1>3. \A T \in rows : IsFiniteSet(T)
  BY <1>1
<1>4. IsFiniteSet(all)
  <2> HIDE DEF rows
  <2> QED
    BY <1>2, <1>3, FS_UNION
<1>5. Stream!Between(a, b) \subseteq all
  BY DEF Stream!Between, Stream!Owed
<1>6. IsFiniteSet(Stream!Between(a, b))
  <2> HIDE DEF all
  <2> QED
    BY <1>4, <1>5, FS_Subset
<1>7. Stream!Between(a, b) \subseteq Works
  BY DEF Stream!Between, Stream!Owed, BoundsAssumption
<1> QED
  BY <1>6, <1>7

\* What a place is.
LEMMA PlaceShape ==
  ASSUME upstream \in Seq(Seq(Records))
  PROVE  /\ Stream!Places \subseteq Place
         /\ Len(upstream) \in Nat /\ DOMAIN upstream = 1 .. Len(upstream)
         /\ \A q \in DOMAIN upstream : Len(upstream[q]) \in Nat
         /\ \A p \in Place : p \in Stream!Places <=>
              \/ p[1] \in DOMAIN upstream /\ p[2] <= Len(upstream[p[1]])
              \/ p = End
<1>1. Len(upstream) \in Nat /\ DOMAIN upstream = 1 .. Len(upstream)
  OBVIOUS
<1>2. ASSUME NEW q \in DOMAIN upstream PROVE Len(upstream[q]) \in Nat
  <2>1. upstream[q] \in Seq(Records)
    OBVIOUS
  <2> QED
    BY <2>1
<1>3. ASSUME NEW p
      PROVE  p \in Stream!Places <=>
          (\E q \in DOMAIN upstream : \E i \in 0 .. Len(upstream[q]) : p = <<q, i>>) \/ p = End
  BY DEF Stream!Places, End
<1>4. ASSUME NEW p \in Place
      PROVE  p \in Stream!Places <=>
               (p[1] \in DOMAIN upstream /\ p[2] <= Len(upstream[p[1]])) \/ p = End
  <2>1. p = <<p[1], p[2]>> /\ p[1] \in Nat /\ p[2] \in Nat
    BY DEF Place
  <2>2. p[1] \in DOMAIN upstream =>
          (p[2] \in 0 .. Len(upstream[p[1]]) <=> p[2] <= Len(upstream[p[1]]))
    BY <1>2, <2>1
  <2>3. p \in Stream!Places <=>
          (\E q \in DOMAIN upstream : \E i \in 0 .. Len(upstream[q]) : p = <<q, i>>) \/ p = End
    BY <1>3
  <2>4. (\E q \in DOMAIN upstream : \E i \in 0 .. Len(upstream[q]) : p = <<q, i>>)
          <=> p[1] \in DOMAIN upstream /\ p[2] \in 0 .. Len(upstream[p[1]])
    BY <2>1
  <2> QED
    BY <2>2, <2>3, <2>4
<1>5. Stream!Places \subseteq Place
  BY <1>3, <1>1, <1>2 DEF End, Place
<1> QED
  BY <1>1, <1>2, <1>4, <1>5

\* Record s is owed between two places of an index.
Meets(up, s, a, c, cuts) ==
  \E q \in DOMAIN up : \E i \in DOMAIN up[q] :
    up[q][i] = s /\ Stream!Lies(q, i, a, c) /\ ~ Stream!Cut(q, i, cuts)

\* The works of the mappable records owed between two places of an index.
Span(up, mapped, a, c, cuts) == {WorkOf[r] : r \in {s \in mapped : Meets(up, s, a, c, cuts)}}

\* Index `grown' is `up' with r behind the results of query k.
GrowsAt(grown, up, k, r) ==
  /\ DOMAIN grown = DOMAIN up
  /\ \A q \in DOMAIN up : grown[q] = IF q = k THEN Append(up[k], r) ELSE up[q]

\* Place c is not behind the results of query k.
NotBehind(up, k, c) == c[1] < k \/ (c[1] = k /\ c[2] <= Len(up[k]))

\* A record indexed behind the second of two places does not lie between them.
LEMMA Growth ==
  ASSUME NEW up \in Seq(Seq(Records)), NEW mapped, NEW k \in DOMAIN up, NEW r \in Records,
         NEW grown, GrowsAt(grown, up, k, r),
         NEW a \in Place, NEW c \in Place, NEW cuts, NotBehind(up, k, c)
  PROVE  Span(grown, mapped, a, c, cuts) = Span(up, mapped, a, c, cuts)
<1>1. up[k] \in Seq(Records) /\ Append(up[k], r) \in Seq(Records)
  OBVIOUS
<1>2. DOMAIN grown = DOMAIN up
  BY DEF GrowsAt
<1>3. \A q \in DOMAIN up : grown[q] = IF q = k THEN Append(up[k], r) ELSE up[q]
  BY DEF GrowsAt
<1>4. /\ DOMAIN up[k] = 1 .. Len(up[k]) /\ Len(up[k]) \in Nat
      /\ DOMAIN Append(up[k], r) = 1 .. Len(up[k]) + 1
      /\ \A i \in DOMAIN up[k] : Append(up[k], r)[i] = up[k][i]
  BY <1>1
<1>5. k \in Nat
  OBVIOUS
<1>6. ~ Stream!Lies(k, Len(up[k]) + 1, a, c)
  BY <1>4, <1>5 DEF NotBehind, Stream!Lies, Stream!Upto, Place
<1>7. ASSUME NEW s PROVE Meets(grown, s, a, c, cuts) <=> Meets(up, s, a, c, cuts)
  <2>1. ASSUME NEW q \in DOMAIN up
        PROVE  (\E i \in DOMAIN grown[q] : /\ grown[q][i] = s
                                            /\ Stream!Lies(q, i, a, c) /\ ~ Stream!Cut(q, i, cuts))
               <=> (\E i \in DOMAIN up[q] : /\ up[q][i] = s
                                            /\ Stream!Lies(q, i, a, c) /\ ~ Stream!Cut(q, i, cuts))
    <3>1. CASE q # k
      BY <1>3, <3>1
    <3>2. CASE q = k
      <4>1. grown[q] = Append(up[k], r)
        BY <1>3, <3>2
      <4>2. \A i : i \in DOMAIN grown[q] <=> i \in DOMAIN up[k] \/ i = Len(up[k]) + 1
        BY <1>4, <4>1
      <4> QED
        BY <1>4, <1>6, <3>2, <4>1, <4>2
    <3> QED
      BY <3>1, <3>2
  <2> QED
    BY <1>2, <2>1 DEF Meets
<1>8. Span(grown, mapped, a, c, cuts) = Span(up, mapped, a, c, cuts)
  BY <1>7 DEF Span
<1> QED
  BY <1>8

----------------------------------------------------------------------------
(* What a call has read *)

\* While a request is in flight the call has read query at[1] up to its r-th
\* result: what is owed before that place, behind the caller's cursor, the caller
\* has been given or the call holds, and the call holds nothing from elsewhere.
Covered(r) ==
  /\ r \in Nat /\ at[2] <= r /\ r <= Len(upstream[at[1]])
  /\ Stream!Upto(cursor, <<at[1], r>>)
  /\ Stream!Owed(cursor, <<at[1], r>>, left \cup leaving) \subseteq delivered \cup page
  /\ page \subseteq Stream!Between(Start, <<at[1], r>>)

CallOK ==
  pc = "waiting" =>
    /\ at[1] \in DOMAIN upstream /\ count < MaxResults /\ IsFiniteSet(page)
    /\ provider = "semantic_scholar" => page = {}
    /\ \A c \in leaving : cursor[1] <= c[1] /\ c[1] < at[1]
    /\ \E r : Covered(r)

\* The inductive invariant.
IInv == TypeOK /\ Stream!NothingSkipped /\ CallOK

\* The bounds and the smaller of two of them.
LEMMA Bounds ==
  ASSUME BoundsAssumption
  PROVE  Rows \in Nat \ {0} /\ BulkSize \in Nat \ {0} /\ MaxResults \in Nat \ {0}
         /\ MaxRequests \in Nat \ {0} /\ MaxAttempts \in Nat \ {0}
  BY DEF BoundsAssumption

\* The start of the stream is a place of it.
LEMMA StartIsPlace ==
  ASSUME upstream \in Seq(Seq(Records))
  PROVE  Start \in Stream!Places
<1>1. Start \in Place /\ Start[1] = 1 /\ Start[2] = 0
  BY DEF Start, Place
<1>2. CASE 1 \in DOMAIN upstream
  <2>1. Len(upstream[1]) \in Nat
    BY <1>2, PlaceShape
  <2> QED
    BY <1>1, <1>2, <2>1, PlaceShape, SMTT(30)
<1>3. CASE 1 \notin DOMAIN upstream
  <2>1. Start = End
    BY <1>3, PlaceShape DEF Start, End
  <2> QED
    BY <1>1, <2>1, PlaceShape
<1> QED
  BY <1>2, <1>3

\* No place is before the start of the stream.
LEMMA StartFirst ==
  ASSUME upstream \in Seq(Seq(Records)), NEW p \in Stream!Places
  PROVE  p \in Place /\ Start \in Place /\ Stream!Upto(Start, p) /\ p[1] >= 1
<1>1. p \in Place /\ p[1] >= 1
  BY PlaceShape DEF End
<1> QED
  BY <1>1 DEF Start, Place, Stream!Upto

\* The page a request of n results brings ends where the query ends, at the
\* latest.
LEMMA BehindPlace ==
  ASSUME IInv, pc = "waiting", NEW n \in Nat
  PROVE  /\ at \in Place /\ at = <<at[1], at[2]>> /\ Len(upstream[at[1]]) \in Nat
         /\ Behind(n) \in Place /\ Behind(n)[1] = at[1] /\ at[2] <= Behind(n)[2]
         /\ Behind(n)[2] <= Len(upstream[at[1]])
         /\ Behind(n)[2] = at[2] + n \/ Behind(n)[2] = Len(upstream[at[1]])
<1>1. at \in Place /\ Len(upstream[at[1]]) \in Nat /\ at[1] \in DOMAIN upstream
  BY PlaceShape DEF IInv, TypeOK, CallOK
<1>2. at[1] \in Nat /\ at[2] \in Nat /\ at = <<at[1], at[2]>>
  BY <1>1 DEF Place
<1>3. PICK r : Covered(r)
  BY DEF IInv, CallOK
<1>4. at[2] <= Len(upstream[at[1]])
  BY <1>1, <1>2, <1>3 DEF Covered
<1> QED
  BY <1>1, <1>2, <1>4 DEF Behind, Lowest, Place

\* With the page of n results the call has read up to the r-th result.
PageCovered(n, r) ==
  /\ Behind(n)[2] <= r /\ at[2] <= r /\ r <= Len(upstream[at[1]])
  /\ Stream!Upto(cursor, <<at[1], r>>)
  /\ Stream!Owed(cursor, <<at[1], r>>, left \cup leaving)
       \subseteq delivered \cup (page \cup Stream!Between(at, Behind(n)))
  /\ page \cup Stream!Between(at, Behind(n)) \subseteq Stream!Between(Start, <<at[1], r>>)

\* With the page of n results the call has read on, and nothing is left out.
LEMMA PageReaches ==
  ASSUME IInv, pc = "waiting", NEW n \in Nat
  PROVE  \E r \in Nat : PageCovered(n, r)
<1> DEFINE e == Behind(n)
           B(a, c) == Stream!Between(a, c)
           O(a, c) == Stream!Owed(a, c, left \cup leaving)
<1>1. upstream \in Seq(Seq(Records))
  BY DEF IInv, TypeOK
<1>2. cursor \in Place /\ Start \in Place /\ Stream!Upto(Start, cursor) /\ Stream!Upto(Start, at)
  BY <1>1, StartFirst DEF IInv, TypeOK
<1>3. PICK s : Covered(s)
  BY DEF IInv, CallOK
<1>4. /\ at \in Place /\ at = <<at[1], at[2]>> /\ at[1] \in Nat /\ at[2] \in Nat
      /\ e \in Place /\ e[1] = at[1] /\ at[2] <= e[2] /\ e[2] <= Len(upstream[at[1]])
      /\ e = <<at[1], e[2]>> /\ e[2] \in Nat
  BY BehindPlace DEF Place
<1> DEFINE old == <<at[1], s>>
<1>5. /\ s \in Nat /\ old \in Place /\ Stream!Upto(cursor, old) /\ Stream!Upto(at, old)
      /\ O(cursor, old) \subseteq delivered \cup page /\ page \subseteq B(Start, old)
  BY <1>3, <1>4 DEF Covered, Place, Stream!Upto
<1>6. Stream!Upto(Start, Start) /\ Stream!Upto(e, e) /\ Stream!Upto(old, old)
  BY <1>2, <1>4, <1>5, UptoOrder
<1> HIDE DEF B, O
<1>7. CASE e[2] <= s
  <2>1. Stream!Upto(e, old)
    BY <1>4, <1>5, <1>7 DEF Stream!Upto
  <2>2. B(at, e) \subseteq B(Start, old)
    BY <1>1, <1>2, <1>4, <1>5, <2>1, OwedWithin DEF B, Stream!Between
  <2>3. PageCovered(n, s)
    BY <1>3, <1>4, <1>5, <1>7, <2>2 DEF Covered, PageCovered, B, O
  <2> QED
    BY <1>5, <2>3
<1>8. CASE s <= e[2]
  <2>1. Stream!Upto(old, e)
    BY <1>4, <1>5, <1>8 DEF Stream!Upto
  <2>2. Stream!Upto(cursor, e)
    BY <1>2, <1>4, <1>5, <2>1, UptoOrder
  <2>3. O(cursor, e) = O(cursor, old) \cup O(old, e)
    <3> HIDE DEF old, e
    <3> QED
      BY <1>1, <1>2, <1>4, <1>5, <2>1, OwedSplits DEF O
  <2>4. O(old, e) \subseteq B(at, e)
    <3>1. {} \subseteq left \cup leaving
      OBVIOUS
    <3> QED
      BY <1>1, <1>4, <1>5, <1>6, <3>1, OwedWithin DEF B, O, Stream!Between
  <2>5. B(Start, old) \subseteq B(Start, e) /\ B(at, e) \subseteq B(Start, e)
    <3> HIDE DEF old, e
    <3>1. B(Start, old) \subseteq B(Start, e)
      BY <1>1, <1>2, <1>4, <1>5, <1>6, <2>1, OwedWithin DEF B, Stream!Between
    <3>2. B(at, e) \subseteq B(Start, e)
      BY <1>1, <1>2, <1>4, <1>6, OwedWithin DEF B, Stream!Between
    <3> QED
      BY <3>1, <3>2
  <2>6. O(cursor, e) \subseteq delivered \cup (page \cup B(at, e))
        /\ page \cup B(at, e) \subseteq B(Start, e)
    BY <1>5, <2>3, <2>4, <2>5
  <2>7. PageCovered(n, e[2])
    <3>1. PICK i : i = e[2] /\ e = <<at[1], i>>
      BY <1>4
    <3>2. Behind(n)[2] <= i /\ at[2] <= i /\ i <= Len(upstream[at[1]])
      BY <1>4, <3>1
    <3>3. Stream!Upto(cursor, <<at[1], i>>)
      BY <2>2, <3>1
    <3>4. /\ Stream!Owed(cursor, <<at[1], i>>, left \cup leaving)
               \subseteq delivered \cup (page \cup Stream!Between(at, Behind(n)))
          /\ page \cup Stream!Between(at, Behind(n)) \subseteq Stream!Between(Start, <<at[1], i>>)
      BY <2>6, <3>1 DEF B, O
    <3>5. PageCovered(n, i)
      BY <3>2, <3>3, <3>4 DEF PageCovered
    <3> QED
      BY <3>1, <3>5
  <2> QED
    BY <1>4, <2>7
<1>9. e[2] <= s \/ s <= e[2]
  BY <1>4, <1>5
<1> QED
  BY <1>7, <1>8, <1>9

\* The place the call has read to when it goes on, or returns, at `next', giving
\* up queries at the places `gone'.
Reaches(n, next, reached, gone) ==
  /\ reached \in Stream!Places /\ next \in Stream!Places /\ gone \subseteq Stream!Places
  /\ next[1] = reached[1] /\ next[2] <= reached[2]
  /\ Stream!Upto(cursor, reached)
  /\ \A c \in leaving \cup gone : cursor[1] <= c[1] /\ c[1] < next[1]
  /\ Stream!Owed(cursor, reached, left \cup leaving \cup gone)
       \subseteq delivered \cup (page \cup Stream!Between(at, Behind(n)))
  /\ page \cup Stream!Between(at, Behind(n)) \subseteq Stream!Between(Start, reached)

\* How the page loops go on: at a cursor of the response, behind an empty page, or
\* behind a query given up.
GoesOn(n, next, gone) ==
  \/ gone = {} /\ (next \in NextCursors(n) \/ (Results(n) = {} /\ next = Complete))
  \/ gone = {Behind(n)} /\ next = Complete

\* Every cursor the code goes on with is at most the place the call has read to.
LEMMA NextReaches ==
  ASSUME IInv, pc = "waiting", NEW n \in Nat \ {0}, NEW next, NEW gone, GoesOn(n, next, gone)
  PROVE  \E reached : Reaches(n, next, reached, gone)
<1> DEFINE len == Len(upstream[at[1]])
<1>1. PICK r \in Nat : PageCovered(n, r)
  BY PageReaches
<1>2. /\ at \in Place /\ at = <<at[1], at[2]>> /\ at[1] \in Nat /\ at[2] \in Nat /\ len \in Nat
      /\ Behind(n) \in Place /\ Behind(n)[1] = at[1] /\ at[2] <= Behind(n)[2] /\ Behind(n)[2] <= len
      /\ Behind(n)[2] = at[2] + n \/ Behind(n)[2] = len
      /\ Behind(n) = <<at[1], Behind(n)[2]>> /\ Behind(n)[2] \in Nat
  BY BehindPlace DEF Place
<1>3. upstream \in Seq(Seq(Records)) /\ cursor \in Place /\ at[1] \in DOMAIN upstream
      /\ Start \in Place
  BY StartFirst DEF IInv, TypeOK, CallOK
<1>4. \A i \in 0 .. len : <<at[1], i>> \in Place /\ <<at[1], i>> \in Stream!Places
  <2> TAKE i \in 0 .. len
  <2> DEFINE p == <<at[1], i>>
  <2>1. p \in Place /\ p[1] = at[1] /\ p[2] = i /\ i <= len
    BY <1>2 DEF Place
  <2> HIDE DEF p
  <2>2. p \in Stream!Places
    BY <1>3, <2>1, PlaceShape
  <2> QED
    BY <2>1, <2>2 DEF p
<1>5. Complete \in Place /\ Complete \in Stream!Places
  <2>1. Complete \in Place
    BY <1>2 DEF Complete, Place
  <2>2. at[1] + 1 \in DOMAIN upstream \/ at[1] = Len(upstream)
    BY <1>3, PlaceShape, <1>2
  <2>3. Complete[1] = at[1] + 1 /\ Complete[2] = 0
    BY DEF Complete
  <2>4. CASE at[1] + 1 \in DOMAIN upstream
    <3>1. Len(upstream[at[1] + 1]) \in Nat
      BY <1>3, <2>4, PlaceShape
    <3> QED
      BY <1>3, <2>1, <2>3, <2>4, <3>1, PlaceShape
  <2>5. CASE at[1] = Len(upstream)
    BY <1>3, <2>1, <2>5, PlaceShape DEF Complete, End
  <2> QED
    BY <2>1, <2>2, <2>4, <2>5
<1>6. \A c \in leaving : cursor[1] <= c[1] /\ c[1] < at[1]
  BY DEF IInv, CallOK
<1> DEFINE old == <<at[1], r>>
           cuts == left \cup leaving \cup gone
<1>7. ASSUME next = Complete, Behind(n)[2] = len \/ gone = {Behind(n)}, gone \subseteq {Behind(n)}
      PROVE  Reaches(n, next, Complete, gone)
  <2>1. r <= len /\ Behind(n)[2] <= r
    BY <1>1, <1>2 DEF PageCovered
  <2>2. /\ old \in Place /\ Stream!Upto(cursor, old) /\ Stream!Upto(old, Complete)
        /\ cursor[1] <= at[1]
    BY <1>1, <1>2, <1>3, <2>1 DEF PageCovered, Stream!Upto, Complete, Place
  <2>3. Stream!Owed(cursor, Complete, cuts)
          = Stream!Owed(cursor, old, cuts) \cup Stream!Owed(old, Complete, cuts)
    BY <1>3, <1>5, <2>2, OwedSplits
  <2>4. Stream!Owed(old, Complete, cuts) = {}
    <3>1. ASSUME NEW q \in DOMAIN upstream, NEW i \in DOMAIN upstream[q],
                 Stream!Lies(q, i, old, Complete)
          PROVE  Stream!Cut(q, i, cuts)
      <4>1. q \in Nat /\ upstream[q] \in Seq(Records)
        BY <1>3
      <4>2. i \in Nat /\ 1 <= i /\ i <= Len(upstream[q])
        BY <4>1
      <4>3. q = at[1] /\ r < i
        BY <1>2, <2>1, <3>1, <4>1, <4>2 DEF Stream!Lies, Stream!Upto, Complete
      <4>4. Behind(n)[2] # len
        BY <1>2, <2>1, <4>2, <4>3
      <4>5. Behind(n) \in cuts /\ Behind(n)[1] = q /\ Behind(n)[2] < i
        BY <1>2, <1>7, <2>1, <4>2, <4>3, <4>4
      <4> QED
        BY <4>5 DEF Stream!Cut
    <3> QED
      BY <3>1 DEF Stream!Owed
  <2>5. Stream!Upto(cursor, Complete) /\ Stream!Upto(old, old) /\ Stream!Upto(cursor, cursor)
        /\ Stream!Upto(Start, Start)
    BY <1>3, <1>5, <2>2, UptoOrder
  <2>6. Stream!Owed(cursor, old, cuts) \subseteq Stream!Owed(cursor, old, left \cup leaving)
    <3>1. left \cup leaving \subseteq cuts
      OBVIOUS
    <3> HIDE DEF cuts, old
    <3> QED
      BY <1>3, <2>2, <2>5, <3>1, OwedWithin
  <2>7. Stream!Between(Start, old) \subseteq Stream!Between(Start, Complete)
    BY <1>3, <1>5, <2>2, <2>5, OwedWithin DEF Stream!Between
  <2>8. \A c \in leaving \cup gone : cursor[1] <= c[1] /\ c[1] < Complete[1]
    <3>1. \A c \in gone : c[1] = at[1]
      BY <1>2, <1>7
    <3>2. \A c \in leaving : cursor[1] <= c[1] /\ c[1] < at[1] + 1
      <4> TAKE c \in leaving
      <4>1. c \in Place
        BY PlaceShape, <1>3 DEF IInv, TypeOK
      <4> QED
        BY <1>2, <1>6, <4>1 DEF Place
    <3> QED
      BY <1>2, <2>2, <3>1, <3>2 DEF Complete
  <2>9. gone \subseteq Stream!Places
    BY <1>2, <1>4, <1>7
  <2>10. Complete[1] = Complete[1] /\ Complete[2] <= Complete[2]
    BY DEF Complete
  <2>11. Stream!Owed(cursor, old, left \cup leaving)
           \subseteq delivered \cup (page \cup Stream!Between(at, Behind(n)))
         /\ page \cup Stream!Between(at, Behind(n)) \subseteq Stream!Between(Start, old)
    BY <1>1 DEF PageCovered
  <2> QED
    BY <1>5, <1>7, <2>3, <2>4, <2>5, <2>6, <2>7, <2>8, <2>9, <2>10, <2>11 DEF Reaches
<1>8. ASSUME NEW i \in 0 .. r, next = <<at[1], i>>, gone = {}
      PROVE  Reaches(n, next, old, gone)
  <2>1. r \in 0 .. len /\ i \in 0 .. len
    BY <1>1, <1>2 DEF PageCovered
  <2>2. old \in Stream!Places /\ next \in Stream!Places /\ gone \subseteq Stream!Places
    BY <1>4, <1>8, <2>1
  <2>3. next[1] = old[1] /\ next[2] <= old[2] /\ next[1] = at[1]
    BY <1>8
  <2>4. left \cup leaving \cup gone = left \cup leaving /\ leaving \cup gone = leaving
    BY <1>8
  <2> QED
    BY <1>1, <1>6, <2>2, <2>3, <2>4 DEF Reaches, PageCovered
<1>9. ASSUME Results(n) = {} PROVE Behind(n)[2] = len
  <2>1. at[2] + 1 \notin at[2] + 1 .. Behind(n)[2]
    BY <1>9 DEF Results
  <2> QED
    BY <1>2, <2>1
<1>10. \/ next = Complete /\ (Behind(n)[2] = len \/ gone = {Behind(n)}) /\ gone \subseteq {Behind(n)}
       \/ gone = {} /\ \E i \in 0 .. r : next = <<at[1], i>>
  <2>1. Behind(n)[2] \in 0 .. r /\ \A i \in 0 .. at[2] : i \in 0 .. r
    BY <1>1, <1>2 DEF PageCovered
  <2>2. CASE gone = {} /\ next = Behind(n)
    BY <1>2, <2>1, <2>2
  <2>3. CASE gone = {} /\ Results(n) = {} /\ next = Complete
    BY <1>9, <2>3
  <2>4. CASE gone = {} /\ next \in NextCursors(n) /\ next # Behind(n)
    <3>1. (next = Complete /\ Behind(n)[2] = len) \/ \E i \in 0 .. at[2] : next = <<at[1], i>>
      BY <2>4 DEF NextCursors
    <3> QED
      BY <2>1, <2>4, <3>1
  <2>5. CASE gone = {Behind(n)} /\ next = Complete
    BY <2>5
  <2> QED
    BY <2>2, <2>3, <2>4, <2>5 DEF GoesOn
<1> HIDE DEF old
<1> QED
  BY <1>7, <1>8, <1>10

----------------------------------------------------------------------------
(* The steps *)

\* A stretch of an unchanged stream is unchanged.
LEMMA OwedIsSpan ==
  ASSUME NEW a, NEW c, NEW cuts
  PROVE  Stream!Owed(a, c, cuts) = Span(upstream, Accepted, a, c, cuts)
  BY DEF Stream!Owed, Span, Meets

\* What is owed between two places is the same when the index is.
LEMMA OwedStays ==
  ASSUME Accepted' = Accepted, upstream' = upstream, NEW a, NEW c, NEW cuts
  PROVE  Stream!Owed(a, c, cuts)' = Stream!Owed(a, c, cuts)
  BY DEF Stream!Owed, Stream!Lies, Stream!Upto, Stream!Cut

\* A step that leaves the index and the caller alone skips nothing.
LEMMA CallerKeeps ==
  ASSUME IInv, Accepted' = Accepted, UNCHANGED <<upstream, cursor, delivered, left>>
  PROVE  Stream!NothingSkipped'
<1>1. PICK c : c = cursor
  OBVIOUS
<1>2. PICK cuts : cuts = left
  OBVIOUS
<1>3. Stream!Owed(Start, c, cuts)' = Stream!Owed(Start, c, cuts)
  BY OwedStays
<1>4. Stream!Owed(Start, c, cuts) \subseteq delivered
  BY <1>1, <1>2 DEF IInv, Stream!NothingSkipped, Stream!Start, Start
<1>5. Stream!Owed(Start, cursor, left)' = Stream!Owed(Start, c, cuts)'
  BY <1>1, <1>2 DEF Stream!Owed, Stream!Lies, Stream!Upto, Stream!Cut, Start
<1> QED
  BY <1>3, <1>4, <1>5 DEF Stream!NothingSkipped, Stream!Start, Start

LEMMA AcceptedStays ==
  ASSUME provider' = provider
  PROVE  Accepted' = Accepted
  BY DEF Accepted, CrossrefMaps, OpenAlexMaps, SemanticScholarMaps

\* A call that goes on keeps what it has read.
LEMMA AskKeeps ==
  ASSUME IInv, pc = "waiting", NEW n \in Nat \ {0}, NEW next, NEW number \in Nat, NEW reached,
         NEW gone, Reaches(n, next, reached, gone), next # End, number < MaxResults,
         provider # "semantic_scholar",
         IsFiniteSet(page \cup Stream!Between(at, Behind(n))),
         Ask(next, page \cup Stream!Between(at, Behind(n)), number, gone)
  PROVE  CallOK' /\ Stream!NothingSkipped'
<1>1. Accepted' = Accepted /\ upstream' = upstream /\ cursor' = cursor /\ delivered' = delivered
      /\ left' = left
  BY AcceptedStays DEF Ask
<1>2. Stream!NothingSkipped'
  BY <1>1, CallerKeeps
<1>3. CallOK'
  <2>1. /\ upstream \in Seq(Seq(Records)) /\ next \in Place /\ reached \in Place
        /\ next[1] \in DOMAIN upstream
    BY PlaceShape DEF IInv, TypeOK, Reaches, End
  <2>2. PICK works : works = page \cup Stream!Between(at, Behind(n))
    OBVIOUS
  <2>3. at' = next /\ count' = number /\ page' = works /\ leaving' = leaving \cup gone
    BY <2>2 DEF Ask
  <2>4. next = <<next[1], next[2]>> /\ reached = <<next[1], reached[2]>> /\ reached[2] \in Nat
    BY <2>1 DEF Reaches, Place
  <2>5. reached[2] <= Len(upstream[next[1]])
    <3>1. reached # End \/ reached = next
      BY <2>1, <2>4, PlaceShape DEF Reaches, End
    <3> QED
      BY <2>1, <2>4, <3>1, PlaceShape DEF Reaches
  <2>6. PICK from : from = cursor
    OBVIOUS
  <2>7. PICK cuts : cuts = left \cup leaving \cup gone
    OBVIOUS
  <2>8. /\ Stream!Owed(from, reached, cuts)' = Stream!Owed(from, reached, cuts)
        /\ Stream!Between(Start, reached)' = Stream!Between(Start, reached)
    <3>1. Stream!Owed(from, reached, cuts)' = Stream!Owed(from, reached, cuts)
      BY <1>1, OwedStays
    <3>2. Stream!Owed(Start, reached, {})' = Stream!Owed(Start, reached, {})
      BY <1>1, OwedStays
    <3> QED
      BY <3>1, <3>2 DEF Stream!Between
  <2>9. Stream!Owed(cursor, <<at[1], reached[2]>>, left \cup leaving)' = Stream!Owed(from, reached, cuts)'
    BY <1>1, <2>3, <2>4, <2>6, <2>7 DEF Stream!Owed, Stream!Lies, Stream!Upto, Stream!Cut
  <2>10. Stream!Between(Start, <<at[1], reached[2]>>)' = Stream!Between(Start, reached)'
    BY <2>3, <2>4 DEF Stream!Between, Stream!Owed, Stream!Lies, Stream!Upto, Stream!Cut, Start
  <2>11. Stream!Upto(cursor, <<at[1], reached[2]>>)'
    BY <1>1, <2>3, <2>4 DEF Reaches, Stream!Upto
  <2>12. Stream!Owed(from, reached, cuts) \subseteq delivered \cup works
         /\ works \subseteq Stream!Between(Start, reached)
    BY <2>2, <2>6, <2>7 DEF Reaches
  <2>13. Covered(reached[2])'
    <3>1. reached[2] \in Nat /\ at'[2] <= reached[2] /\ reached[2] <= Len(upstream'[at'[1]])
      BY <1>1, <2>3, <2>4, <2>5 DEF Reaches
    <3> QED
      BY <1>1, <2>3, <2>8, <2>9, <2>10, <2>11, <2>12, <3>1 DEF Covered
  <2>14. \E r : Covered(r)'
    BY <2>13
  <2>15. IsFiniteSet(works)
    BY <2>2
  <2>16. \A c \in leaving \cup gone : cursor[1] <= c[1] /\ c[1] < next[1]
    BY DEF Reaches
  <2>17. provider' = provider /\ pc' = pc
    BY DEF Ask
  <2> QED
    BY <1>1, <2>1, <2>3, <2>14, <2>15, <2>16, <2>17 DEF CallOK
<1> QED
  BY <1>2, <1>3

\* A call that returns delivers what it has read.
LEMMA ReturnDelivers ==
  ASSUME IInv, pc = "waiting", NEW n \in Nat \ {0}, NEW next, NEW reached, NEW gone,
         Reaches(n, next, reached, gone),
         Return(next, page \cup Stream!Between(at, Behind(n)), gone)
  PROVE  CallOK' /\ Stream!NothingSkipped' /\ Stream!Deliver
<1>1. PICK works : works = page \cup Stream!Between(at, Behind(n))
  OBVIOUS
<1>2. PICK cuts : cuts = left \cup leaving \cup gone
  OBVIOUS
<1>3. /\ Accepted' = Accepted /\ upstream' = upstream /\ cursor' = next /\ pc' = "idle"
      /\ delivered' = delivered \cup works /\ left' = cuts
  BY <1>1, <1>2, AcceptedStays DEF Return, Forget
<1>4. CallOK'
  BY <1>3 DEF CallOK
<1>5. /\ upstream \in Seq(Seq(Records)) /\ next \in Place /\ reached \in Place /\ cursor \in Place
      /\ Start \in Place /\ Stream!Upto(Start, cursor) /\ Stream!Upto(Start, Start)
  BY StartFirst, PlaceShape, UptoOrder DEF IInv, TypeOK, Reaches
<1>6. Stream!Owed(cursor, reached, cuts) \subseteq delivered \cup works
      /\ works \subseteq Stream!Between(Start, reached)
  BY <1>1, <1>2 DEF Reaches
<1>7. Stream!Upto(cursor, reached) /\ Stream!Upto(next, reached)
  BY <1>5 DEF Reaches, Stream!Upto, Place
<1>8. Stream!Deliver
  <2>1. \A c \in left' \ left : cursor[1] <= c[1] /\ c[1] < reached[1]
    BY <1>2, <1>3 DEF Reaches
  <2>2. left \subseteq left' /\ UNCHANGED <<upstream, Accepted>> /\ cursor' = next
    BY <1>2, <1>3
  <2>3. /\ delivered \cup Stream!Owed(cursor, reached, left') \subseteq delivered'
        /\ delivered' \subseteq delivered \cup Stream!Between(Start, reached)
    BY <1>3, <1>6
  <2>4. reached \in Stream!Places /\ next \in Stream!Places
    BY DEF Reaches
  <2> QED
    BY <1>7, <2>1, <2>2, <2>3, <2>4 DEF Stream!Deliver, Stream!Start, Start
<1>9. Stream!NothingSkipped'
  <2>1. PICK c : c = cursor
    OBVIOUS
  <2>2. PICK before : before = left
    OBVIOUS
  <2>3. Stream!Owed(Start, c, before) \subseteq delivered
    BY <2>1, <2>2 DEF IInv, Stream!NothingSkipped, Stream!Start, Start
  <2>4. Stream!Owed(Start, c, cuts) \subseteq Stream!Owed(Start, c, before)
    <3>1. before \subseteq cuts /\ Stream!Upto(c, c) /\ c \in Place
      BY <1>2, <1>5, <2>1, <2>2, UptoOrder
    <3> QED
      BY <1>5, <3>1, OwedWithin
  <2>5. Stream!Owed(Start, reached, cuts)
          = Stream!Owed(Start, c, cuts) \cup Stream!Owed(c, reached, cuts)
    BY <1>5, <1>7, <2>1, OwedSplits
  <2>6. Stream!Owed(Start, next, cuts) \subseteq Stream!Owed(Start, reached, cuts)
    BY <1>5, <1>7, OwedWithin
  <2>7. Stream!Owed(Start, next, cuts) \subseteq delivered'
    BY <1>3, <1>6, <2>1, <2>3, <2>4, <2>5, <2>6
  <2>8. Stream!Owed(Start, next, cuts)' = Stream!Owed(Start, next, cuts)
    BY <1>3, OwedStays
  <2>9. Stream!Owed(Start, cursor, left)' = Stream!Owed(Start, next, cuts)'
    BY <1>3 DEF Stream!Owed, Stream!Lies, Stream!Upto, Stream!Cut, Start
  <2> QED
    BY <2>7, <2>8, <2>9 DEF Stream!NothingSkipped, Stream!Start, Start
<1> QED
  BY <1>4, <1>8, <1>9

\* A provider that indexes a record changes nothing that has been read.
LEMMA PublishKeeps ==
  ASSUME BoundsAssumption, IInv, Publish
  PROVE  IInv' /\ Stream!Grow
<1>1. PICK k \in DOMAIN upstream, r \in Records :
        /\ k >= (IF pc = "waiting" THEN at[1] ELSE cursor[1])
        /\ upstream' = [upstream EXCEPT ![k] = Append(@, r)]
  BY DEF Publish
<1>2. /\ UNCHANGED <<caller, provider, cursor, delivered, left, at, pc, page, count, requests,
                     attempt, total, seen, leaving>>
      /\ Accepted' = Accepted
  BY AcceptedStays DEF Publish, call
<1>3. /\ upstream \in Seq(Seq(Records)) /\ k \in Nat /\ Len(upstream[k]) \in Nat
      /\ cursor \in Place /\ Start \in Place /\ cursor \in Stream!Places
      /\ cursor[1] \in Nat /\ cursor[2] \in Nat /\ upstream[k] \in Seq(Records)
  <2>1. upstream \in Seq(Seq(Records)) /\ cursor \in Stream!Places
    BY DEF IInv, TypeOK
  <2>2. k \in Nat /\ Len(upstream[k]) \in Nat /\ upstream[k] \in Seq(Records)
    BY <1>1, <2>1, PlaceShape
  <2>3. cursor \in Place /\ Start \in Place
    BY <2>1, StartFirst
  <2> QED
    BY <2>1, <2>2, <2>3 DEF Place
<1>4. upstream' \in Seq(Seq(Records))
  BY <1>1, <1>3, SMTT(30)
<1>5. GrowsAt(upstream', upstream, k, r)
  BY <1>1 DEF GrowsAt
<1>6. DOMAIN upstream' = DOMAIN upstream /\ k \in DOMAIN upstream /\ r \in Records
  BY <1>1
<1>7. /\ Len(upstream') = Len(upstream) /\ DOMAIN upstream' = DOMAIN upstream
      /\ \A q \in DOMAIN upstream : /\ Len(upstream'[q]) \in Nat
                                    /\ Len(upstream[q]) <= Len(upstream'[q])
  <2>1. \A q \in DOMAIN upstream : upstream'[q] = IF q = k THEN Append(upstream[k], r) ELSE upstream[q]
    BY <1>1
  <2>2. Len(Append(upstream[k], r)) = Len(upstream[k]) + 1
    BY <1>1, <1>3
  <2> QED
    BY <1>1, <1>3, <2>1, <2>2, PlaceShape, SMTT(30)
<1>8. Stream!Places \subseteq Stream!Places'
  <2> QED
    BY <1>7 DEF Stream!Places
<1>9. ASSUME pc = "waiting" PROVE cursor[1] <= at[1] /\ at[1] <= k /\ at[1] \in Nat
  <2>1. PICK s : Covered(s)
    BY <1>9 DEF IInv, CallOK
  <2>2. at[1] \in Nat
    BY <1>3, PlaceShape DEF IInv, TypeOK, Place
  <2>3. k >= at[1]
    BY <1>1, <1>9
  <2>4. Stream!Upto(cursor, <<at[1], s>>)
    BY <2>1 DEF Covered
  <2> QED
    BY <1>3, <2>2, <2>3, <2>4, SMTT(30) DEF Stream!Upto
<1>10. cursor[1] <= k
  BY <1>1, <1>3, <1>9, SMTT(30)
<1>11. NotBehind(upstream, k, cursor)
  <2>1. CASE cursor[1] = k
    <3>1. cursor # End
      BY <1>3, <2>1, PlaceShape DEF End
    <3> QED
      BY <1>3, <2>1, <3>1, PlaceShape DEF NotBehind
  <2> QED
    BY <1>3, <1>10, <2>1 DEF NotBehind
<1>12. Stream!NothingSkipped'
  <2>1. Span(upstream', Accepted, Start, cursor, left) = Span(upstream, Accepted, Start, cursor, left)
    BY <1>3, <1>11, <1>5, <1>6, Growth
  <2>2. Stream!Owed(Start, cursor, left)' = Span(upstream', Accepted, Start, cursor, left)
    BY <1>2 DEF Stream!Owed, Span, Meets, Stream!Lies, Stream!Upto, Stream!Cut, Start
  <2>3. Stream!Owed(Start, cursor, left) = Span(upstream, Accepted, Start, cursor, left)
    BY OwedIsSpan
  <2> QED
    BY <1>2, <2>1, <2>2, <2>3 DEF IInv, Stream!NothingSkipped, Stream!Start, Start
<1>13. CallOK'
  <2> SUFFICES ASSUME pc = "waiting"
               PROVE  at[1] \in DOMAIN upstream' /\ count < MaxResults /\ IsFiniteSet(page)
                      /\ (provider = "semantic_scholar" => page = {})
                      /\ (\A c \in leaving : cursor[1] <= c[1] /\ c[1] < at[1])
                      /\ \E s : Covered(s)'
    BY <1>2 DEF CallOK
  <2>1. at[1] \in DOMAIN upstream /\ count < MaxResults /\ IsFiniteSet(page)
        /\ (provider = "semantic_scholar" => page = {})
        /\ (\A d \in leaving : cursor[1] <= d[1] /\ d[1] < at[1])
    BY DEF IInv, CallOK
  <2>2. PICK s : Covered(s)
    BY DEF IInv, CallOK
  <2> DEFINE c == <<at[1], s>>
  <2>3. c \in Place /\ c[1] = at[1] /\ c[2] = s /\ s \in Nat
    BY <1>9, <2>2 DEF Covered, Place
  <2>4. NotBehind(upstream, k, c)
    BY <1>3, <1>9, <2>2, <2>3, SMTT(30) DEF Covered, NotBehind
  <2>5. PICK cuts : cuts = left \cup leaving
    OBVIOUS
  <2>6. Stream!Owed(cursor, <<at[1], s>>, left \cup leaving)'
          = Stream!Owed(cursor, <<at[1], s>>, left \cup leaving)
    <3>1. Span(upstream', Accepted, cursor, c, cuts) = Span(upstream, Accepted, cursor, c, cuts)
      BY <1>3, <1>5, <1>6, <2>3, <2>4, Growth
    <3>2. Stream!Owed(cursor, <<at[1], s>>, left \cup leaving)' = Span(upstream', Accepted, cursor, c, cuts)
      BY <1>2, <2>5 DEF Stream!Owed, Span, Meets, Stream!Lies, Stream!Upto, Stream!Cut
    <3>3. Stream!Owed(cursor, c, cuts) = Span(upstream, Accepted, cursor, c, cuts)
      BY OwedIsSpan
    <3> QED
      BY <2>5, <3>1, <3>2, <3>3
  <2>7. Stream!Between(Start, <<at[1], s>>)' = Stream!Between(Start, <<at[1], s>>)
    <3>1. Span(upstream', Accepted, Start, c, {}) = Span(upstream, Accepted, Start, c, {})
      BY <1>3, <1>5, <1>6, <2>3, <2>4, Growth
    <3>2. Stream!Between(Start, <<at[1], s>>)' = Span(upstream', Accepted, Start, c, {})
      BY <1>2 DEF Stream!Between, Stream!Owed, Span, Meets, Stream!Lies, Stream!Upto, Stream!Cut, Start
    <3>3. Stream!Owed(Start, c, {}) = Span(upstream, Accepted, Start, c, {})
      BY OwedIsSpan
    <3> QED
      BY <3>1, <3>2, <3>3 DEF Stream!Between
  <2>8. s <= Len(upstream'[at[1]])
    BY <1>3, <1>7, <2>1, <2>2, <2>3, PlaceShape, SMTT(30) DEF Covered
  <2>9. Stream!Upto(cursor, <<at[1], s>>)'
    BY <1>2, <2>2 DEF Covered, Stream!Upto
  <2>10. Covered(s)'
    BY <1>2, <2>2, <2>6, <2>7, <2>8, <2>9 DEF Covered
  <2> QED
    BY <1>7, <2>1, <2>10
<1>14. TypeOK'
  BY <1>2, <1>4, <1>8 DEF IInv, TypeOK
<1>15. Stream!Grow
  BY <1>1, <1>2, <1>3, <1>10 DEF Stream!Grow
<1> QED
  BY <1>12, <1>13, <1>14, <1>15 DEF IInv

\* A call that asks for its next page.
LEMMA AskStep ==
  ASSUME BoundsAssumption, IInv, pc = "waiting", provider # "semantic_scholar",
         NEW n \in Nat \ {0}, NEW next, NEW number \in Nat, NEW gone, GoesOn(n, next, gone),
         next # End, number < MaxResults, total' \in Nat,
         provider = "crossref" => requests + 1 < MaxRequests,
         Ask(next, page \cup Stream!Between(at, Behind(n)), number, gone)
  PROVE  IInv' /\ UNCHANGED Stream!vars
<1>1. PICK reached : Reaches(n, next, reached, gone)
  BY NextReaches
<1>2. /\ upstream \in Seq(Seq(Records)) /\ Accepted \subseteq Records /\ IsFiniteSet(page)
      /\ page \subseteq Works /\ provider \in Providers
  BY AcceptedRecords DEF IInv, TypeOK, CallOK
<1>3. /\ Stream!Between(at, Behind(n)) \subseteq Works
      /\ IsFiniteSet(Stream!Between(at, Behind(n)))
  BY <1>2, BetweenFinite
<1> DEFINE works == page \cup Stream!Between(at, Behind(n))
<1>4. IsFiniteSet(works) /\ works \subseteq Works
  <2>1. IsFiniteSet(works)
    BY <1>2, <1>3, FS_Union
  <2> QED
    BY <1>2, <1>3, <2>1
<1>5. CallOK' /\ Stream!NothingSkipped'
  BY <1>1, <1>4, AskKeeps
<1>6. Accepted' = Accepted
  BY AcceptedStays DEF Ask
<1>7. Stream!Places' = Stream!Places
  BY DEF Stream!Places, Ask
<1>8. TypeOK'
  <2>1. /\ UNCHANGED <<caller, provider, upstream, cursor, delivered, left, pc>>
        /\ at' = next /\ page' = works /\ count' = number /\ requests' = requests + 1
        /\ attempt' = 1 /\ seen' = seen \cup {next} /\ leaving' = leaving \cup gone
    BY DEF Ask
  <2>2. next \in Stream!Places /\ gone \subseteq Stream!Places
    BY <1>1 DEF Reaches
  <2>3. number \in 0 .. MaxResults /\ 1 \in 1 .. MaxAttempts
    BY Bounds
  <2> HIDE DEF works
  <2> QED
    BY <1>4, <1>7, <2>1, <2>2, <2>3 DEF IInv, TypeOK
<1>9. UNCHANGED Stream!vars
  BY <1>6 DEF Ask, Stream!vars
<1> QED
  BY <1>5, <1>8, <1>9 DEF IInv

\* A call that returns.
LEMMA ReturnStep ==
  ASSUME BoundsAssumption, IInv, pc = "waiting", NEW n \in Nat \ {0}, NEW next, NEW gone,
         GoesOn(n, next, gone), Return(next, page \cup Stream!Between(at, Behind(n)), gone)
  PROVE  IInv' /\ Stream!Deliver
<1>1. PICK reached : Reaches(n, next, reached, gone)
  BY NextReaches
<1>2. CallOK' /\ Stream!NothingSkipped' /\ Stream!Deliver
  BY <1>1, ReturnDelivers
<1>3. /\ upstream \in Seq(Seq(Records)) /\ Accepted \subseteq Records
      /\ page \subseteq Works /\ provider \in Providers
  BY AcceptedRecords DEF IInv, TypeOK
<1>4. Stream!Between(at, Behind(n)) \subseteq Works
  BY <1>3, BetweenFinite
<1>5. Stream!Places' = Stream!Places /\ Start \in Stream!Places
  <2>1. Stream!Places' = Stream!Places
    BY DEF Stream!Places, Return
  <2> QED
    BY <1>3, <2>1, StartIsPlace
<1>6. TypeOK'
  <2>1. /\ UNCHANGED <<caller, provider, upstream>> /\ cursor' = next /\ pc' = "idle"
        /\ at' = Start /\ page' = {} /\ count' = 0 /\ requests' = 0 /\ attempt' = 1
        /\ total' = 0 /\ seen' = {} /\ leaving' = {} /\ left' = left \cup leaving \cup gone
        /\ delivered' = delivered \cup (page \cup Stream!Between(at, Behind(n)))
    BY DEF Return, Forget
  <2>2. next \in Stream!Places /\ gone \subseteq Stream!Places
    BY <1>1 DEF Reaches
  <2>3. delivered' \subseteq Works
    BY <1>3, <1>4, <2>1 DEF IInv, TypeOK
  <2>4. 0 \in 0 .. MaxResults /\ 1 \in 1 .. MaxAttempts /\ 0 < MaxRequests
    BY Bounds
  <2> QED
    BY <1>5, <2>1, <2>2, <2>3, <2>4 DEF IInv, TypeOK
<1> QED
  BY <1>2, <1>6 DEF IInv

\* A call that raises leaves the caller as it was.
LEMMA RaiseStep ==
  ASSUME BoundsAssumption, IInv, Raise
  PROVE  IInv' /\ UNCHANGED Stream!vars
<1>1. /\ UNCHANGED <<caller, provider, upstream, cursor, delivered, left>> /\ pc' = "idle"
      /\ at' = Start /\ page' = {} /\ count' = 0 /\ requests' = 0 /\ attempt' = 1
      /\ total' = 0 /\ seen' = {} /\ leaving' = {} /\ Accepted' = Accepted
  BY AcceptedStays DEF Raise, Forget
<1>2. Stream!Places' = Stream!Places /\ Start \in Stream!Places
  <2>1. Stream!Places' = Stream!Places
    BY <1>1 DEF Stream!Places
  <2> QED
    BY <2>1, StartIsPlace DEF IInv, TypeOK
<1>3. TypeOK'
  <2>1. 0 \in 0 .. MaxResults /\ 1 \in 1 .. MaxAttempts /\ 0 < MaxRequests
    BY Bounds
  <2> QED
    BY <1>1, <1>2, <2>1 DEF IInv, TypeOK
<1>4. Stream!NothingSkipped'
  BY <1>1, CallerKeeps
<1> QED
  BY <1>1, <1>3, <1>4 DEF IInv, CallOK, Stream!vars

\* A step that changes nothing but the number of the attempt.
LEMMA SameCall ==
  ASSUME BoundsAssumption, IInv, attempt' \in 1 .. MaxAttempts,
         UNCHANGED <<caller, provider, upstream, cursor, delivered, left, at, pc, page, count,
                     requests, total, seen, leaving>>
  PROVE  IInv' /\ UNCHANGED Stream!vars
<1>1. /\ UNCHANGED <<caller, provider, upstream, cursor, delivered, left, at, pc, page, count,
                     requests, total, seen, leaving>>
      /\ attempt' \in 1 .. MaxAttempts /\ Accepted' = Accepted
  BY AcceptedStays
<1>2. TypeOK'
  <2>1. Stream!Places' = Stream!Places
    BY <1>1 DEF Stream!Places
  <2> QED
    BY <1>1, <2>1 DEF IInv, TypeOK
<1>3. Stream!NothingSkipped'
  BY <1>1, CallerKeeps
<1>4. CallOK'
  <2> SUFFICES ASSUME pc = "waiting"
               PROVE  \E r : Covered(r)'
    BY <1>1 DEF IInv, CallOK
  <2>1. PICK r : Covered(r)
    BY DEF IInv, CallOK
  <2>2. /\ Stream!Owed(cursor, <<at[1], r>>, left \cup leaving)'
             = Stream!Owed(cursor, <<at[1], r>>, left \cup leaving)
        /\ Stream!Between(Start, <<at[1], r>>)' = Stream!Between(Start, <<at[1], r>>)
    BY <1>1 DEF Stream!Between, Stream!Owed, Stream!Lies, Stream!Upto, Stream!Cut, Start
  <2>3. Stream!Upto(cursor, <<at[1], r>>)'
    BY <1>1, <2>1 DEF Covered, Stream!Upto
  <2>4. Covered(r)'
    BY <1>1, <2>1, <2>2, <2>3 DEF Covered
  <2> QED
    BY <2>4
<1> QED
  BY <1>1, <1>2, <1>3, <1>4 DEF IInv, Stream!vars

\* A call starts at the caller's cursor and has read nothing.
LEMMA CallStep ==
  ASSUME BoundsAssumption, IInv, Call
  PROVE  IInv' /\ UNCHANGED Stream!vars
<1>1. /\ UNCHANGED <<caller, provider, upstream, cursor, delivered, left>> /\ Accepted' = Accepted
      /\ cursor # End /\ pc' = "waiting" /\ at' = cursor /\ page' = {} /\ count' = 0
      /\ requests' = 0 /\ attempt' = 1 /\ total' = 0 /\ seen' = {cursor} /\ leaving' = {}
  BY AcceptedStays DEF Call
<1>2. /\ upstream \in Seq(Seq(Records)) /\ cursor \in Stream!Places /\ cursor \in Place
      /\ cursor = <<cursor[1], cursor[2]>> /\ cursor[1] \in Nat /\ cursor[2] \in Nat
  BY PlaceShape, SMTT(30) DEF IInv, TypeOK, Place
<1>3. cursor[1] \in DOMAIN upstream /\ cursor[2] <= Len(upstream[cursor[1]])
  BY <1>1, <1>2, PlaceShape
<1>4. TypeOK'
  <2>1. Stream!Places' = Stream!Places
    BY <1>1 DEF Stream!Places
  <2>2. 0 \in 0 .. MaxResults /\ 1 \in 1 .. MaxAttempts /\ 0 < MaxRequests
    BY Bounds
  <2> QED
    BY <1>1, <2>1, <2>2 DEF IInv, TypeOK
<1>5. Stream!NothingSkipped'
  BY <1>1, CallerKeeps
<1>6. CallOK'
  <2>1. Stream!Upto(cursor, cursor) /\ Stream!Owed(cursor, cursor, left) = {}
    BY <1>2, UptoOrder, OwedEmpty
  <2>0. PICK i : i = cursor[2]
    OBVIOUS
  <2>2. Stream!Owed(cursor, <<at[1], i>>, left \cup leaving)' = Stream!Owed(cursor, cursor, left)
    <3>1. (left \cup leaving)' = left
      BY <1>1
    <3> QED
      BY <1>1, <1>2, <2>0, <3>1 DEF Stream!Owed, Stream!Lies, Stream!Upto, Stream!Cut
  <2>3. Stream!Upto(cursor, <<at[1], i>>)'
    BY <1>1, <1>2, <2>0, <2>1 DEF Stream!Upto
  <2>4. Covered(i)'
    <3>1. i \in Nat /\ at'[2] <= i /\ i <= Len(upstream'[at'[1]])
      BY <1>1, <1>2, <1>3, <2>0
    <3>2. /\ (Stream!Owed(cursor, <<at[1], i>>, left \cup leaving) \subseteq delivered \cup page)'
          /\ (page \subseteq Stream!Between(Start, <<at[1], i>>))'
      BY <1>1, <2>1, <2>2
    <3> QED
      BY <2>3, <3>1, <3>2 DEF Covered
  <2>5. IsFiniteSet({}) /\ 0 < MaxResults
    BY FS_EmptySet, Bounds
  <2> QED
    BY <1>1, <1>3, <2>4, <2>5 DEF CallOK
<1> QED
  BY <1>1, <1>4, <1>5, <1>6 DEF IInv, Stream!vars

\* A response of Crossref.
LEMMA CrossrefStep ==
  ASSUME BoundsAssumption, IInv, CrossrefPage
  PROVE  IInv' /\ (Stream!Deliver \/ UNCHANGED Stream!vars)
<1> DEFINE n == Lowest(Rows, MaxResults - count)
           works == page \cup Stream!Between(at, Behind(n))
           number == Cardinality(works)
<1>1. pc = "waiting" /\ provider = "crossref"
  BY DEF CrossrefPage
<1>2. n \in Nat \ {0}
  BY <1>1, Bounds DEF Lowest, IInv, TypeOK, CallOK
<1>3. number \in Nat
  <2>1. /\ upstream \in Seq(Seq(Records)) /\ Accepted \subseteq Records /\ IsFiniteSet(page)
    BY <1>1, AcceptedRecords DEF IInv, TypeOK, CallOK
  <2>2. IsFiniteSet(Stream!Between(at, Behind(n)))
    BY <2>1, BetweenFinite
  <2>3. IsFiniteSet(works)
    BY <2>1, <2>2, FS_Union
  <2> QED
    BY <2>3, FS_CardinalityType
<1>4. PICK to \in NextCursors(n) :
        LET next == Onward(n, to)
            gone == GivenUp(n, to)
        IN IF next # End /\ number < MaxResults /\ requests + 1 < MaxRequests /\ next \notin seen
           THEN Ask(next, works, number, gone) /\ UNCHANGED total
           ELSE Return(next, works, gone)
  BY DEF CrossrefPage
<1> DEFINE next == Onward(n, to)
           gone == GivenUp(n, to)
<1>5. GoesOn(n, next, gone)
  BY DEF GoesOn, Onward, GivenUp
<1> HIDE DEF n, number, next, gone
<1>6. CASE Return(next, works, gone)
  BY <1>1, <1>2, <1>5, <1>6, ReturnStep
<1>7. CASE /\ next # End /\ number < MaxResults /\ requests + 1 < MaxRequests
           /\ Ask(next, works, number, gone) /\ UNCHANGED total
  <2>1. total' \in Nat
    BY <1>7 DEF IInv, TypeOK
  <2> QED
    BY <1>1, <1>2, <1>3, <1>5, <1>7, <2>1, AskStep
<1> QED
  BY <1>4, <1>6, <1>7 DEF next, gone

\* A response of OpenAlex.
LEMMA OpenAlexStep ==
  ASSUME BoundsAssumption, IInv, OpenAlexPage
  PROVE  IInv' /\ (Stream!Deliver \/ UNCHANGED Stream!vars)
<1> DEFINE n == Lowest(Rows, MaxResults - count)
           works == page \cup Stream!Between(at, Behind(n))
           number == count + (Behind(n)[2] - at[2])
           held == Len(upstream[at[1]])
<1>1. pc = "waiting" /\ provider = "openalex"
  BY DEF OpenAlexPage
<1>2. n \in Nat \ {0}
  BY <1>1, Bounds DEF Lowest, IInv, TypeOK, CallOK
<1>3. number \in Nat /\ held \in Nat
  <2>1. /\ at[2] \in Nat /\ Behind(n)[2] \in Nat /\ at[2] <= Behind(n)[2] /\ held \in Nat
    BY <1>1, <1>2, BehindPlace DEF Place
  <2>2. count \in Nat
    BY Bounds DEF IInv, TypeOK
  <2> QED
    BY <2>1, <2>2, SMTT(30)
<1>4. CASE Raise
  BY <1>4, RaiseStep
<1>5. CASE \E next \in NextCursors(n) :
             IF next # End /\ Results(n) # {} /\ next \notin seen /\ number < MaxResults
             THEN Ask(next, works, number, {}) /\ total' = held
             ELSE Return(next, works, {})
  <2>1. PICK next \in NextCursors(n) :
          IF next # End /\ Results(n) # {} /\ next \notin seen /\ number < MaxResults
          THEN Ask(next, works, number, {}) /\ total' = held
          ELSE Return(next, works, {})
    BY <1>5
  <2>0. GoesOn(n, next, {})
    BY <2>1 DEF GoesOn
  <2> HIDE DEF n, number, held
  <2>2. CASE Return(next, works, {})
    BY <1>1, <1>2, <2>0, <2>2, ReturnStep
  <2>3. CASE next # End /\ number < MaxResults /\ Ask(next, works, number, {}) /\ total' = held
    BY <1>1, <1>2, <1>3, <2>0, <2>3, AskStep
  <2> QED
    BY <2>1, <2>2, <2>3
<1> QED
  BY <1>4, <1>5 DEF OpenAlexPage

\* A response of Semantic Scholar.
LEMMA SemanticScholarStep ==
  ASSUME BoundsAssumption, IInv, SemanticScholarPage
  PROVE  IInv' /\ (Stream!Deliver \/ UNCHANGED Stream!vars)
<1>1. pc = "waiting" /\ provider = "semantic_scholar" /\ page = {}
  BY DEF SemanticScholarPage, IInv, CallOK
<1>2. PICK n \in 1 .. BulkSize :
        \/ Raise
        \/ \E next \in IF Results(n) = {} THEN {Complete} ELSE NextCursors(n) :
             Return(next, Stream!Between(at, Behind(n)), {})
  BY DEF SemanticScholarPage
<1>3. n \in Nat \ {0}
  BY Bounds
<1>4. CASE Raise
  BY <1>4, RaiseStep
<1>5. ASSUME NEW next \in IF Results(n) = {} THEN {Complete} ELSE NextCursors(n),
             Return(next, Stream!Between(at, Behind(n)), {})
      PROVE  IInv' /\ Stream!Deliver
  <2>1. page \cup Stream!Between(at, Behind(n)) = Stream!Between(at, Behind(n))
    BY <1>1
  <2>2. Return(next, page \cup Stream!Between(at, Behind(n)), {})
    BY <1>5, <2>1
  <2>3. GoesOn(n, next, {})
    BY <1>5 DEF GoesOn
  <2> QED
    BY <1>1, <1>3, <2>2, <2>3, ReturnStep
<1> QED
  BY <1>2, <1>4, <1>5

----------------------------------------------------------------------------
(* The theorems *)

LEMMA InitOK == BoundsAssumption /\ Init => IInv /\ Stream!Init
<1> SUFFICES ASSUME BoundsAssumption, Init PROVE IInv /\ Stream!Init
  OBVIOUS
<1>1. upstream \in Seq(Seq(Records)) /\ provider \in Providers
  BY DEF Init, BoundsAssumption
<1>2. Accepted \subseteq Records
  BY <1>1, AcceptedRecords
<1>3. Start \in Stream!Places /\ Start \in Place
  BY <1>1, StartIsPlace, PlaceShape
<1>4. TypeOK
  BY <1>1, <1>3, Bounds DEF Init, TypeOK
<1>5. Stream!NothingSkipped
  <2>1. Stream!Owed(Start, Start, left) = {}
    BY <1>1, <1>3, UptoOrder, OwedEmpty
  <2> QED
    BY <2>1 DEF Init, Stream!NothingSkipped, Stream!Start, Start
<1>6. CallOK
  BY DEF Init, CallOK
<1>7. Stream!Init
  BY <1>1, <1>2 DEF Init, Stream!Init, Stream!Start, Start
<1> QED
  BY <1>4, <1>5, <1>6, <1>7 DEF IInv

LEMMA StepOK ==
  BoundsAssumption /\ IInv /\ [Next]_vars => IInv' /\ [Stream!Next]_Stream!vars
<1> SUFFICES ASSUME BoundsAssumption, IInv, [Next]_vars
             PROVE  IInv' /\ [Stream!Next]_Stream!vars
  OBVIOUS
<1>1. CASE Publish
  BY <1>1, PublishKeeps DEF Stream!Next
<1>2. CASE Call
  BY <1>2, CallStep
<1>3. CASE Retry
  <2>1. attempt' \in 1 .. MaxAttempts
    BY <1>3, Bounds DEF Retry, IInv, TypeOK
  <2> QED
    BY <1>3, <2>1, SameCall DEF Retry
<1>4. CASE Refuse
  BY <1>4, RaiseStep DEF Refuse
<1>5. CASE CrossrefPage
  BY <1>5, CrossrefStep DEF Stream!Next
<1>6. CASE OpenAlexPage
  BY <1>6, OpenAlexStep DEF Stream!Next
<1>7. CASE SemanticScholarPage
  BY <1>7, SemanticScholarStep DEF Stream!Next
<1>8. CASE UNCHANGED vars
  BY <1>8, SameCall DEF vars, call, IInv, TypeOK
<1> QED
  BY <1>1, <1>2, <1>3, <1>4, <1>5, <1>6, <1>7, <1>8 DEF Next, Attempt

LEMMA Invariant == Spec => []IInv
<1>1. Init => IInv
  BY InitOK, BoundsAssumption
<1>2. IInv /\ [Next]_vars => IInv'
  BY StepOK, BoundsAssumption
<1> QED
  BY <1>1, <1>2, PTL DEF Spec

\* The variables of the page loops have their types and a call keeps to its
\* bounds (search_with_raw of src/app/providers/search/crossref.py, openalex.py
\* and semantic_scholar.py).
THEOREM TypeCorrect == Spec => []TypeOK
<1>1. IInv => TypeOK
  BY DEF IInv
<1> QED
  BY <1>1, Invariant, PTL

\* However requests fail, are tried again or refused, wherever the provider's
\* cursors lead and whatever it indexes meanwhile, no record the provider maps is
\* missing before the caller's cursor, but for the rest of the queries given up
\* because Crossref handed the sent cursor back (the page loops of search_with_raw).
THEOREM NothingIsSkipped == Spec => []Stream!NothingSkipped
<1>1. IInv => Stream!NothingSkipped
  BY DEF IInv
<1> QED
  BY <1>1, Invariant, PTL

\* Only Crossref gives a query up, and only when a cursor leads back.
OnlyRepeatsCut == left \cup leaving # {} => provider = "crossref" /\ Loops

LEMMA RepeatsCut == IInv /\ OnlyRepeatsCut /\ [Next]_vars => OnlyRepeatsCut'
<1> SUFFICES ASSUME IInv, OnlyRepeatsCut, [Next]_vars PROVE OnlyRepeatsCut'
  OBVIOUS
<1>1. ASSUME left' \cup leaving' \subseteq left \cup leaving, provider' = provider
      PROVE  OnlyRepeatsCut'
  BY <1>1 DEF OnlyRepeatsCut
<1>2. CASE CrossrefPage
  <2> DEFINE n == Lowest(Rows, MaxResults - count)
  <2>1. pc = "waiting" /\ provider = "crossref" /\ provider' = provider
    BY <1>2 DEF CrossrefPage, Ask, Return
  <2>2. n \in Nat \ {0}
    BY <2>1, BoundsAssumption, Bounds DEF Lowest, IInv, TypeOK, CallOK
  <2>3. PICK to \in NextCursors(n) : left' \cup leaving' \subseteq left \cup leaving \cup GivenUp(n, to)
    BY <1>2 DEF CrossrefPage, Ask, Return, Forget
  <2> HIDE DEF n
  <2>4. CASE ~ Loops
    <3>1. to = Behind(n) \/ to = Complete
      BY <2>4 DEF NextCursors
    <3>2. at \in Place /\ Behind(n) \in Place /\ Behind(n)[1] = at[1]
      BY <2>1, <2>2, BehindPlace
    <3>3. to = at => Results(n) = {}
      <4> SUFFICES ASSUME to = at PROVE Results(n) = {}
        OBVIOUS
      <4>1. Complete # at
        BY <3>2 DEF Complete, Place
      <4>2. Behind(n)[2] = at[2] /\ at[2] \in Nat
        BY <3>1, <3>2, <4>1 DEF Place
      <4>3. at[2] + 1 .. Behind(n)[2] = {}
        BY <4>2
      <4> QED
        BY <4>3 DEF Results
    <3>4. GivenUp(n, to) = {}
      BY <3>3 DEF GivenUp
    <3> QED
      BY <1>1, <2>1, <2>3, <3>4
  <2>5. CASE Loops
    BY <2>1, <2>5 DEF OnlyRepeatsCut
  <2> QED
    BY <2>4, <2>5
<1>3. CASE ~ CrossrefPage
  <2>1. provider' = provider
    BY <1>3 DEF Next, Attempt, Publish, Call, call, vars, Retry, Refuse, Raise, OpenAlexPage,
                SemanticScholarPage, Ask, Return
  <2>2. left' \cup leaving' \subseteq left \cup leaving
    BY <1>3 DEF Next, Attempt, Publish, Call, call, vars, Retry, Refuse, Raise, OpenAlexPage,
                SemanticScholarPage, Ask, Return, Forget
  <2> QED
    BY <1>1, <2>1, <2>2
<1> QED
  BY <1>2, <1>3

\* OpenAlex, Semantic Scholar and a Crossref whose cursors never lead back skip
\* nothing at all: giving a query up is the only way to lose a record.
THEOREM OnlyRepeatsSkip ==
  Spec => [](~ (provider = "crossref" /\ Loops) => Stream!Between(Start, cursor) \subseteq delivered)
<1>1. Init => OnlyRepeatsCut
  BY DEF Init, OnlyRepeatsCut
<1>2. IInv /\ OnlyRepeatsCut =>
        (~ (provider = "crossref" /\ Loops) => Stream!Between(Start, cursor) \subseteq delivered)
  <2> SUFFICES ASSUME IInv, OnlyRepeatsCut, ~ (provider = "crossref" /\ Loops)
               PROVE  Stream!Between(Start, cursor) \subseteq delivered
    OBVIOUS
  <2>1. left = {}
    BY DEF OnlyRepeatsCut
  <2> QED
    BY <2>1 DEF IInv, Stream!NothingSkipped, Stream!Between, Stream!Start, Start
<1> QED
  BY <1>1, <1>2, RepeatsCut, Invariant, PTL DEF Spec

\* The page loops of search_with_raw implement the record stream: every step of
\* theirs is a step of RecordStream or changes nothing of it.
THEOREM Implements == Spec => StreamSpec
<1>1. Init => Stream!Init
  BY InitOK, BoundsAssumption
<1>2. IInv /\ [Next]_vars => [Stream!Next]_Stream!vars
  BY StepOK, BoundsAssumption
<1>3. Spec => Stream!Init /\ [][Stream!Next]_Stream!vars
  BY <1>1, <1>2, Invariant, PTL DEF Spec
<1> QED
  BY <1>3 DEF StreamSpec, Stream!Spec

================================================================================
