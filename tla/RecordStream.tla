---------------------------- MODULE RecordStream ----------------------------
(***************************************************************************)
(* What a search provider promises the code that pages through it: one     *)
(* stream of records, read in order.  A call delivers every record between *)
(* the caller's cursor and some later place, and hands back a cursor that  *)
(* is never past that place; a call that fails delivers nothing and leaves *)
(* the cursor where it was.  A call may also give a query up half-way and  *)
(* go on with the next one: it says where it left it, and what lies behind *)
(* that place in that query is not owed any more.                          *)
(*                                                                         *)
(* The stream is the results of the physical queries, one after another;   *)
(* <<q, i>> is the place behind the i-th result of query q.  Records the   *)
(* provider cannot map (`accepts' holds those it can) are not owed.        *)
(***************************************************************************)
EXTENDS Naturals, Sequences

CONSTANTS Records,     \* the records a provider holds
          Works,       \* what a record is identified by: DOI, paper id, title
          WorkOf       \* the identity of each record

VARIABLES upstream,    \* the results of each physical query
          accepts,     \* the records the provider maps to publications
          cursor,      \* the caller's cursor, a place in the stream
          delivered,   \* the works the caller has been given
          left         \* the places at which queries were given up

vars == <<upstream, accepts, cursor, delivered, left>>

Start == <<1, 0>>

Places == (UNION {{<<q, i>> : i \in 0 .. Len(upstream[q])} : q \in DOMAIN upstream})
            \cup {<<Len(upstream) + 1, 0>>}

\* Place p is not behind place q.
Upto(p, q) == p[1] < q[1] \/ (p[1] = q[1] /\ p[2] <= q[2])

\* The i-th result of query q lies between the two places.
Lies(q, i, from, to) == ~ Upto(<<q, i>>, from) /\ Upto(<<q, i>>, to)

\* The i-th result of query q lies behind the place at which q was given up.
Cut(q, i, cuts) == \E c \in cuts : c[1] = q /\ c[2] < i

\* The works owed between two places: those of the mappable records.
Owed(from, to, cuts) ==
  {WorkOf[r] : r \in {s \in accepts :
       \E q \in DOMAIN upstream : \E i \in DOMAIN upstream[q] :
          upstream[q][i] = s /\ Lies(q, i, from, to) /\ ~ Cut(q, i, cuts)}}

Between(from, to) == Owed(from, to, {})

Init == /\ upstream \in Seq(Seq(Records))
        /\ accepts \in SUBSET Records
        /\ cursor = Start
        /\ delivered = {} /\ left = {}

\* The provider indexes one more record, behind what the caller has read.
Grow == \E q \in DOMAIN upstream, r \in Records :
          /\ q >= cursor[1]
          /\ upstream' = [upstream EXCEPT ![q] = Append(@, r)]
          /\ UNCHANGED <<accepts, cursor, delivered, left>>

\* One successful call.  It hands out nothing the provider has not listed up to
\* the place reached, and gives up only queries it has moved past.
Deliver == \E reached \in Places, next \in Places :
             /\ Upto(cursor, reached) /\ Upto(next, reached)
             /\ cursor' = next
             /\ left \subseteq left'
             /\ \A c \in left' \ left : cursor[1] <= c[1] /\ c[1] < reached[1]
             /\ delivered \cup Owed(cursor, reached, left') \subseteq delivered'
             /\ delivered' \subseteq delivered \cup Between(Start, reached)
             /\ UNCHANGED <<upstream, accepts>>

Next == Grow \/ Deliver

Spec == Init /\ [][Next]_vars

-----------------------------------------------------------------------------
\* Nothing the provider can map is missing before the caller's cursor, but for
\* what lies behind the places at which queries were given up.
NothingSkipped == Owed(Start, cursor, left) \subseteq delivered
=============================================================================
