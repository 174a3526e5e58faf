------------------------------- MODULE Paging -------------------------------
(***************************************************************************)
(* One provider of the live search, from the caller's cursor down to the   *)
(* HTTP attempts: search_with_raw of CrossrefProvider, OpenAlexProvider    *)
(* and SemanticScholarProvider (src/app/providers/search/) over the _get   *)
(* of their clients (src/app/providers/), built by                         *)
(* LiveSearchService._build_providers with paginate = True.                *)
(*                                                                         *)
(* One call of search_with_raw asks for several pages.  Each page is one   *)
(* request, tried up to MaxAttempts times; while it is in flight `at' is   *)
(* the place asked for and the provider's index may grow.  A failure of    *)
(* any page loses the whole call.  The caller (the page loop of module     *)
(* FetchAll, which sees a call as one step) calls again with the cursor it *)
(* holds.  A fetch-all job pins the queries of its plan and passes them    *)
(* with every call; a browser that asks for more results (the cursor of    *)
(* SearchStrategyExecutionRequest) sends its cursor alone.                 *)
(*                                                                         *)
(* A physical cursor is a place <<q, i>> of module RecordStream.  Queries  *)
(* are those of the Crossref candidate plan (module CrossrefPlan); the     *)
(* other providers have one.                                               *)
(***************************************************************************)
EXTENDS Naturals, Sequences, FiniteSets

CONSTANTS Records, Works, WorkOf,
          Titled,        \* records with a usable title
          Named,         \* records with the provider's own id
          Providers,     \* the providers of the instance
          Holdings,      \* per provider, the results its queries may have
          Loops,         \* may a provider's next cursor lead back?
          Rows,          \* per_page / rows of one request
          BulkSize,      \* largest page of the Semantic Scholar bulk search
          MaxResults,    \* max_results of one call
          MaxRequests,   \* max_physical_requests_per_call
          MaxAttempts,   \* retry_attempts / max_attempts of the clients
          MaxLength      \* bound on the results of one query

ASSUME BoundsAssumption ==
  /\ {Rows, BulkSize, MaxResults, MaxRequests, MaxAttempts} \subseteq Nat \ {0}
  /\ MaxLength \in Nat /\ Loops \in BOOLEAN
  /\ Titled \subseteq Records /\ Named \subseteq Records
  /\ WorkOf \in [Records -> Works]
  /\ Providers \subseteq {"crossref", "openalex", "semantic_scholar"}
  /\ \A p \in Providers : Holdings[p] \subseteq Seq(Seq(Records)) \ {<<>>}

VARIABLES caller,     \* "job" or "browser"
          provider, upstream, cursor, delivered,
          at,         \* the place the request in flight asks for
          pc,         \* "idle" between calls, "waiting" for a response
          page,       \* works mapped so far in this call
          count,      \* len(publications) of this call
          requests,   \* len(raw_responses) of this call
          attempt,    \* attempt number of the request in flight
          total,      \* meta.count of the call's first page, or 0
          seen,       \* places asked for in this call
          leaving,    \* the places at which this call has given queries up
          left        \* those of the calls that returned

call == <<at, pc, page, count, requests, attempt, total, seen, leaving>>

vars == <<caller, provider, upstream, cursor, delivered, left, call>>

\* The records a provider's mapping does not refuse.  Crossref needs a title;
\* its id falls back on the title and the year.
CrossrefMaps == Titled

\* OpenAlex and Semantic Scholar need an id of their own too.
OpenAlexMaps == Titled \cap Named

SemanticScholarMaps == Named \cap Titled

Accepted == CASE provider = "crossref" -> CrossrefMaps
              [] provider = "openalex" -> OpenAlexMaps
              [] provider = "semantic_scholar" -> SemanticScholarMaps

Stream == INSTANCE RecordStream WITH accepts <- Accepted

Start == <<1, 0>>

End == <<Len(upstream) + 1, 0>>

Lowest(a, b) == IF a <= b THEN a ELSE b

\* The place behind a page of n results, and the results of such a page.
Behind(n) == <<at[1], Lowest(at[2] + n, Len(upstream[at[1]]))>>

Results(n) == {upstream[at[1]][i] : i \in at[2] + 1 .. Behind(n)[2]}

\* The next cursors a response may carry; End of the query is a place of the
\* next one.
Complete == <<at[1] + 1, 0>>

NextCursors(n) ==
  {Behind(n)} \cup (IF Behind(n)[2] = Len(upstream[at[1]]) THEN {Complete} ELSE {})
              \cup (IF Loops THEN {<<at[1], i>> : i \in 0 .. at[2]} ELSE {})

Init ==
  /\ caller \in {"job", "browser"}
  /\ provider \in Providers
  /\ upstream \in Holdings[provider]
  /\ cursor = Start /\ delivered = {}
  /\ at = Start /\ pc = "idle" /\ page = {} /\ count = 0
  /\ requests = 0 /\ attempt = 1 /\ total = 0 /\ seen = {}
  /\ leaving = {} /\ left = {}

\* The provider indexes a record in a query not read to its end.
Publish ==
  \E q \in DOMAIN upstream, r \in Records :
    /\ q >= (IF pc = "waiting" THEN at[1] ELSE cursor[1])
    /\ Len(upstream[q]) < MaxLength
    /\ upstream' = [upstream EXCEPT ![q] = Append(@, r)]
    /\ UNCHANGED <<caller, provider, cursor, delivered, left, call>>

\* Does the provider take the cursor?  Crossref puts the fingerprint of the
\* plan into a cursor of a plan of several queries; the cursor of a plan of one
\* is the physical cursor itself, which is taken only with pinned queries.
Takes(place) ==
  \/ provider # "crossref" \/ caller = "job"
  \/ place = Start \/ Len(upstream) > 1

\* The caller asks for what follows its cursor.
Call ==
  /\ pc = "idle" /\ cursor # End /\ Takes(cursor)
  /\ pc' = "waiting" /\ at' = cursor
  /\ page' = {} /\ count' = 0 /\ requests' = 0 /\ attempt' = 1 /\ total' = 0
  /\ seen' = {cursor} /\ leaving' = {}
  /\ UNCHANGED <<caller, provider, upstream, cursor, delivered, left>>

\* Between calls nothing of the last one is left.
Forget ==
  /\ pc' = "idle" /\ at' = Start /\ page' = {} /\ count' = 0
  /\ requests' = 0 /\ attempt' = 1 /\ total' = 0 /\ seen' = {} /\ leaving' = {}

\* Mutant for Raise: the caller goes on behind the pages the call lost.
RaisePast == Forget /\ cursor' = at /\ UNCHANGED <<caller, provider, upstream, delivered, left>>

\* The call raises: the pages it had are lost, the caller keeps its cursor.
Raise == Forget /\ UNCHANGED <<caller, provider, upstream, cursor, delivered, left>>

\* The call returns what it has and the cursor `to'; with the page in hand it
\* gave queries up at the places `gone'.
Return(to, works, gone) ==
  /\ Forget
  /\ cursor' = to /\ delivered' = delivered \cup works
  /\ left' = left \cup leaving \cup gone
  /\ UNCHANGED <<caller, provider, upstream>>

\* The call goes on with the page at `to'.
Ask(to, works, number, gone) ==
  /\ at' = to /\ page' = works /\ count' = number
  /\ requests' = requests + 1 /\ attempt' = 1 /\ seen' = seen \cup {to}
  /\ leaving' = leaving \cup gone
  /\ UNCHANGED <<caller, provider, upstream, cursor, delivered, left, pc>>

\* Mutants for Retry: one attempt too many; attempts without an end.
RetryOnceMore ==
  /\ pc = "waiting" /\ attempt <= MaxAttempts
  /\ attempt' = attempt + 1
  /\ UNCHANGED <<caller, provider, upstream, cursor, delivered, left, at, pc, page, count,
                 requests, total, seen, leaving>>

RetryForever ==
  /\ pc = "waiting"
  /\ attempt' = IF attempt < MaxAttempts THEN attempt + 1 ELSE 1
  /\ UNCHANGED <<caller, provider, upstream, cursor, delivered, left, at, pc, page, count,
                 requests, total, seen, leaving>>

\* A 429, a 5xx or a transport error with attempts left: after a wait the
\* client tries again.
Retry ==
  /\ pc = "waiting" /\ attempt < MaxAttempts
  /\ attempt' = attempt + 1
  /\ UNCHANGED <<caller, provider, upstream, cursor, delivered, left, at, pc, page, count,
                 requests, total, seen, leaving>>

\* The last attempt failed, the request was refused, or the client cannot read
\* the answer.
Refuse == pc = "waiting" /\ Raise

\* Where a Crossref call goes on: an empty page, no further cursor and the very
\* cursor that was sent all complete the query.
Onward(n, to) == IF Results(n) = {} \/ to = at THEN Complete ELSE to

\* The sent cursor comes back with results: the rest of the query is given up.
GivenUp(n, to) == IF Results(n) # {} /\ to = at THEN {Behind(n)} ELSE {}

\* CrossrefProvider: unmappable results are skipped and a work found again is
\* not added.
CrossrefPage ==
  /\ pc = "waiting" /\ provider = "crossref"
  /\ LET n      == Lowest(Rows, MaxResults - count)
         works  == page \cup Stream!Between(at, Behind(n))
         number == Cardinality(works)
     IN \E to \in NextCursors(n) :
          LET next == Onward(n, to)
              gone == GivenUp(n, to)
          IN IF /\ next # End /\ number < MaxResults
                /\ requests + 1 < MaxRequests /\ next \notin seen
             THEN Ask(next, works, number, gone) /\ UNCHANGED total
             ELSE Return(next, works, gone)

\* OpenAlexProvider: a result it cannot map, or a total that changed since the
\* call's first page, raises.
OpenAlexPage ==
  /\ pc = "waiting" /\ provider = "openalex"
  /\ LET n      == Lowest(Rows, MaxResults - count)
         works  == page \cup Stream!Between(at, Behind(n))
         number == count + (Behind(n)[2] - at[2])
         held   == Len(upstream[at[1]])
     IN \/ /\ (requests > 0 /\ held # total) \/ ~ Results(n) \subseteq Accepted
           /\ Raise
        \/ /\ (requests > 0 => held = total) /\ Results(n) \subseteq Accepted
           /\ \E next \in NextCursors(n) :
                IF next # End /\ Results(n) # {} /\ next \notin seen /\ number < MaxResults
                THEN Ask(next, works, number, {}) /\ total' = held
                ELSE Return(next, works, {})

\* SemanticScholarProvider: one bulk page of the provider's own size; the
\* token counts only when the page had results.
SemanticScholarPage ==
  /\ pc = "waiting" /\ provider = "semantic_scholar"
  /\ \E n \in 1 .. BulkSize :
       \/ ~ Results(n) \subseteq Accepted /\ Raise
       \/ /\ Results(n) \subseteq Accepted
          /\ \E next \in IF Results(n) = {} THEN {Complete} ELSE NextCursors(n) :
               Return(next, Stream!Between(at, Behind(n)), {})

\* An attempt is over, one way or another; the clients have time-outs.
Attempt == Retry \/ Refuse \/ CrossrefPage \/ OpenAlexPage \/ SemanticScholarPage

Next == Publish \/ Call \/ Attempt

Spec == Init /\ [][Next]_vars

FairSpec == Spec /\ WF_vars(Attempt)

-----------------------------------------------------------------------------
\* The variables have their types and a call keeps to its bounds.
TypeOK ==
  /\ caller \in {"job", "browser"} /\ provider \in Providers
  /\ upstream \in Seq(Seq(Records))
  /\ cursor \in Stream!Places /\ at \in Stream!Places
  /\ delivered \subseteq Works /\ page \subseteq Works
  /\ pc \in {"idle", "waiting"}
  /\ count \in 0 .. MaxResults /\ requests \in Nat /\ attempt \in 1 .. MaxAttempts
  /\ total \in Nat /\ seen \subseteq Stream!Places
  /\ provider = "crossref" => requests < MaxRequests
  /\ left \cup leaving \subseteq Stream!Places

\* The page loop of one call, its retries, its lost calls and its cursors
\* together are the stream of module RecordStream: a call delivers everything
\* owed from the caller's cursor to the place it reached and the new cursor is
\* not past that place.  What a call does not owe is the rest of a query whose
\* sent cursor Crossref hands back with results (search/crossref.py:348-355).
StreamSpec == Stream!Spec

\* Every call ends, with a page or with an exception, however the provider
\* answers: retries, repeated cursors and pages without a new work are bounded.
CallEnds == pc = "waiting" ~> pc = "idle"

\* A cursor the provider handed out is one it takes: the results can be read
\* to their end across calls (docs/DECISIONS.md:1512).
OwnCursorIsTaken == cursor # End => Takes(cursor)
=============================================================================
