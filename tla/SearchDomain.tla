----------------------------- MODULE SearchDomain ------------------------------
(***************************************************************************)
(* What one run of the search engine computes: the three-valued test of a  *)
(* publication against the canonical query, the reuse of abstracts between *)
(* providers, the merging of results by DOI, and the constraints of the    *)
(* request.                                                                *)
(*                                                                         *)
(* A publication is [prov, doi, work, text, fits]: its provenance keys in  *)
(* order, its normalised DOI, its normalised title, the terms found in each*)
(* of its fields, None for a field it lacks, and whether year, language,   *)
(* type and access satisfy the request.  A query is its syntax tree in     *)
(* post-order, so that the children of a node precede it.                  *)
(***************************************************************************)
EXTENDS Integers, SequencesExt, Functions

CONSTANTS None

IsPublication(p) ==
  /\ p = [prov |-> p.prov, doi |-> p.doi, work |-> p.work,
          text |-> [title |-> p.text.title, abstract |-> p.text.abstract], fits |-> p.fits]
  /\ p.prov \in Seq(ToSet(p.prov)) \ {<<>>} /\ p.prov[1] # None

Put(f, x, v) == [y \in DOMAIN f \cup {x} |-> IF y = x THEN v ELSE f[y]]

----------------------------------------------------------------------------
(* canonical_query_validator *)

\* An unscoped term is looked for in the title and in the abstract.
Scope(field) == IF field = "any" THEN {"title", "abstract"} ELSE {field}

TermStatus(t, p) ==
  LET given == {f \in Scope(t.field) : p.text[f] # None}
  IN IF \E f \in given : t.term \in p.text[f] THEN "match"
     ELSE IF given # Scope(t.field) THEN "indeterminate" ELSE "non_match"

Combine(op, kids) ==
  LET first(order) == CHOOSE s \in kids : \A t \in kids : order[s] <= order[t]
  IN CASE op = "and" -> first([non_match |-> 1, indeterminate |-> 2, match |-> 3])
       [] op = "or"  -> first([match |-> 1, indeterminate |-> 2, non_match |-> 3])
       [] op = "not" -> [match |-> "non_match", non_match |-> "match",
                         indeterminate |-> "indeterminate"][CHOOSE s \in kids : TRUE]

QueryStatus(query, p) ==
  LET status[i \in 1..Len(query)] ==
        IF query[i].op = "term" THEN TermStatus(query[i], p)
        ELSE Combine(query[i].op, {status[j] : j \in query[i].kids})
  IN status[Len(query)]

Retained(query, ps) ==
  FoldLeft(LAMBDA kept, p : IF QueryStatus(query, p) = "non_match" THEN kept ELSE Append(kept, p), <<>>, ps)

----------------------------------------------------------------------------
(* metadata_enrichment: a search never looks an abstract up outside *)

KnownAbstracts(known, provider, ps) ==
  FoldLeft(LAMBDA k, p : IF p.doi = None \/ p.text.abstract = None THEN k
                         ELSE Put(k, p.doi, [text |-> p.text.abstract, source |-> provider]),
           known, ps)

Enriched(known, p) ==
  IF p.text.abstract # None \/ p.doi \notin DOMAIN known THEN p
  ELSE [p EXCEPT !.text.abstract = known[p.doi].text,
                 !.prov = Append(@, <<known[p.doi].source, p.doi>>)]

----------------------------------------------------------------------------
(* result_merger *)

MergeTwo(a, b) ==
  [a EXCEPT !.text = [f \in DOMAIN @ |-> IF @[f] = None THEN b.text[f] ELSE @[f]],
            !.prov = FoldLeft(LAMBDA keys, k : IF k \in ToSet(a.prov) THEN keys ELSE Append(keys, k), @, b.prov)]

MergedByDoi(ps) ==
  FoldLeft(LAMBDA acc, p :
             LET same == {i \in DOMAIN acc : acc[i].doi = p.doi}
             IN IF p.doi = None \/ same = {} THEN Append(acc, p)
                ELSE LET i == CHOOSE j \in same : TRUE IN [acc EXCEPT ![i] = MergeTwo(@, p)],
           <<>>, ps)

----------------------------------------------------------------------------
(* search_engine: the providers of the request, one after the other.  A    *)
(* provider that fails contributes nothing and does not stop the others.   *)

Execute(query, responses) ==
  FoldLeft(LAMBDA acc, r :
             IF r.failed THEN acc
             ELSE LET known == KnownAbstracts(acc.known, r.provider, r.hits)
                  IN [known |-> known,
                      found |-> acc.found \o
                        Retained(query, [i \in DOMAIN r.hits |-> Enriched(known, r.hits[i])])],
           [known |-> <<>>, found |-> <<>>], responses).found

\* The merged results, tested again because a merge can fill in a field.
SearchResults(query, responses) ==
  {p \in ToSet(MergedByDoi(Execute(query, responses))) : QueryStatus(query, p) # "non_match" /\ p.fits}
================================================================================
