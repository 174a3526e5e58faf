----------------------------- MODULE ImportDomain ------------------------------
(***************************************************************************)
(* What the imports compute from rows they have read: candidate duplicate  *)
(* groups, the canonical publication of a DOI, the merged document of a    *)
(* group, and the identity of a source occurrence.                         *)
(*                                                                         *)
(* A row is [lead, prov, doi, work, import, superseded, status]: the key of*)
(* its leading provenance entry and of all of them, its DOI (None, or Bad  *)
(* for a value that is no DOI), its normalised title, the import that owns *)
(* it, and the row it was merged into.  A row's id is <<provider, id>> for *)
(* a search result, <<"file", n>> for a record of a file, and the source   *)
(* occurrence for a recovered one.                                         *)
(***************************************************************************)
EXTENDS SearchDomain, FiniteSets

CONSTANTS
  Bad,           \* a DOI value that is no DOI
  FileLabels,    \* source labels of file imports
  SimilarWorks   \* pairs {v, w} of similar, not equal titles

Valid(doi) == doi \notin {None, Bad}
Live(rows) == {r \in DOMAIN rows : rows[r].superseded = None}

CorpusWithMerged(rows) == {r \in DOMAIN rows : rows[r].status # "removed"}

Corpus(rows) == {r \in Live(rows) : rows[r].status # "removed"}

FromFile(row) == \E k \in row.prov : k[1] \in FileLabels

----------------------------------------------------------------------------
(* duplicate_group_builder: a component is named by one of its members *)

Union(root, a, b) == [x \in DOMAIN root |-> IF root[x] = root[b] THEN root[a] ELSE root[x]]
UnionAll(root, pairs) == FoldSet(LAMBDA e, f : Union(f, e[1], e[2]), root, pairs)
Groups(root) ==
  {g \in {{y \in DOMAIN root : root[y] = root[x]} : x \in DOMAIN root} : Cardinality(g) > 1}

SharedIdentifier(rows, S) ==
  {e \in S \X S : Valid(rows[e[1]].doi) /\ rows[e[1]].doi = rows[e[2]].doi}

\* Equal titles count when a record of the bucket came from a file.
SharedTitle(rows, S) ==
  {e \in S \X S : /\ rows[e[1]].work = rows[e[2]].work
                  /\ \E f \in S : rows[f].work = rows[e[1]].work /\ FromFile(rows[f])}

SimilarTitle(rows, S) ==
  {e \in S \X S : FromFile(rows[e[1]]) /\ {rows[e[1]].work, rows[e[2]].work} \in SimilarWorks}

\* Without title candidates, as the integrity audit has them built.
IdentifierGroups(rows, S) == Groups(UnionAll([x \in S |-> x], SharedIdentifier(rows, S)))

Certain(rows, S) == UnionAll([x \in S |-> x], SharedIdentifier(rows, S) \cup SharedTitle(rows, S))

\* The loop over the records of files, in the order of their random ids, ends
\* as soon as they are all in the component of the record it has come to.
BuildGroups(rows, S) ==
  LET files == {x \in S : FromFile(rows[x])}
      step(acc, x) ==
        IF acc.done \/ \A y \in files : acc.root[y] = acc.root[x] THEN [acc EXCEPT !.done = TRUE]
        ELSE [acc EXCEPT !.root = UnionAll(@, {e \in SimilarTitle(rows, S) : e[1] = x})]
  IN Groups(FoldLeft(step, [done |-> FALSE, root |-> Certain(rows, S)], SetToSeq(files)).root)

----------------------------------------------------------------------------
(* project_import_service and publication_merge_policy *)

\* The end of a chain of supersessions; chains end because a merge takes rows
\* that are not superseded.
Canonical(rows, r) ==
  LET end[n \in 0..Cardinality(DOMAIN rows)] ==
        IF n = 0 THEN r
        ELSE IF rows[end[n - 1]].superseded = None THEN end[n - 1] ELSE rows[end[n - 1]].superseded
  IN end[Cardinality(DOMAIN rows)]

DoiOwners(rows, doi) == IF Valid(doi) THEN {r \in DOMAIN rows : rows[r].doi = doi} ELSE {}

\* Conflicting DOIs cannot be merged.
Mergeable(rows, g) == Cardinality({rows[r].doi : r \in g} \ {None, Bad}) <= 1

MergedRowOwnProvenance(rows, g, canonical, lead) ==
  [rows[canonical] EXCEPT !.lead = lead]

\* The entries of the merged provenance are sorted anew, so that any of them
\* can come first; the row keeps its import and its status.
MergedRow(rows, g, canonical, lead) ==
  LET dois == {rows[r].doi : r \in g} \ {None, Bad}
  IN [rows[canonical] EXCEPT
        !.lead = lead, !.prov = UNION {rows[r].prov : r \in g},
        !.doi = IF dois = {} THEN @ ELSE CHOOSE d \in dois : TRUE]

\* The occurrence of the n-th record of a file or batch: its content and how
\* many equal records came before it.
Occurrence(label, name, contents, n) ==
  <<label, name, contents[n], Cardinality({m \in 1..n : contents[m] = contents[n]})>>

================================================================================
