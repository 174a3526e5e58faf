------------------------------ MODULE MCFetchAll ------------------------------
(* Instances of FetchAll for TLC: two providers, one of them Crossref, whose *)
(* two pages overlap inside a provider and across the two.                   *)
EXTENDS FetchAll, TLC

CONSTANTS cr, oa,      \* Crossref and OpenAlex
          r1, r2, r3   \* three records, of which r3 is rejected

MCProviders == {cr, oa}
MCCrossref  == {cr}
MCRecords   == {r1, r2, r3}
MCRejected  == {r3}
MCOrder     == <<oa, cr>>

\* Page 2 repeats a record of page 1; r1 comes from both providers.
MCContent == (cr :> <<{r1, r3}, {r2, r3}>>) @@ (oa :> <<{r1, r2}, {r2, r3}>>)

\* What the first job merges for r1 from the two providers fails the query.
MCRefuted   == {<<1, r1>>}
MCUnrefuted == {}
=============================================================================
