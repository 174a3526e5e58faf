------------------------------- MODULE MCCorpus -------------------------------
(* Instances of Corpus for TLC: three records of one work, of which the first *)
(* and the last are linked only through the middle one.                       *)
EXTENDS Corpus, TLC

CONSTANTS w1, w2,    \* worker threads
          doi, pmid  \* identifiers

MCRecords     == 1 .. 3
MCKeys        == {doi, pmid}
MCIdentifiers == <<{doi}, {doi, pmid}, {pmid}>>
MCOne         == {w1}
MCTwo         == {w1, w2}

Threads == Permutations(Workers)
===============================================================================
