------------------------------- MODULE MCImports -------------------------------
\* Two providers that know one work by different keys and sometimes with an
\* abstract or a DOI, and four files whose records repeat it, look like it, or
\* are cut off.
EXTENDS ImportAccounts
Text(title, abstract) == [title |-> title, abstract |-> abstract]
Hit(p, id, doi, work, text) ==
  [prov |-> <<<<p, id>>>>, doi |-> doi, work |-> <<work>>, text |-> text, fits |-> TRUE]
MCQuery == <<[op |-> "term", term |-> "water", field |-> "any"], [op |-> "term", term |-> "fish", field |-> "title"],
             [op |-> "not", kids |-> {2}], [op |-> "and", kids |-> {1, 3}]>>
D1 == <<"d1">>
MCValidDois == {D1}
C1 == Hit("crossref", "k1", D1, "w1", Text({}, None))
C1Revised == Hit("crossref", "k1", None, "w1", Text({}, {"water"}))
O1 == Hit("openalex", "k2", D1, "w1", Text({"water"}, {"water"}))
OFish == Hit("openalex", "k3", None, "w9", Text({"water", "fish"}, {}))
MCHits == [p \in {"crossref", "openalex"} |->
             IF p = "crossref" THEN {<<C1>>, <<C1Revised>>} ELSE {<<O1, OFish>>}]

Tag(t, v) == [kind |-> "tag", tag |-> t, value |-> v]
Line(k, v) == [kind |-> k, tag |-> None, value |-> v]
Ris(title, doi) ==
  <<Tag("TY", <<"JOUR">>), Tag("TI", <<>>), Tag("T1", title)>>
    \o (IF doi = None THEN <<>> ELSE <<Tag("DO", doi)>>) \o <<Line("ignored", <<>>), Tag("ER", <<>>)>>
Long == <<Tag("TY", <<"JOUR">>), Tag("TI", <<"w2">>), Line("text", <<"w3">>), Tag("DO", <<"x">>), Tag("ER", <<>>)>>
W(w) == [kind |-> "word", word |-> w]
T(k) == [kind |-> k, word |-> None]
Field(name, v) == <<T("ignored"), W(name), T("equals"), T("open")>> \o v \o <<T("close"), T("comma")>>
Bib == <<T("at"), W("comment"), T("open"), T("open"), T("at"), T("close"), T("close"), T("at"), W("misc"), T("open"), W("k9"), T("comma")>>
         \o Field("title", <<T("at"), W("w2")>>) \o Field("doi", <<W("x")>>) \o <<T("close")>>
File(name, format, content) == [name |-> name, format |-> format, content |-> content]
MCFiles ==
  [a |-> File("a.ris", "ris", Ris(<<"w1">>, D1) \o Long),
   b |-> File("b.ris", "ris", Ris(<<"w1">>, D1) \o Ris(<<"w1">>, None)),
   bib |-> File("c.bib", "bibtex", Bib),
   bad |-> File("d.ris", "ris", Ris(<<"w2">>, None) \o <<Tag("TY", <<"JOUR">>)>> \o Long)]
MCSimilar == {{<<"w1">>, <<"w2">>}, {<<"w2">>, <<"w2", "w3">>}}
MCLegacy == [r \in {<<"crossref", "k7">>} |->
  [lead |-> r, prov |-> {r, <<"ris", <<"w7">>>>}, doi |-> None, work |-> <<"w7">>, import |-> NoImport,
   superseded |-> None, status |-> "retained"]]
NoRows == <<>>

\* A publication with a title similar to that of one file, which another file
\* has too, and a record with a title of its own.
DecidedFiles ==
  [i |-> File("i.ris", "ris", Ris(<<"w1">>, <<"x">>)), j |-> File("j.ris", "ris", Ris(<<"w1">>, None)),
   q |-> File("q.ris", "ris", Ris(<<"w4">>, None))]
DecidedHits == [p \in {"crossref"} |-> {}]
DecidedRows == [r \in {<<"crossref", "k7">>} |-> [MCLegacy[r] EXCEPT !.prov = {r}, !.work = <<"w2">>]]
================================================================================
