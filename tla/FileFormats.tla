------------------------------ MODULE FileFormats -------------------------------
(***************************************************************************)
(* Reading a RIS or BibTeX file: the two parsers, which either return every*)
(* record of the file or refuse it, and what a record says about the       *)
(* publication it describes.                                               *)
(*                                                                         *)
(* A value is a sequence of words, blank when empty.  A RIS line is        *)
(* [kind, tag, value] with kind "tag", "text", "malformed" or "ignored"    *)
(* (blank, or a comment).  A BibTeX file is a sequence of tokens           *)
(* [kind, word] with kind "at", "open", "close", "equals", "comma",        *)
(* "quote", "word", "other" (escaped braces too) or "ignored" (white space,*)
(* and a comment to the end of its line).                                  *)
(***************************************************************************)
EXTENDS Integers, SequencesExt, Functions

CONSTANTS
  None,
  Bad,           \* a DOI value that is no DOI
  ValidDois      \* values normalize_doi_strict accepts

Put(f, x, v) == [y \in DOMAIN f \cup {x} |-> IF y = x THEN v ELSE f[y]]

Refused == [ok |-> FALSE, records |-> <<>>]

----------------------------------------------------------------------------
(* ris/parser: a record maps its tags to their values in order *)

\* A TY that finds a record open starts a new one.
RisTagNested(acc, tag, value) ==
  CASE tag = "TY" -> [acc EXCEPT !.open = [t \in {"TY"} |-> <<value>>], !.last = "TY"]
    [] tag = "ER" -> [acc EXCEPT !.records = Append(@, acc.open), !.open = None]
    [] OTHER -> [acc EXCEPT !.last = tag,
                   !.open = Put(@, tag, IF tag \in DOMAIN @ THEN Append(@[tag], value) ELSE <<value>>)]

RisTag(acc, tag, value) ==
  CASE tag = "TY" -> IF acc.open # None THEN [acc EXCEPT !.ok = FALSE]
                     ELSE [acc EXCEPT !.open = [t \in {"TY"} |-> <<value>>], !.last = "TY"]
    [] tag = "ER" -> [acc EXCEPT !.records = Append(@, acc.open), !.open = None]
    [] OTHER -> [acc EXCEPT !.last = tag,
                   !.open = Put(@, tag, IF tag \in DOMAIN @ THEN Append(@[tag], value) ELSE <<value>>)]

Continued(values, text) == [values EXCEPT ![Len(values)] = @ \o text]

\* A line that is no tag continues the value read last.
RisLine(acc, line) ==
  IF ~ acc.ok \/ line.kind = "ignored" THEN acc
  ELSE IF line.kind = "malformed" \/ (acc.open = None /\ (line.kind = "text" \/ line.tag # "TY"))
       THEN [acc EXCEPT !.ok = FALSE]
  ELSE IF line.kind = "tag" THEN RisTag(acc, line.tag, line.value)
  ELSE [acc EXCEPT !.open[acc.last] = Continued(@, line.value)]

ParseRis(lines) ==
  LET end == FoldLeft(RisLine, [ok |-> TRUE, records |-> <<>>, open |-> None, last |-> None], lines)
  IN IF end.ok /\ end.open = None THEN [ok |-> TRUE, records |-> end.records] ELSE Refused

----------------------------------------------------------------------------
(* bibtex/parser: an automaton over the tokens.  Its state is what it      *)
(* expects next, the depth of open braces, and the entry being read.       *)

Entry == [type |-> None, key |-> <<>>, fields |-> <<>>]
BibStart == [expect |-> "entry", depth |-> 0, records |-> <<>>, entry |-> Entry, field |-> None, text |-> <<>>]

Expect(s, what) == [s EXCEPT !.expect = what]
Emit(s) == [s EXCEPT !.expect = "entry", !.records = Append(@, s.entry)]

\* The last of several fields with one name is kept.
Assign(s) == [s EXCEPT !.expect = "separator", !.entry.fields = Put(@, s.field, s.text)]

BibStep(s, t) ==
  CASE s.expect = "refused" -> s
    [] s.expect \in {"braced", "quoted", "skipped"} ->
         LET text == IF t.kind = "word" THEN [s EXCEPT !.text = Append(@, t.word)] ELSE s
         IN IF s.expect = "quoted" THEN (IF t.kind = "quote" THEN Assign(s) ELSE text)
            ELSE IF t.kind = "open" THEN [s EXCEPT !.depth = @ + 1]
            ELSE IF t.kind # "close" THEN text
            ELSE IF s.depth > 1 THEN [s EXCEPT !.depth = @ - 1]
            ELSE IF s.expect = "braced" THEN Assign(s) ELSE Expect(s, "entry")
    [] s.expect = "key" /\ t.kind \notin {"comma", "close"} ->
         IF t.kind = "word" THEN [s EXCEPT !.entry.key = Append(@, t.word)]
         ELSE IF t.kind = "ignored" THEN s ELSE [s EXCEPT !.entry.key = Append(@, t.kind)]
    [] t.kind = "ignored" -> s
    [] s.expect = "entry" /\ t.kind = "at" -> [s EXCEPT !.expect = "type", !.entry = Entry]
    [] s.expect = "type" /\ t.kind = "word" /\ t.word \notin {"string", "preamble"} ->
         [s EXCEPT !.expect = "body", !.entry.type = t.word]
    [] s.expect = "body" /\ t.kind = "open" ->
         [s EXCEPT !.expect = IF s.entry.type = "comment" THEN "skipped" ELSE "key", !.depth = 1]
    [] s.expect = "key" /\ s.entry.key # <<>> -> IF t.kind = "close" THEN Emit(s) ELSE Expect(s, "field")
    [] s.expect \in {"field", "separator"} /\ t.kind = "close" -> Emit(s)
    [] s.expect = "separator" /\ t.kind = "comma" -> Expect(s, "field")
    [] s.expect = "field" /\ t.kind = "word" -> [s EXCEPT !.expect = "equals", !.field = t.word]
    [] s.expect = "equals" /\ t.kind = "equals" -> Expect(s, "value")
    [] s.expect = "value" /\ t.kind \in {"open", "quote"} ->
         [s EXCEPT !.expect = IF t.kind = "open" THEN "braced" ELSE "quoted", !.depth = 1, !.text = <<>>]
    [] OTHER -> Expect(s, "refused")

ParseBibtex(tokens) ==
  LET end == FoldLeft(BibStep, BibStart, tokens)
  IN IF end.expect = "entry" THEN [ok |-> TRUE, records |-> end.records] ELSE Refused

----------------------------------------------------------------------------
(* The mappers: [title, doi, key], None for a missing title; a record      *)
(* without a title makes the file unreadable.                              *)

Doi(value) == IF value = None THEN None ELSE IF value \in ValidDois THEN value ELSE Bad

FirstNonBlank(record, tags) ==
  LET values == FlattenSeq([i \in DOMAIN tags |-> IF tags[i] \in DOMAIN record THEN record[tags[i]] ELSE <<>>])
      given == SelectSeq(values, LAMBDA v : v # <<>>)
  IN IF given = <<>> THEN None ELSE Head(given)

NonBlank(fields, name) ==
  IF name \in DOMAIN fields /\ fields[name] # <<>> THEN fields[name] ELSE None

\* The source record of a document is keyed by its DOI, or else by what the
\* format has instead: the title, or the citation key.
Document(title, doi, otherwise) ==
  [title |-> title, doi |-> doi, key |-> IF doi \in ValidDois THEN doi ELSE otherwise]

MapRis(record) ==
  LET title == FirstNonBlank(record, <<"TI", "T1", "CT">>)
  IN Document(title, Doi(FirstNonBlank(record, <<"DO">>)), title)

MapBibtex(record) ==
  Document(NonBlank(record.fields, "title"), Doi(NonBlank(record.fields, "doi")), record.key)

\* What an upload gets out of a file, and the raw records it fingerprints.
Documents(format, records) ==
  [n \in DOMAIN records |-> IF format = "ris" THEN MapRis(records[n]) ELSE MapBibtex(records[n])]

Outcome(parsed, docs) ==
  [ok |-> parsed.ok /\ docs # <<>> /\ \A n \in DOMAIN docs : docs[n].title # None,
   docs |-> docs, raw |-> parsed.records]

Mapped(format, parsed) == Outcome(parsed, Documents(format, parsed.records))

ReadFile(f) ==
  Mapped(f.format, IF f.format = "ris" THEN ParseRis(f.content) ELSE ParseBibtex(f.content))

================================================================================
