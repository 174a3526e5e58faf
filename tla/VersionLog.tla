------------------------------- MODULE VersionLog ------------------------------
(***************************************************************************)
(* What every append-only history of the platform promises: entries are    *)
(* numbered 1, 2, 3, ... without a gap or a repetition, an entry that was  *)
(* added never changes and never goes away, and the entries are added one  *)
(* at a time.  How writers find the next number is not part of it.         *)
(***************************************************************************)
EXTENDS Naturals, Sequences

CONSTANT Number(_)   \* the number an entry carries

VARIABLE log

Init == log = <<>>

Add ==
  /\ Len(log') = Len(log) + 1
  /\ SubSeq(log', 1, Len(log)) = log
  /\ Number(log'[Len(log')]) = Len(log')

Spec == Init /\ [][Add]_log

(* A history that belongs to a project goes as a whole when the project does. *)
Discard == log' = <<>>

DiscardableSpec == Init /\ [][Add \/ Discard]_log

===============================================================================
