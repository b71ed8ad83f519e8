---------------------------- MODULE Concatenation ----------------------------
(***************************************************************************)
(* The rows of several pages as one sequence. This is what FlattenSeq of   *)
(* SequencesExt is for; that module also brings Bags into every proof      *)
(* obligation, which makes the provers some twenty times slower.           *)
(***************************************************************************)
EXTENDS Naturals, Sequences

\* The sequences of ss, one after the other.
Concat(ss) ==
  LET upTo[n \in 0..Len(ss)] == IF n = 0 THEN << >> ELSE upTo[n - 1] \o ss[n]
  IN  upTo[Len(ss)]
=============================================================================
