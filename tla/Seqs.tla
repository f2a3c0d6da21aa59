--------------------------------- MODULE Seqs ---------------------------------
(***************************************************************************)
(* Operators of SequencesExt as recursive functions, for the modules that  *)
(* are instantiated: a proof about an instance cannot unfold what a module *)
(* has from a library.                                                     *)
(***************************************************************************)
EXTENDS Integers, Sequences

\* op applied to base and the elements of s from the first one on.
FoldLeft(op(_, _), base, s) ==
  LET fold[n \in 0 .. Len(s)] == IF n = 0 THEN base ELSE op(fold[n - 1], s[n])
  IN fold[Len(s)]

\* The elements of a sequence of sequences.
FlattenSeq(ss) ==
  LET flat[n \in 0 .. Len(ss)] == IF n = 0 THEN <<>> ELSE flat[n - 1] \o ss[n]
  IN flat[Len(ss)]

ToSet(s) == {s[i] : i \in DOMAIN s}
=============================================================================
