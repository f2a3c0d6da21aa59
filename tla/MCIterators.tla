----------------------------- MODULE MCIterators -----------------------------
(***************************************************************************)
(* diag-fix and diag-times on files over a one-letter alphabet: the empty  *)
(* content, one byte, two bytes.  All functions on them serve as the       *)
(* command.  The smaller set of contents is for the run with signals.       *)
(***************************************************************************)
EXTENDS Iterators, Sequences

LOCAL INSTANCE SequencesExt

MCData  == {<<>>, <<0>>, <<0, 0>>}
MCData2 == {<<>>, <<0>>}
MCEmpty == <<>>

PrefixesIn(S) == [d \in S |-> {p \in S : IsPrefix(p, d)}]
MCPartial  == PrefixesIn(MCData)
MCPartial2 == PrefixesIn(MCData2)
=============================================================================
