------------------------------ MODULE MCCycle -------------------------------
(***************************************************************************)
(* diag-cycle on three contents, two of which share a hash, with every     *)
(* function on them as the command.                                        *)
(***************************************************************************)
EXTENDS Cycle

LOCAL INSTANCE SequencesExt

MCData  == {<<>>, <<0>>, <<0, 0>>}
MCEmpty == <<>>

MCPartial == [d \in MCData |-> {p \in MCData : IsPrefix(p, d)}]

\* Stands for Rabin-Karp: a collision of two contents, and none.
MCHash == [d \in MCData |-> Len(d) % 2]
=============================================================================
