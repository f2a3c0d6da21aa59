------------------------------- MODULE MCRoot -------------------------------
(***************************************************************************)
(* diag-root with the numbers 0, 1, 2.  <<1, 5>> is the numeral of the     *)
(* last one, which "%g" prints as <<1>>.                                   *)
(***************************************************************************)
EXTENDS Root, Sequences

LOCAL INSTANCE SequencesExt

MCData  == {<<>>, <<0>>, <<1>>, <<1, 5>>}
MCEmpty == <<>>

MCPartial == [d \in MCData |-> {p \in MCData : IsPrefix(p, d)}]

MCNum  == 0..2
MCAtof == [d \in MCData |-> CASE d = <<1, 5>> -> 2 [] d = <<1>> -> 1 [] OTHER -> 0]
MCFmt  == [x0 \in MCNum |-> IF x0 = 0 THEN <<0>> ELSE <<1>>]
=============================================================================
