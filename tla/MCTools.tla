------------------------------- MODULE MCTools -------------------------------
(***************************************************************************)
(* Small inputs for each of the tools.                                     *)
(***************************************************************************)
EXTENDS Tools

SeqsUpTo(n, X) == UNION {[1 .. k -> X] : k \in 0 .. n}

Case(size, distances, initial, final) ==
  [size |-> size, distances |-> distances, initial |-> initial, final |-> final]

\* Four files with any order of their distances, and the options.
MCCases == {Case(1, {1}, 0, 0), Case(2, {1}, 0, 0), Case(3, {1, 2, 3}, 0, 0), Case(4, {1, 2, 3}, 0, 0),
            Case(5, {1, 2}, 0, 0), Case(4, {1, 2}, 2, 0), Case(4, {1, 2}, 0, 2), Case(4, {1, 2}, 1, 1)}

\* A segment of the source and one of the target; all modes of addresses.
MCSource == <<1, 2, 3, 4, 5, 6>>
MCSegments == {<<1, 1, 4>>, <<2, 0, 5>>}
MCCodes == <<{0, 1, 19, 163}, {0, 1, 19, 35, 51, 115, 163, 178, 235, 249}, {35, 67}>>

MCData == SeqsUpTo(8, {1, 2})
MCFiles == SeqsUpTo(5, {1, 2})
MCBlocks == SeqsUpTo(7, {1, 2})
MCTexts == SeqsUpTo(4, {1, 2})

MCNearCases == {[n |-> 1, distances |-> {1}], [n |-> 4, distances |-> {1, 2, 3}], [n |-> 5, distances |-> {1, 2}]}

\* One number a line, or something else.
MCSamples == UNION {[1 .. k -> {<<1>>, <<2>>, <<3>>, <<4>>}] : k \in 0 .. 5}
             \cup [1 .. 2 -> {<<>>, <<10, 0>>, <<1, 11>>, <<11>>, <<12>>, <<1, 2>>}]

MCExponents == {-1, 0, 1}

MCColumned == LET ch == {1, 10, 11, 12}
              IN {<<>>} \cup {<<line>> : line \in SeqsUpTo(5, ch)} \cup [1 .. 2 -> SeqsUpTo(2, ch)]

\* Directories in directories, one of them empty, with any of them failing.
MCFileSystems ==
  LET listing == [d \in {20, 21, 22, 23} |->
                    CASE d = 20 -> <<21, 1, 22, 2>> [] d = 21 -> <<3, 23>> [] d = 22 -> <<>> [] d = 23 -> <<4>>]
  IN [listing : {listing}, missing : {{9}}, bsd : BOOLEAN,
      closed : {{}, {20}, {21}, {22}, {23}}, stale : {{}, {20}, {22}, {23}}]

MCArguments == UNION {[1 .. k -> {1, 5, 9, 20, 21, 22}] : k \in 1 .. 2}

MCWords == SeqsUpTo(3, {3, 6})
=============================================================================
