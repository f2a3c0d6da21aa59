------------------------------- MODULE Strings -------------------------------
(***************************************************************************)
(* Distances and edit scripts: hamming.c, levenshtein.c, the metrics of    *)
(* diag-file.c on contents of files, the deltas of cluster.c and the       *)
(* longest common subsequence of lcs.c.                                    *)
(***************************************************************************)
EXTENDS Integers, Sequences, Seqs, FiniteSets

Least(a, b) == IF a < b THEN a ELSE b
Suffix(x, n) == SubSeq(x, n + 1, Len(x))

-----------------------------------------------------------------------------
(* Metrics.  e is a limit; -1 says that it is reached.                     *)

LengthsDiffer(x, y) == IF Len(x) < Len(y) THEN Len(y) - Len(x) ELSE Len(x) - Len(y)

\* One more for each place at which the strings differ, for as long as both go on.
HammingChars(x, y) ==
  LET n == Least(Len(x), Len(y))
      count[k \in 0 .. n] ==
        IF k = 0 THEN 0 ELSE count[k - 1] + (IF x[k] # y[k] THEN 1 ELSE 0)
  IN count[n] + LengthsDiffer(x, y)

\* The loop of diag_ehamming_chars, which starts at d and returns at e.
CountTo(x, y, d, e) ==
  LET n == Least(Len(x), Len(y))
      count[k \in 0 .. n] ==
        IF k = 0 THEN d
        ELSE LET c == count[k - 1] + (IF x[k] # y[k] THEN 1 ELSE 0)
             IN IF count[k - 1] # -1 /\ c < e THEN c ELSE -1
  IN count[n]

\* Faulty: a difference of e is within the limit.
EHammingCharsUpTo(x, y, e) ==
  IF e = 0 \/ LengthsDiffer(x, y) > e THEN -1 ELSE CountTo(x, y, LengthsDiffer(x, y), e)

EHammingChars(x, y, e) ==
  IF e = 0 \/ LengthsDiffer(x, y) >= e THEN -1 ELSE CountTo(x, y, LengthsDiffer(x, y), e)

\* One row of the table after another, for x along the rows and y along the
\* columns; same has the places at which the bytes are equal.
NextRow(cur, ly, same) ==
  LET new[j \in 0 .. ly] ==
        IF j = 0 THEN cur[0] + 1
        ELSE Least(Least(new[j - 1] + 1, cur[j] + 1), cur[j - 1] + (IF j \in same THEN 0 ELSE 1))
  IN new

Rows(lx, ly, same) ==
  LET row[i \in 0 .. lx] ==
        IF i = 0 THEN [j \in 0 .. ly |-> j]
        ELSE NextRow(row[i - 1], ly, {j \in 1 .. ly : <<i, j>> \in same})
  IN row[lx][ly]

\* Lengths of what the strings have in common in front and at the end.
Common(x, y) ==
  CHOOSE n \in 0 .. Least(Len(x), Len(y)) :
    /\ \A i \in 1 .. n : x[i] = y[i]
    /\ n < Least(Len(x), Len(y)) => x[n + 1] # y[n + 1]

CommonEnd(x, y) ==
  CHOOSE n \in 0 .. Least(Len(x), Len(y)) :
    /\ \A i \in 0 .. n - 1 : x[Len(x) - i] = y[Len(y) - i]
    /\ n < Least(Len(x), Len(y)) => x[Len(x) - n] # y[Len(y) - n]

LevenshteinChars(a, b) ==
  LET x == Suffix(a, Common(a, b))
      y == Suffix(b, Common(a, b))
      n == CommonEnd(x, y)
      long == IF Len(x) < Len(y) THEN y ELSE x
      short == IF Len(x) < Len(y) THEN x ELSE y
  IN IF short = <<>> THEN Len(long)
     ELSE IF Len(short) = n THEN Len(long) - n
     ELSE Rows(Len(long) - n, Len(short) - n,
               {p \in (DOMAIN long) \X (DOMAIN short) : long[p[1]] = short[p[2]]})

ELevenshteinChars(x, y, e) ==
  IF e = 0 \/ LengthsDiffer(x, y) >= e THEN -1
  ELSE LET d == LevenshteinChars(x, y) IN IF d < e THEN d ELSE -1

\* The metric hamming of diag-file.
Hamming(x, y) ==
  Cardinality({i \in 1 .. Least(Len(x), Len(y)) : x[i] # y[i]}) + LengthsDiffer(x, y)

\* The metric levenshtein of diag-file takes the length of x for both; the
\* bytes behind the end of y, zeros up to the end of its page, equal none of x.
Levenshtein(x, y) ==
  IF x = <<>> THEN 0
  ELSE Rows(Len(x), Len(x), {p \in (DOMAIN x) \X (DOMAIN x \cap DOMAIN y) : x[p[1]] = y[p[2]]})

-----------------------------------------------------------------------------
(* Deltas of diag-enc: how y differs from x.                               *)

DeltaHammingChars(x, y) ==
  LET replaces == SelectSeq([i \in 1 .. Least(Len(x), Len(y)) |->
                               [type |-> "REPLACE", index |-> i - 1, value |-> <<y[i]>>]],
                            LAMBDA d : x[d.index + 1] # d.value[1])
  IN replaces \o
     (IF Len(x) < Len(y) THEN <<[type |-> "APPEND", index |-> Len(x), value |-> Suffix(y, Len(x))]>>
      ELSE IF Len(y) < Len(x) THEN <<[type |-> "TRIM", index |-> Len(y), value |-> <<>>]>>
      ELSE <<>>)

-----------------------------------------------------------------------------
(* The algorithm of Wu, Manber and Myers: fp has the farthest point on     *)
(* each diagonal k, path the steps to it, the last one in front.           *)

\* Along the diagonal as long as the elements are equal.
Slide(a, b, x, y, path) ==
  LET n == Common(Suffix(a, x), Suffix(b, y))
  IN [y |-> y + n, path |-> [i \in 1 .. n |-> 0] \o path]

Snake(a, b, u, st, k) ==
  LET y1 == st.fp[k - 1] + 1
      y2 == st.fp[k + 1]
      y == IF y1 < y2 THEN y2 ELSE y1
      path == IF y1 > y2 THEN <<u>> \o st.path[k - 1] ELSE <<-u>> \o st.path[k + 1]
      s == Slide(a, b, y - k, y, path)
  IN [fp |-> [st.fp EXCEPT ![k] = s.y], path |-> [st.path EXCEPT ![k] = s.path]]

\* The diagonals in the order of round p.
Diagonals(d, p) ==
  [i \in 1 .. d + p |-> i - 1 - p] \o [i \in 1 .. p |-> d + p + 1 - i] \o <<d>>

\* The round that reaches the end of b, after those before it.
Rounds(a, b, u, st) ==
  LET d == Len(b) - Len(a)
      round[p \in -1 .. Len(a)] ==
        IF p = -1 THEN st ELSE FoldLeft(LAMBDA t, k : Snake(a, b, u, t, k), round[p - 1], Diagonals(d, p))
      last == CHOOSE p \in 0 .. Len(a) : round[p].fp[d] = Len(b) /\ \A q \in 0 .. p - 1 : round[q].fp[d] # Len(b)
  IN [distance |-> d + 2 * last, path |-> round[last].path[d]]

\* Faulty: as if the strings were never swapped.
StepOfLonger(swapped) == 1

\* What a step along the longer string means for the script.
StepOf(swapped) == IF swapped THEN -1 ELSE 1

\* The distance and the script: 0 keeps an element, -1 takes one away, 1
\* brings one.  The first step, to the origin, is left out.
LcsCompute(vx, vy) ==
  LET swapped == Len(vx) > Len(vy)
      a == IF swapped THEN vy ELSE vx
      b == IF swapped THEN vx ELSE vy
      range == -(Len(a) + 1) .. Len(b) + 1
      r == Rounds(a, b, StepOf(swapped),
                  [fp |-> [k \in range |-> -1], path |-> [k \in range |-> <<>>]])
  IN [distance |-> r.distance, ses |-> [i \in 1 .. Len(r.path) - 1 |-> r.path[Len(r.path) - i]]]

-----------------------------------------------------------------------------
(* References for the properties.                                          *)

\* Edit distance as in its definition, of what is left of x and of y behind
\* a place in each, a substitution costing c.
EditDistance(x, y, c) ==
  LET d[p \in (0 .. Len(x)) \X (0 .. Len(y))] ==
        IF p[1] = Len(x) THEN Len(y) - p[2] ELSE IF p[2] = Len(y) THEN Len(x) - p[1]
        ELSE Least(Least(1 + d[<<p[1] + 1, p[2]>>], 1 + d[<<p[1], p[2] + 1>>]),
                   (IF x[p[1] + 1] = y[p[2] + 1] THEN 0 ELSE c) + d[<<p[1] + 1, p[2] + 1>>])
  IN d[<<0, 0>>]

ApplyDeltas(x, ds) ==
  FoldLeft(LAMBDA s, d : CASE d.type = "REPLACE" -> [s EXCEPT ![d.index + 1] = d.value[1]]
                           [] d.type = "APPEND" -> s \o d.value
                           [] d.type = "TRIM" -> SubSeq(s, 1, d.index), x, ds)

\* x and y read along the script, if it is one from x to y.
Leads(x, y, ses) ==
  LET read(k, step) == Cardinality({i \in 1 .. k : ses[i] # step})
      n == Len(ses)
  IN /\ ToSet(ses) \subseteq {-1, 0, 1}
     /\ read(n, 1) = Len(x) /\ read(n, -1) = Len(y)
     /\ \A k \in 1 .. n : ses[k] = 0 => x[read(k, 1)] = y[read(k, -1)]
=============================================================================
