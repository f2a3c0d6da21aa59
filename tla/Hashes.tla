-------------------------------- MODULE Hashes -------------------------------
(***************************************************************************)
(* The rolling hash of hash.c; diag-hash, which writes the hashes of all   *)
(* windows of a file, in order with the option -s; and the metrics of      *)
(* diag-file on files that hold such hashes.                               *)
(***************************************************************************)
EXTENDS Integers, Sequences, Seqs, FiniteSets

CONSTANT
  Modulus     \* even; 2^32 in the code

Hash(bytes, base) == FoldLeft(LAMBDA v, x : (v * base + x) % Modulus, 0, bytes)

Factor(window, base) == FoldLeft(LAMBDA f, i : (f * base) % Modulus, 1, [i \in 1 .. window - 1 |-> i])

\* Faulty: tail as if it were the last digit.
RollAsAddend(value, window, base, tail, head) ==
  ((value - tail) * base + head) % Modulus

\* The hash of the window after its first byte, tail, left and head came in.
Roll(value, window, base, tail, head) ==
  ((value - tail * Factor(window, base)) * base + head) % Modulus

\* The hashes of all windows of the data.
Collect(data, window, base) ==
  FoldLeft(LAMBDA arr, i : Append(arr, Roll(arr[Len(arr)], window, base, data[i], data[i + window])),
           <<Hash(SubSeq(data, 1, window), base)>>, [i \in 1 .. Len(data) - window |-> i])

\* Faulty: the larger hashes first.
CmpReversed(x, y) ==
  LET d == (y - x) % Modulus IN IF d < Modulus \div 2 THEN d ELSE d - Modulus

\* The comparison of diag-hash: the difference as a signed number.
Cmp(x, y) ==
  LET d == (x - y) % Modulus IN IF d < Modulus \div 2 THEN d ELSE d - Modulus

\* How often x is in arr.
Count(arr, x) == Cardinality({i \in DOMAIN arr : arr[i] = x})

\* For the properties: how many elements two lists share, each as often as it is
\* in both of them.
Shared(a, b) ==
  Cardinality({c \in ToSet(a) \X (1 .. Len(a)) : c[2] <= Count(a, c[1]) /\ c[2] <= Count(b, c[1])})

\* What qsort may make of an array: it is sorted if the comparison is an order
\* of its elements, and in any order if it is not.
Sorted(arr) ==
  LET xs == ToSet(arr)
      order == \A x, y, z \in xs : Cmp(x, y) <= 0 /\ Cmp(y, z) <= 0 =>
                                     Cmp(x, z) <= 0 /\ (x # y => Cmp(y, x) > 0)
      arranged == {a \in [DOMAIN arr -> xs] : \A x \in xs : Count(a, x) = Count(arr, x)}
  IN {a \in arranged : order => \A i \in 1 .. Len(a) - 1 : Cmp(a[i], a[i + 1]) <= 0}

(***************************************************************************)
(* hash32 counts the words that are passed over, hash32_rev the words that *)
(* match, while two files are merged; i and j are the next words of them.  *)
(***************************************************************************)
MergeTurn(p, q, s) ==
  IF s.i > Len(p) \/ s.j > Len(q) THEN s
  ELSE IF p[s.i] < q[s.j] THEN [s EXCEPT !.i = @ + 1, !.hash32 = @ + 1]
  ELSE IF p[s.i] > q[s.j] THEN [s EXCEPT !.j = @ + 1, !.hash32 = @ + 1]
  ELSE [s EXCEPT !.i = @ + 1, !.j = @ + 1, !.hash32_rev = @ + 1]

MergeCounts(p, q) ==
  LET merged[k \in 0 .. Len(p) + Len(q)] ==
        IF k = 0 THEN [i |-> 1, j |-> 1, hash32 |-> 0, hash32_rev |-> 0]
        ELSE MergeTurn(p, q, merged[k - 1])
  IN merged[Len(p) + Len(q)]
=============================================================================
