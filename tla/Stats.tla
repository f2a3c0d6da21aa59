-------------------------------- MODULE Stats --------------------------------
(***************************************************************************)
(* diag-medi with qselect.c, diag-mode with its two trees and diag-mean    *)
(* take the numbers of lines; diag-uniq filters blocks of bytes.  A line   *)
(* is a sequence of characters: the digits, a space, Letter for whatever   *)
(* is no part of a number, Range for a number that strtod finds out of     *)
(* range.                                                                  *)
(***************************************************************************)
EXTENDS RBTree, Seqs

LOCAL INSTANCE TLC

Digit == 0 .. 9
Space == 10
Letter == 11
Range0 == 12

\* What is printed: nothing.
Failure == <<>>

\* The first position of line from i on that has none of chars.
Skip(line, i, chars) ==
  CHOOSE k \in i .. Len(line) + 1 :
    (k <= Len(line) => line[k] \notin chars) /\ \A l \in i .. k - 1 : line[l] \in chars

\* strtod from position i: the value, and the position after the number, which
\* is i if there is none.
StrToD(line, i) ==
  LET b == Skip(line, i, {Space})
      e == Skip(line, b, Digit)
  IN IF b <= Len(line) /\ line[b] = Range0 THEN [value |-> 0, end |-> b + 1, range |-> TRUE]
     ELSE [range |-> FALSE, end |-> IF e = b THEN i ELSE e,
           value |-> FoldLeft(LAMBDA v, d : 10 * v + d, 0, SubSeq(line, b, e - 1))]

\* No number at the beginning of the line, or one out of range.
BadNumber(v) == (v.value = 0 /\ v.end = 1) \/ v.range

FirstNumbers(lines) == [i \in DOMAIN lines |-> StrToD(lines[i], 1)]
NoInput(lines) == lines = <<>> \/ \E i \in DOMAIN lines : BadNumber(StrToD(lines[i], 1))
Numbers(lines) == [i \in DOMAIN lines |-> StrToD(lines[i], 1).value]

-----------------------------------------------------------------------------
(* diag-medi.                                                              *)

\* Faulty: none of those farther off.
GatheredInPlace(arr, wanted) ==
  SubSeq(arr, 2, 1 + Len(SelectSeq(Tail(arr), LAMBDA x : x \in wanted)))

\* The elements after the first that are in wanted, n of them, come next to it:
\* those that are farther off take the places of others.
Gathered(arr, wanted) ==
  LET n == Len(SelectSeq(Tail(arr), LAMBDA x : x \in wanted))
      indices == [i \in 1 .. Len(arr) - 1 |-> i + 1]
      free == SelectSeq(indices, LAMBDA i : i <= n + 1 /\ arr[i] \notin wanted)
      far == SelectSeq(indices, LAMBDA i : i > n + 1 /\ arr[i] \in wanted)
  IN [i \in 1 .. n |-> arr[IF i + 1 \notin ToSet(free) THEN i + 1
                            ELSE far[CHOOSE k \in DOMAIN free : free[k] = i + 1]]]

\* The element with k greater ones, from 0 on: n_lt counts what the first
\* element is less than.
QSelect(data, index) ==
  LET select[arr \in Seq(Int), k \in Nat] ==
        LET p == arr[1]
            n_lt == Len(SelectSeq(arr, LAMBDA x : p < x))
            n_gt == Len(SelectSeq(arr, LAMBDA x : p > x))
            n_eq == Len(arr) - n_lt - n_gt
        IN IF Len(arr) = 1 THEN p
           ELSE IF k < n_lt THEN select[Gathered(arr, {x \in ToSet(arr) : p < x}), k]
           ELSE IF k >= n_lt + n_eq THEN select[Gathered(arr, {x \in ToSet(arr) : p > x}), k - n_lt - n_eq]
           ELSE p
  IN select[data, index]

\* Twice the median.
Medi(lines) ==
  LET data == Numbers(lines)
      n == Len(data)
  IN IF NoInput(lines) THEN Failure
     ELSE IF n % 2 = 0 THEN <<QSelect(data, (n \div 2) - 1) + QSelect(data, n \div 2)>>
     ELSE <<2 * QSelect(data, n \div 2)>>

-----------------------------------------------------------------------------
(* diag-mode: a tree from the class of a number to its indices, and one    *)
(* from the number of indices to the classes.                              *)

ClassOf(v, exponent) == IF exponent < 0 THEN v \div 2^(-exponent) ELSE v * 2^exponent

\* attr comes last in what is kept under key.
Pushed(tree, key, attr) ==
  LET node == Search(tree, key)
  IN IF node = Nil THEN Insert(tree, tree.num + 1, key, <<attr>>)
     ELSE [tree EXCEPT !.node[node].attr = Append(@, attr)]

Mode(lines, exponent) ==
  LET data == Numbers(lines)
      tree == FoldLeft(LAMBDA h, i : Pushed(h, ClassOf(data[i], exponent), i), Create("imm"),
                       [i \in DOMAIN data |-> i])
      xtree == FoldLeft(LAMBDA h, e : Pushed(h, Len(e.attr), e.key), Create("imm"), Entries(tree))
      keys == xtree.node[Maximum(xtree)].attr
  IN IF NoInput(lines) THEN Failure
     ELSE [i \in DOMAIN keys |-> data[tree.node[Search(tree, keys[i])].attr[1]]]

-----------------------------------------------------------------------------
(* diag-mean: the sums of the columns.                                     *)

\* Column i of a line is added, or the line is short or bad.
AddColumn(line, s, i) ==
  LET v == StrToD(line, s.pos)
  IN IF s.failed \/ s.pos > Len(line) \/ (v.value = 0 /\ v.end = 1) \/ v.range
     THEN [s EXCEPT !.failed = TRUE]
     ELSE [s EXCEPT !.sum[i] = @ + v.value, !.pos = v.end]

Mean(lines, columns) ==
  LET addLine(s, line) == FoldLeft(LAMBDA a, i : AddColumn(line, a, i), [s EXCEPT !.pos = 1],
                                   [i \in 1 .. columns |-> i])
      s == FoldLeft(addLine, [sum |-> [i \in 1 .. columns |-> 0], pos |-> 1, failed |-> FALSE], lines)
  IN IF s.failed \/ lines = <<>> THEN Failure ELSE s.sum

-----------------------------------------------------------------------------
(* diag-uniq.                                                              *)

\* Faulty: compared with the first block always.
UniqOfFirst(data, count) ==
  LET n == Len(data) \div count
      block(i) == SubSeq(data, (i - 1) * count + 1, i * count)
      blocks == FlattenSeq([i \in 1 .. n |-> IF i > 1 /\ block(i) = block(1) THEN <<>> ELSE block(i)])
  IN IF Len(data) <= count THEN data ELSE blocks \o SubSeq(block(1), 1, Len(data) % count)

\* The bytes after the last whole block are not written, but as many from the
\* beginning of that block.
Uniq(data, count) ==
  LET n == Len(data) \div count
      r == Len(data) % count
      block(i) == SubSeq(data, (i - 1) * count + 1, i * count)
      blocks == FlattenSeq([i \in 1 .. n |-> IF i > 1 /\ block(i) = block(i - 1) THEN <<>> ELSE block(i)])
  IN IF Len(data) <= count THEN data ELSE blocks \o SubSeq(block(n), 1, r)

-----------------------------------------------------------------------------
(* For the properties.                                                     *)

\* The numbers of a line, separated by spaces, and whether it has no others.
Fields(line) ==
  LET from[i \in 1 .. Len(line) + 1] ==
        LET v == StrToD(line, i)
        IN IF v.end = i \/ v.range THEN <<>> ELSE <<v.value>> \o from[v.end]
  IN from[1]

\* The characters that are left when the numbers were read.
Rest(line) ==
  LET from[i \in 1 .. Len(line) + 1] ==
        LET v == StrToD(line, i)
        IN IF v.end = i \/ v.range THEN SubSeq(line, i, Len(line)) ELSE from[v.end]
  IN from[1]
=============================================================================
