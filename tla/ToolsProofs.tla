----------------------------- MODULE ToolsProofs -----------------------------
(***************************************************************************)
(* What the tools give, for every input: the lines of a text, the          *)
(* distances of strings, a file without the blocks that repeat, and the    *)
(* hashes and windows that two files share.                                *)
(***************************************************************************)
EXTENDS Tools, FiniteSetTheorems, FunctionTheorems, SequenceTheorems, TLAPS

-----------------------------------------------------------------------------
(* Induction and recursion over the numbers.                               *)

LEMMA SetInduction ==
  ASSUME NEW M, 0 \in M, \A n \in Nat : n \in M => n + 1 \in M
  PROVE  \A n \in Nat : n \in M
<1> SUFFICES ASSUME NEW n \in Nat, n \notin M PROVE FALSE
  OBVIOUS
<1> DEFINE B == {m \in 0 .. n : m \notin M}
           f == [m \in B |-> m - 1]
<1>1. IsFiniteSet(B)
  <2>1. IsFiniteSet(0 .. n) /\ B \in SUBSET (0 .. n)
    BY FS_Interval
  <2> HIDE DEF B
  <2> QED
    BY <2>1, FS_Subset
<1>2. f \in Injection(B, B)
  <2>1. \A m \in B : m - 1 \in B
    OBVIOUS
  <2> QED
    BY <2>1 DEF Injection, IsInjective
<1>3. f \in Surjection(B, B)
  <2> HIDE DEF B, f
  <2> QED
    BY <1>1, <1>2, FS_Injection, SMTT(30)
<1>4. n \in B
  OBVIOUS
<1>5. PICK m \in B : f[m] = n
  <2> HIDE DEF B, f
  <2> QED
    BY <1>3, <1>4 DEF Surjection
<1> QED
  BY <1>5

LEMMA StrongInduction ==
  ASSUME NEW M, \A n \in Nat : (\A m \in 0 .. n - 1 : m \in M) => n \in M
  PROVE  \A n \in Nat : n \in M
<1> DEFINE U == {n \in Nat : \A m \in 0 .. n : m \in M}
<1>1. 0 \in U
  OBVIOUS
<1>2. \A n \in Nat : n \in U => n + 1 \in U
  OBVIOUS
<1>3. \A n \in Nat : n \in U
  <2> HIDE DEF U
  <2> QED BY <1>1, <1>2, SetInduction
<1> QED
  BY <1>3

LEMMA Iteration ==
  ASSUME NEW A, NEW a \in A, NEW g \in [A -> A]
  PROVE  \E f \in [Nat -> A] : f[0] = a /\ \A n \in Nat : f[n + 1] = g[f[n]]
<1> DEFINE Upto(n, f) == f \in [0 .. n -> A] /\ f[0] = a /\ \A m \in Nat : m < n => f[m + 1] = g[f[m]]
<1>1. ASSUME NEW n \in Nat PROVE \E f : Upto(n, f)
  <2> DEFINE E == {m \in Nat : \E f : Upto(m, f)}
  <2>1. 0 \in E
    <3>1. Upto(0, [m \in 0 .. 0 |-> a])
      OBVIOUS
    <3> QED
      BY <3>1
  <2>2. ASSUME NEW m \in Nat, m \in E PROVE m + 1 \in E
    <3>1. PICK f : Upto(m, f)
      BY <2>2
    <3> DEFINE h == [l \in 0 .. m + 1 |-> IF l <= m THEN f[l] ELSE g[f[m]]]
    <3>2. f[m] \in A /\ g[f[m]] \in A
      BY <3>1
    <3>3. h \in [0 .. m + 1 -> A] /\ h[0] = a
      BY <3>1, <3>2
    <3>4. ASSUME NEW l \in Nat, l < m + 1 PROVE h[l + 1] = g[h[l]]
      <4>1. CASE l = m
        BY <3>1, <4>1
      <4>2. CASE l < m
        BY <3>1, <4>2
      <4> QED
        BY <3>4, <4>1, <4>2
    <3>5. Upto(m + 1, h)
      BY <3>3, <3>4
    <3> HIDE DEF h, Upto
    <3>6. \E h1 : Upto(m + 1, h1)
      BY <3>5
    <3> QED
      BY <3>6
  <2> HIDE DEF E
  <2>3. n \in E
    BY <2>1, <2>2, SetInduction
  <2> QED
    BY <2>3 DEF E
<1>2. ASSUME NEW n \in Nat, NEW k \in Nat, NEW f, NEW h, Upto(n, f), Upto(k, h), NEW m \in Nat, m <= n, m <= k
      PROVE  f[m] = h[m]
  <2> DEFINE E == {l \in Nat : l <= n /\ l <= k => f[l] = h[l]}
  <2>1. 0 \in E
    BY <1>2
  <2>2. ASSUME NEW l \in Nat, l \in E PROVE l + 1 \in E
    BY <1>2, <2>2
  <2> HIDE DEF E
  <2>3. m \in E
    BY <2>1, <2>2, SetInduction
  <2> QED
    BY <1>2, <2>3 DEF E
<1> DEFINE c(n) == CHOOSE f : Upto(n, f)
           f == [n \in Nat |-> c(n)[n]]
<1>3. \A n \in Nat : Upto(n, c(n))
  <2> HIDE DEF Upto
  <2> QED
    BY <1>1
<1> HIDE DEF c
<1>4. f \in [Nat -> A]
  BY <1>3
<1>5. f[0] = a
  BY <1>3
<1>6. ASSUME NEW n \in Nat PROVE f[n + 1] = g[f[n]]
  <2>1. c(n + 1)[n + 1] = g[c(n + 1)[n]]
    BY <1>3
  <2>2. c(n + 1)[n] = c(n)[n]
    <3> n \in Nat /\ n + 1 \in Nat /\ n <= n /\ n <= n + 1
      OBVIOUS
    <3>1. Upto(n, c(n)) /\ Upto(n + 1, c(n + 1))
      BY <1>3
    <3> HIDE DEF Upto
    <3> QED
      BY <1>2, <3>1
  <2> QED
    BY <2>1, <2>2
<1> QED
  BY <1>4, <1>5, <1>6

Iterates(F, W, A) == F \in [Nat -> A] /\ \A n \in Nat : F[n + 1] = W[F[n]]

LEMMA Approximations ==
  ASSUME NEW A, A # {}, NEW W, W \in [A -> A]
  PROVE  \E F : Iterates(F, W, A)
<1>1. PICK a : a \in A
  OBVIOUS
<1>2. \E F \in [Nat -> A] : F[0] = a /\ \A n \in Nat : F[n + 1] = W[F[n]]
  BY <1>1, Iteration
<1> QED
  BY <1>2 DEF Iterates

LooksDown(W, Z, A, rank) ==
  \A p \in Z : \A f, h \in A :
    (\A q \in Z : rank[q] < rank[p] => f[q] = h[q]) => W[f][p] = W[h][p]

IsRecursion(W, Z, V, A, rank) ==
  A = [Z -> V] /\ A # {} /\ rank \in [Z -> Nat] /\ W \in [A -> A] /\ LooksDown(W, Z, A, rank)

LEMMA Recursion ==
  ASSUME NEW Z, NEW V, NEW A, NEW rank, NEW W, IsRecursion(W, Z, V, A, rank)
  PROVE  \E f \in A : f = W[f]
<1>0. A = [Z -> V] /\ A # {} /\ rank \in [Z -> Nat] /\ W \in [A -> A] /\ LooksDown(W, Z, A, rank)
  BY DEF IsRecursion
<1> USE <1>0
<1>1. W \in [A -> A] /\ A # {}
  OBVIOUS
<1>2. PICK F : Iterates(F, W, A)
  BY <1>1, Approximations, Zenon
<1>9. F \in [Nat -> A] /\ \A n \in Nat : F[n + 1] = W[F[n]]
  BY <1>2 DEF Iterates
<1>3. ASSUME NEW n \in Nat PROVE \A p \in Z : rank[p] < n => F[n + 1][p] = F[n][p]
  <2> DEFINE E == {m \in Nat : \A p \in Z : rank[p] < m => F[m + 1][p] = F[m][p]}
  <2>1. 0 \in E
    OBVIOUS
  <2>2. ASSUME NEW m \in Nat, m \in E PROVE m + 1 \in E
    <3>1. ASSUME NEW p \in Z, rank[p] < m + 1 PROVE W[F[m + 1]][p] = W[F[m]][p]
      <4>1. \A q \in Z : rank[q] < rank[p] => F[m + 1][q] = F[m][q]
        BY <2>2, <3>1
      <4>2. F[m + 1] \in A /\ F[m] \in A
        BY <1>9
      <4> QED
        BY <4>1, <4>2 DEF LooksDown
    <3>2. F[m + 1 + 1] = W[F[m + 1]] /\ F[m + 1] = W[F[m]]
      BY <1>9
    <3> QED
      BY <3>1, <3>2
  <2> HIDE DEF E
  <2>3. n \in E
    BY <2>1, <2>2, SetInduction
  <2> QED
    BY <2>3 DEF E
<1>4. ASSUME NEW p \in Z, NEW n \in Nat PROVE F[rank[p] + 1 + n][p] = F[rank[p] + 1][p]
  <2> DEFINE E == {m \in Nat : F[rank[p] + 1 + m][p] = F[rank[p] + 1][p]}
  <2>1. 0 \in E
    OBVIOUS
  <2>2. ASSUME NEW m \in Nat, m \in E PROVE m + 1 \in E
    <3>1. rank[p] + 1 + m \in Nat /\ rank[p] < rank[p] + 1 + m /\ rank[p] + 1 + (m + 1) = rank[p] + 1 + m + 1
      OBVIOUS
    <3>2. F[rank[p] + 1 + m + 1][p] = F[rank[p] + 1 + m][p]
      BY <1>3, <1>9, <3>1
    <3> QED
      BY <2>2, <3>1, <3>2
  <2> HIDE DEF E
  <2>3. n \in E
    BY <2>1, <2>2, SetInduction
  <2> QED
    BY <2>3 DEF E
<1> DEFINE f == [p \in Z |-> F[rank[p] + 1][p]]
<1>5. f \in A
  <2>1. \A p \in Z : F[rank[p] + 1] \in [Z -> V]
    BY <1>9
  <2> QED
    BY <2>1
<1>6. ASSUME NEW p \in Z PROVE f[p] = W[f][p]
  <2>1. ASSUME NEW q \in Z, rank[q] < rank[p] PROVE f[q] = F[rank[p]][q]
    <3>1. rank[p] - rank[q] - 1 \in Nat /\ rank[q] + 1 + (rank[p] - rank[q] - 1) = rank[p]
      BY <2>1
    <3> QED
      BY <1>4, <3>1
  <2>2. F[rank[p]] \in A /\ F[rank[p] + 1] = W[F[rank[p]]]
    BY <1>9
  <2> HIDE DEF f
  <2>3. W[f][p] = W[F[rank[p]]][p]
    BY <1>5, <2>1, <2>2 DEF LooksDown
  <2>4. f[p] = F[rank[p] + 1][p]
    BY DEF f
  <2> QED
    BY <2>2, <2>3, <2>4
<1>7. W[f] \in A
  BY <1>5
<1>8. f = W[f]
  <2> HIDE DEF f
  <2> QED
    BY <1>5, <1>6, <1>7
<1> QED
  BY <1>5, <1>8

\* A function of the numbers up to n that is given by its first value and by
\* how each value follows from the one before it.
IsSequel(f, n, V, a, g) ==
  f \in [0 .. n -> V] /\ f[0] = a /\ \A k \in 1 .. n : f[k] = g[<<k, f[k - 1]>>]

LEMMA PrimitiveRecursion ==
  ASSUME NEW n \in Nat, NEW V, NEW a \in V, NEW g \in [(1 .. n) \X V -> V]
  PROVE  \E f : IsSequel(f, n, V, a, g)
<1> DEFINE Upto(m, f) == f \in [0 .. m -> V] /\ f[0] = a /\ \A k \in 1 .. m : f[k] = g[<<k, f[k - 1]>>]
           E == {m \in Nat : m <= n => \E f : Upto(m, f)}
<1>1. 0 \in E
  <2>1. Upto(0, [k \in 0 .. 0 |-> a])
    OBVIOUS
  <2> QED
    BY <2>1
<1>2. ASSUME NEW m \in Nat, m \in E PROVE m + 1 \in E
  <2> SUFFICES ASSUME m + 1 <= n PROVE \E f : Upto(m + 1, f)
    OBVIOUS
  <2>1. PICK f : Upto(m, f)
    BY <1>2
  <2> DEFINE h == [k \in 0 .. m + 1 |-> IF k <= m THEN f[k] ELSE g[<<m + 1, f[m]>>]]
  <2>2. f[m] \in V /\ <<m + 1, f[m]>> \in (1 .. n) \X V
    BY <2>1
  <2>3. g[<<m + 1, f[m]>>] \in V
    BY <2>2
  <2>4. h \in [0 .. m + 1 -> V] /\ h[0] = a
    BY <2>1, <2>3
  <2>5. ASSUME NEW k \in 1 .. m + 1 PROVE h[k] = g[<<k, h[k - 1]>>]
    <3>1. CASE k = m + 1
      <4>1. h[k] = g[<<m + 1, f[m]>>] /\ k - 1 = m /\ h[m] = f[m]
        BY <2>1, <3>1
      <4> QED
        BY <3>1, <4>1
    <3>2. CASE k # m + 1
      <4>1. k \in 1 .. m /\ k - 1 \in 0 .. m
        BY <2>5, <3>2
      <4>2. h[k] = f[k] /\ h[k - 1] = f[k - 1]
        BY <2>1, <4>1
      <4> QED
        BY <2>1, <4>1, <4>2
    <3> QED
      BY <3>1, <3>2
  <2>6. Upto(m + 1, h)
    BY <2>4, <2>5
  <2> HIDE DEF h, Upto
  <2> QED
    BY <2>6
<1>3. n \in E
  <2> HIDE DEF E
  <2> QED
    BY <1>1, <1>2, SetInduction
<1>4. PICK f : Upto(n, f)
  BY <1>3
<1>5. IsSequel(f, n, V, a, g)
  BY <1>4 DEF IsSequel
<1> QED
  BY <1>5

\* What holds at 0, and at the next number wherever it holds, up to n.
LEMMA InductionUpTo ==
  ASSUME NEW n \in Nat, NEW M, 0 \in M, \A k \in 0 .. n - 1 : k \in M => k + 1 \in M
  PROVE  \A k \in 0 .. n : k \in M
<1> DEFINE E == {k \in Nat : k <= n => k \in M}
<1>1. 0 \in E
  OBVIOUS
<1>2. \A k \in Nat : k \in E => k + 1 \in E
  OBVIOUS
<1>3. \A k \in Nat : k \in E
  <2> HIDE DEF E
  <2> QED
    BY <1>1, <1>2, SetInduction
<1> QED
  BY <1>3

LEMMA GreatestElement ==
  ASSUME NEW n \in Nat, NEW M \in SUBSET (0 .. n), M # {}
  PROVE  \E m \in M : \A k \in M : k <= m
<1> DEFINE E == {l \in Nat : (\A k \in M : k <= l) => \E m \in M : \A k \in M : k <= m}
<1>1. 0 \in E
  <2> SUFFICES ASSUME \A k \in M : k <= 0 PROVE \E m \in M : \A k \in M : k <= m
    OBVIOUS
  <2>1. PICK m : m \in M
    OBVIOUS
  <2>2. \A k \in M : k <= m
    BY <2>1
  <2> QED
    BY <2>1, <2>2
<1>2. ASSUME NEW l \in Nat, l \in E PROVE l + 1 \in E
  <2>1. CASE l + 1 \in M
    BY <2>1
  <2>2. CASE l + 1 \notin M
    <3>1. (\A k \in M : k <= l + 1) => \A k \in M : k <= l
      BY <2>2
    <3> QED
      BY <1>2, <3>1
  <2> QED
    BY <2>1, <2>2
<1>3. n \in E
  <2> HIDE DEF E
  <2> QED
    BY <1>1, <1>2, SetInduction
<1> QED
  BY <1>3

-----------------------------------------------------------------------------
(* Reading lines.                                                          *)

Contexts ==
  [kind : {"fd", "fp"}, content : Seq(Char), i_pos : Nat, buf : Seq(Char), line : Seq(Char),
   lines : Seq(Seq(Char)), end : {"none", "eof", "error"}]

\* These are the lines of a text up to the end at last.
LinesUntil(lines, text, last) ==
  \E e \in [0 .. Len(lines) -> Line!Ends(text)] : Line!AreLines(lines, e, text) /\ e[Len(lines)] = last

\* After the last line that was returned comes what was read of the next one,
\* then what is left in the buffer, up to where the port is.
FollowsOn(c, last) ==
  /\ last + Len(c.line) + Len(c.buf) = c.i_pos
  /\ \A j \in 1 .. Len(c.line) : c.line[j] = c.content[last + j] /\ c.line[j] # NL
  /\ \A j \in 1 .. Len(c.buf) : c.buf[j] = c.content[last + Len(c.line) + j]

\* The last line had no newline, and nothing is left.
Behind(c, last) ==
  last = Len(c.content) + 1 /\ c.i_pos = Len(c.content) /\ c.line = <<>> /\ c.buf = <<>>

Accounted(c, last) ==
  /\ LinesUntil(c.lines, c.content, last)
  /\ c.end = "none" => FollowsOn(c, last) \/ Behind(c, last)
  /\ c.end = "eof" => last >= Len(c.content)

LinesInv ==
  /\ state \in Contexts
  /\ state.i_pos <= Len(state.content)
  /\ state.end # "none" => state.buf = <<>>
  /\ \E last \in Line!Ends(state.content) : Accounted(state, last)

-----------------------------------------------------------------------------
(***************************************************************************)
(* Sequences.                                                              *)
(***************************************************************************)
LEMMA Piece ==
  ASSUME NEW M, NEW s \in Seq(M), NEW a \in Nat, NEW piece \in Seq(M),
         a + Len(piece) <= Len(s),
         \A j \in 1 .. Len(piece) : piece[j] = s[a + j]
  PROVE  piece = SubSeq(s, a + 1, a + Len(piece))
<1> DEFINE n == Len(piece)
           sub == SubSeq(s, a + 1, a + n)
<1>1. n \in Nat /\ Len(s) \in Nat
  BY LenProperties
<1>2. \A i \in a + 1 .. a + n : i \in 1 .. Len(s)
  BY <1>1
<1>3. \A i \in a + 1 .. a + n : s[i] \in M
  BY <1>2, ElementOfSeq
<1>4. /\ sub \in Seq(M)
      /\ Len(sub) = IF a + 1 <= a + n THEN a + n - (a + 1) + 1 ELSE 0
      /\ \A i \in 1 .. a + n - (a + 1) + 1 : sub[i] = s[a + 1 + i - 1]
  BY <1>1, <1>3, SubSeqProperties
<1> HIDE DEF sub
<1>5. Len(sub) = n
  BY <1>1, <1>4
<1>6. \A i \in 1 .. n : sub[i] = piece[i]
  <2> SUFFICES ASSUME NEW i \in 1 .. n PROVE sub[i] = piece[i]
    OBVIOUS
  <2>1. sub[i] = s[a + 1 + i - 1] /\ a + 1 + i - 1 = a + i
    BY <1>1, <1>4
  <2> QED
    BY <2>1
<1> QED
  BY <1>4, <1>5, <1>6, SeqEqual DEF sub

\* A part of a sequence from m to n, both of them in it.
LEMMA Part ==
  ASSUME NEW M, NEW s \in Seq(M), NEW m \in Nat \ {0}, NEW n \in Nat, n <= Len(s), m <= n + 1
  PROVE  /\ SubSeq(s, m, n) \in Seq(M)
         /\ Len(SubSeq(s, m, n)) = n + 1 - m
         /\ \A j \in 1 .. n + 1 - m : SubSeq(s, m, n)[j] = s[m - 1 + j]
<1>1. Len(s) \in Nat
  BY LenProperties
<1>2. \A i \in m .. n : i \in 1 .. Len(s)
  BY <1>1
<1>3. \A i \in m .. n : s[i] \in M
  BY <1>2, ElementOfSeq
<1>4. /\ SubSeq(s, m, n) \in Seq(M)
      /\ Len(SubSeq(s, m, n)) = IF m <= n THEN n - m + 1 ELSE 0
      /\ \A i \in 1 .. n - m + 1 : SubSeq(s, m, n)[i] = s[m + i - 1]
  BY <1>3, SubSeqProperties
<1>5. \A j \in 1 .. n + 1 - m : j \in 1 .. n - m + 1 /\ m + j - 1 = m - 1 + j
  OBVIOUS
<1> QED
  BY <1>4, <1>5

LEMMA UpTo ==
  ASSUME NEW n \in Nat, NEW k \in 1 .. n + 1, k # n + 1
  PROVE  k \in 1 .. n
OBVIOUS

LEMMA EndsOfText ==
  ASSUME NEW text \in Seq(Char)
  PROVE  /\ Len(text) \in Nat
         /\ Line!Ends(text) \subseteq 0 .. Len(text) + 1
         /\ \A i \in 1 .. Len(text) : text[i] = NL => i \in Line!Ends(text)
BY LenProperties DEF Line!Ends, Line!Newlines

-----------------------------------------------------------------------------
(***************************************************************************)
(* A read gives no more than there is and than the buffer holds, and       *)
(* nothing without an error only at the end.                               *)
(***************************************************************************)
LEMMA ReadSays ==
  ASSUME Line!LineSizes, NEW kind \in {"fd", "fp"}, NEW left \in Nat,
         NEW t \in Line!Port!ReadBytes(kind, left, BufSize)
  PROVE  /\ t.count \in 0 .. left
         /\ t.count = 0 /\ t.ret # -1 => left = 0
<1> USE DEF Line!Port!AllThereIs, Line!Port!Transfer, Line!LineSizes
<1>1. CASE kind = "fd"
  BY <1>1 DEF Line!Port!ReadBytes, Line!Port!ReadBytesFd
<1>2. CASE kind = "fp"
  BY <1>2 DEF Line!Port!ReadBytes, Line!Port!ReadBytesFp
<1> QED
  BY <1>1, <1>2

(***************************************************************************)
(* If what follows the last line up to the next end has no newline in it,  *)
(* it is the next line.                                                    *)
(***************************************************************************)
LEMMA NextLine ==
  ASSUME NEW text \in Seq(Char), NEW lines \in Seq(Seq(Char)), NEW last,
         LinesUntil(lines, text, last),
         NEW line \in Seq(Char), NEW to \in Line!Ends(text),
         to = last + Len(line) + 1,
         \A j \in 1 .. Len(line) : line[j] = text[last + j] /\ line[j] # NL,
         to > Len(text) => line # <<>>
  PROVE  /\ Append(lines, line) \in Seq(Seq(Char))
         /\ LinesUntil(Append(lines, line), text, to)
<1>0. PICK e \in [0 .. Len(lines) -> Line!Ends(text)] : Line!AreLines(lines, e, text) /\ e[Len(lines)] = last
  BY DEF LinesUntil
<1> DEFINE n == Len(lines)
           more == Append(lines, line)
           f == [k \in 0 .. n + 1 |-> IF k = n + 1 THEN to ELSE e[k]]
<1>1. n \in Nat /\ Len(line) \in Nat
  BY LenProperties
<1>2. /\ more \in Seq(Seq(Char))
      /\ Len(more) = n + 1
      /\ \A k \in 1 .. n : more[k] = lines[k]
      /\ more[n + 1] = line
  BY <1>1, AppendProperties
<1>3. e[n] \in Nat /\ to <= Len(text) + 1 /\ Len(text) \in Nat
  <2>1. Len(text) \in Nat /\ Line!Ends(text) \subseteq 0 .. Len(text) + 1
    BY EndsOfText
  <2>2. n \in 0 .. n
    BY <1>1
  <2>3. e[n] \in Line!Ends(text)
    BY <1>0, <2>2
  <2> QED
    BY <2>1, <2>3
<1>4. line = SubSeq(text, e[n] + 1, to - 1)
  <2>1. e[n] + Len(line) <= Len(text) /\ to - 1 = e[n] + Len(line)
    BY <1>0, <1>1, <1>3
  <2>2. line = SubSeq(text, e[n] + 1, e[n] + Len(line))
    BY <1>0, <1>3, <2>1, Piece
  <2> QED
    BY <2>1, <2>2
<1>5. \A i \in e[n] + 1 .. to - 1 : text[i] # NL
  <2> SUFFICES ASSUME NEW i \in e[n] + 1 .. to - 1 PROVE text[i] # NL
    OBVIOUS
  <2>1. i - e[n] \in 1 .. Len(line) /\ e[n] + (i - e[n]) = i
    BY <1>0, <1>1, <1>3
  <2> QED
    BY <1>0, <2>1
<1>6. f \in [0 .. n + 1 -> Line!Ends(text)] /\ f[n + 1] = to /\ \A k \in 0 .. n : f[k] = e[k]
  BY <1>0, <1>1
<1> HIDE DEF f, more
<1>7. Line!AreLines(more, f, text)
  <2>1. f[0] = 0
    BY <1>0, <1>1, <1>6 DEF Line!AreLines
  <2>2. ASSUME NEW k \in 1 .. n + 1
        PROVE  /\ f[k - 1] < f[k]
               /\ more[k] = SubSeq(text, f[k - 1] + 1, f[k] - 1)
               /\ \A i \in f[k - 1] + 1 .. f[k] - 1 : text[i] # NL
               /\ f[k] > Len(text) => more[k] # <<>>
    <3>1. CASE k = n + 1
      <4>1. f[k] = to /\ f[k - 1] = e[n] /\ more[k] = line
        BY <1>1, <1>2, <1>6, <3>1
      <4>2. e[n] < to
        BY <1>0, <1>1, <1>3
      <4> QED
        BY <1>4, <1>5, <4>1, <4>2
    <3>2. CASE k # n + 1
      <4>1. k \in 1 .. n
        BY <1>1, <2>2, <3>2, UpTo
      <4>3. k - 1 \in 0 .. n /\ k \in 0 .. n
        BY <1>1, <4>1
      <4>2. f[k] = e[k] /\ f[k - 1] = e[k - 1] /\ more[k] = lines[k]
        BY <1>2, <1>6, <4>1, <4>3
      <4> QED
        BY <1>0, <4>1, <4>2 DEF Line!AreLines
    <3> QED
      BY <3>1, <3>2
  <2> QED
    BY <1>2, <2>1, <2>2 DEF Line!AreLines
<1>8. f \in [0 .. Len(more) -> Line!Ends(text)] /\ f[Len(more)] = to
  BY <1>2, <1>6
<1> QED
  BY <1>2, <1>7, <1>8 DEF more, LinesUntil

-----------------------------------------------------------------------------
LEMMA InitHolds == ASSUME Line!LineSizes PROVE Line!Init => LinesInv
<1> SUFFICES ASSUME Line!Init PROVE LinesInv
  OBVIOUS
<1>0. PICK kind \in {"fd", "fp"}, len \in 0 .. MaxLen : \E content \in [1 .. len -> Char] :
        state = [kind |-> kind, content |-> content, i_pos |-> 0, buf |-> <<>>,
                   line |-> <<>>, lines |-> <<>>, end |-> "none"]
  BY DEF Line!Init
<1>1. PICK content \in [1 .. len -> Char] :
        state = [kind |-> kind, content |-> content, i_pos |-> 0, buf |-> <<>>,
                   line |-> <<>>, lines |-> <<>>, end |-> "none"]
  BY <1>0
<1>2. content \in Seq(Char) /\ Len(content) \in Nat
  <2>1. len \in Nat
    BY DEF Line!LineSizes
  <2>2. content \in Seq(Char)
    BY <1>1, <2>1
  <2> QED
    BY <2>2, LenProperties
<1>3. /\ <<>> \in Seq(Char) /\ <<>> \in Seq(Seq(Char))
      /\ Len(<<>>) = 0
  BY EmptySeq
<1>4. state \in Contexts
  BY <1>1, <1>2, <1>3 DEF Contexts
<1> DEFINE e == [k \in 0 .. 0 |-> 0]
<1>5. e \in [0 .. 0 -> Line!Ends(content)] /\ e[0] = 0
  BY DEF Line!Ends
<1> HIDE DEF e
<1>6. LinesUntil(<<>>, content, 0)
  BY <1>3, <1>5 DEF LinesUntil, Line!AreLines
<1>7. Accounted(state, 0)
  BY <1>1, <1>3, <1>6 DEF Accounted, FollowsOn
<1> QED
  BY <1>1, <1>2, <1>4, <1>7 DEF LinesInv, Line!Ends

\* What the invariant says of the places in the input.
LEMMA LinePlaces ==
  ASSUME state \in Contexts, NEW last \in Line!Ends(state.content)
  PROVE  /\ Len(state.content) \in Nat /\ Len(state.line) \in Nat /\ Len(state.buf) \in Nat
         /\ Len(state.lines) \in Nat
         /\ last \in 0 .. Len(state.content) + 1
<1>1. /\ state.content \in Seq(Char) /\ state.line \in Seq(Char) /\ state.buf \in Seq(Char)
      /\ state.lines \in Seq(Seq(Char))
  BY DEF Contexts
<1>2. Len(state.line) \in Nat /\ Len(state.buf) \in Nat /\ Len(state.lines) \in Nat
  BY <1>1, LenProperties
<1>3. Len(state.content) \in Nat /\ Line!Ends(state.content) \subseteq 0 .. Len(state.content) + 1
  BY <1>1, EndsOfText
<1> QED
  BY <1>2, <1>3

(***************************************************************************)
(* The buffer is filled, or the input is at its end.                       *)
(***************************************************************************)
LEMMA FillStep == ASSUME Line!LineSizes PROVE LinesInv /\ Line!Fill => LinesInv'
<1> SUFFICES ASSUME LinesInv, Line!Fill PROVE LinesInv'
  OBVIOUS
<1> DEFINE content == state.content
           lines == state.lines
           left == Len(content) - state.i_pos
           read(count) == SubSeq(content, state.i_pos + 1, state.i_pos + count)
           fresh(count) == [state EXCEPT !.i_pos = @ + count]
<1>1. /\ state \in Contexts /\ state.i_pos <= Len(content)
      /\ state.end = "none" /\ state.buf = <<>>
  BY DEF LinesInv, Line!Fill
<1>2. PICK last \in Line!Ends(content) : Accounted(state, last)
  BY DEF LinesInv
<1>3. /\ content \in Seq(Char) /\ lines \in Seq(Seq(Char)) /\ state.line \in Seq(Char)
      /\ state.i_pos \in Nat /\ state.kind \in {"fd", "fp"}
  BY <1>1 DEF Contexts
<1>4. /\ Len(content) \in Nat /\ Len(state.line) \in Nat /\ Len(lines) \in Nat
      /\ last \in 0 .. Len(content) + 1
  BY <1>1, <1>2, LinePlaces
<1>5. LinesUntil(lines, content, last) /\ (FollowsOn(state, last) \/ Behind(state, last))
  BY <1>1, <1>2 DEF Accounted
<1>6. left \in Nat
  BY <1>1, <1>3, <1>4
<1>7. PICK t \in Line!Port!ReadBytes(state.kind, left, BufSize) :
        state' = IF t.ret = -1 THEN [fresh(t.count) EXCEPT !.end = "error", !.line = <<>>]
                   ELSE IF t.count > 0 THEN [fresh(t.count) EXCEPT !.buf = read(t.count)]
                   ELSE IF state.line = <<>> THEN [fresh(t.count) EXCEPT !.end = "eof"]
                   ELSE Line!Returned(fresh(t.count), state.line, <<>>)
  BY DEF Line!Fill
<1>8. t.count \in 0 .. left /\ (t.count = 0 /\ t.ret # -1 => left = 0)
  BY <1>3, <1>6, <1>7, ReadSays
<1>9. t.count \in Nat /\ state.i_pos + t.count \in Nat /\ state.i_pos + t.count <= Len(content)
  BY <1>1, <1>3, <1>4, <1>8
<1>10. <<>> \in Seq(Char) /\ Len(<<>>) = 0
  BY EmptySeq
<1> HIDE DEF left, read
<1>11. CASE t.ret = -1
  <2>1. state' = [state EXCEPT !.i_pos = @ + t.count, !.end = "error", !.line = <<>>]
    BY <1>1, <1>7, <1>11 DEF Contexts
  <2>2. /\ state'.lines = lines /\ state'.content = content /\ state'.end = "error"
        /\ state'.i_pos = state.i_pos + t.count /\ state'.buf = <<>>
    BY <1>1, <2>1 DEF Contexts
  <2>3. state' \in Contexts
    BY <1>1, <1>9, <1>10, <2>1 DEF Contexts
  <2>4. Accounted(state', last)
    BY <1>5, <2>2 DEF Accounted
  <2> QED
    BY <1>2, <1>9, <2>2, <2>3, <2>4 DEF LinesInv
<1>12. CASE t.ret # -1 /\ t.count > 0
  <2>1. state' = [state EXCEPT !.i_pos = @ + t.count, !.buf = read(t.count)]
    BY <1>1, <1>7, <1>12 DEF Contexts
  <2>2. /\ read(t.count) \in Seq(Char) /\ Len(read(t.count)) = t.count
        /\ \A j \in 1 .. t.count : read(t.count)[j] = content[state.i_pos + j]
    <3> DEFINE m == state.i_pos + 1
               n == state.i_pos + t.count
    <3>1. m \in Nat \ {0} /\ n \in Nat /\ n <= Len(content) /\ m <= n + 1
      BY <1>3, <1>9
    <3>2. n + 1 - m = t.count /\ \A j \in 1 .. t.count : m - 1 + j = state.i_pos + j
      BY <1>3, <1>9
    <3> HIDE DEF m, n
    <3>3. /\ SubSeq(content, m, n) \in Seq(Char)
          /\ Len(SubSeq(content, m, n)) = n + 1 - m
          /\ \A j \in 1 .. n + 1 - m : SubSeq(content, m, n)[j] = content[m - 1 + j]
      BY <1>3, <3>1, Part
    <3> QED
      BY <3>2, <3>3 DEF read, m, n
  <2>3. /\ state'.lines = lines /\ state'.content = content /\ state'.end = "none"
        /\ state'.line = state.line
        /\ state'.i_pos = state.i_pos + t.count /\ state'.buf = read(t.count)
    BY <1>1, <2>1 DEF Contexts
  <2>4. state' \in Contexts
    BY <1>1, <1>9, <2>1, <2>2 DEF Contexts
  <2>5. FollowsOn(state, last) /\ last + Len(state.line) = state.i_pos
    <3>1. ~Behind(state, last)
      BY <1>3, <1>4, <1>8, <1>12 DEF Behind, left
    <3> QED
      BY <1>1, <1>4, <1>5, <1>10, <3>1 DEF FollowsOn
  <2>6. FollowsOn(state', last)
    <3>1. last + Len(state'.line) + Len(state'.buf) = state'.i_pos
      BY <1>4, <2>2, <2>3, <2>5
    <3>2. \A j \in 1 .. Len(state'.line) :
             state'.line[j] = state'.content[last + j] /\ state'.line[j] # NL
      BY <2>3, <2>5 DEF FollowsOn
    <3>3. \A j \in 1 .. Len(state'.buf) :
             state'.buf[j] = state'.content[last + Len(state'.line) + j]
      BY <2>2, <2>3, <2>5
    <3> QED
      BY <3>1, <3>2, <3>3 DEF FollowsOn
  <2>7. Accounted(state', last)
    BY <1>5, <2>3, <2>6 DEF Accounted
  <2> QED
    BY <1>2, <1>9, <2>3, <2>4, <2>7 DEF LinesInv
<1>13. CASE t.ret # -1 /\ t.count = 0 /\ state.line = <<>>
  <2>1. state' = [state EXCEPT !.i_pos = @ + t.count, !.end = "eof"]
    BY <1>1, <1>7, <1>13 DEF Contexts
  <2>2. /\ state'.lines = lines /\ state'.content = content /\ state'.end = "eof"
        /\ state'.i_pos = state.i_pos /\ state'.buf = <<>>
    BY <1>1, <1>3, <1>13, <2>1 DEF Contexts
  <2>3. state' \in Contexts
    BY <1>1, <1>9, <2>1 DEF Contexts
  <2>4. last >= Len(content)
    BY <1>1, <1>3, <1>4, <1>5, <1>8, <1>10, <1>13 DEF FollowsOn, Behind, left
  <2>5. Accounted(state', last)
    BY <1>5, <2>2, <2>4 DEF Accounted
  <2> QED
    BY <1>1, <1>2, <2>2, <2>3, <2>5 DEF LinesInv
<1>14. CASE t.ret # -1 /\ t.count = 0 /\ state.line # <<>>
  <2> DEFINE more == Append(lines, state.line)
             to == Len(content) + 1
  <2>1. state' = [state EXCEPT !.i_pos = @ + t.count, !.lines = more, !.line = <<>>, !.buf = <<>>]
    BY <1>1, <1>7, <1>14 DEF Contexts, Line!Returned
  <2>2. /\ state.i_pos = Len(content)
        /\ FollowsOn(state, last) /\ to = last + Len(state.line) + 1
    <3>1. state.i_pos = Len(content)
      BY <1>3, <1>4, <1>8, <1>14 DEF left
    <3>2. FollowsOn(state, last)
      BY <1>5, <1>14 DEF Behind
    <3>3. last + Len(state.line) + Len(state.buf) = state.i_pos /\ Len(state.buf) = 0
      BY <1>1, <1>10, <3>2 DEF FollowsOn
    <3>4. to = state.i_pos + 1 /\ last + Len(state.line) = state.i_pos
      BY <1>4, <3>1, <3>3
    <3> QED
      BY <1>4, <3>1, <3>2, <3>4
  <2>3. \A j \in 1 .. Len(state.line) : state.line[j] = content[last + j] /\ state.line[j] # NL
    BY <2>2 DEF FollowsOn
  <2>4. to \in Line!Ends(content)
    BY DEF Line!Ends
  <2>11. to > Len(content) => state.line # <<>>
    BY <1>14
  <2> HIDE DEF to
  <2>5. more \in Seq(Seq(Char)) /\ LinesUntil(more, content, to)
    BY <1>3, <1>5, <2>2, <2>3, <2>4, <2>11, NextLine
  <2> HIDE DEF more
  <2>7. /\ state'.lines = more /\ state'.content = content /\ state'.end = "none"
        /\ state'.i_pos = state.i_pos /\ state'.buf = <<>> /\ state'.line = <<>>
    BY <1>1, <1>3, <1>14, <2>1 DEF Contexts
  <2>8. state' \in Contexts
    BY <1>1, <1>9, <1>10, <2>1, <2>5 DEF Contexts
  <2>9. Behind(state', to)
    BY <2>2, <2>7 DEF Behind, to
  <2>10. Accounted(state', to)
    BY <2>5, <2>7, <2>9 DEF Accounted
  <2> QED
    BY <1>1, <2>4, <2>7, <2>8, <2>10 DEF LinesInv
<1> QED
  BY <1>9, <1>11, <1>12, <1>13, <1>14

(***************************************************************************)
(* A line ends in the buffer, or goes on behind it.                        *)
(***************************************************************************)
LEMMA ScanStep == LinesInv /\ Line!Scan => LinesInv'
<1> SUFFICES ASSUME LinesInv, Line!Scan PROVE LinesInv'
  OBVIOUS
<1>0. state \in Contexts /\ state.i_pos <= Len(state.content)
      /\ state.end = "none" /\ state.buf # <<>>
  BY DEF LinesInv, Line!Scan
<1>1. PICK content \in Seq(Char), lines \in Seq(Seq(Char)), line \in Seq(Char), buf \in Seq(Char), i_pos \in Nat :
        /\ content = state.content /\ lines = state.lines /\ line = state.line
        /\ buf = state.buf /\ i_pos = state.i_pos
  BY <1>0 DEF Contexts
<1>2. PICK last \in Nat : last \in Line!Ends(content) /\ Accounted(state, last)
  <2>1. Line!Ends(content) \subseteq Nat
    BY EndsOfText
  <2> QED
    BY <1>1, <2>1 DEF LinesInv
<1>3. i_pos <= Len(content)
  BY <1>0, <1>1
<1>4. /\ Len(content) \in Nat /\ Len(line) \in Nat /\ Len(lines) \in Nat /\ Len(buf) \in Nat
  BY <1>0, <1>1, <1>2, LinePlaces
<1>5. LinesUntil(lines, content, last) /\ FollowsOn(state, last)
  BY <1>0, <1>1, <1>2 DEF Accounted, Behind
<1>6. /\ last + Len(line) + Len(buf) = i_pos
      /\ \A j \in 1 .. Len(line) : line[j] = content[last + j] /\ line[j] # NL
      /\ \A j \in 1 .. Len(buf) : buf[j] = content[last + Len(line) + j]
  BY <1>1, <1>5 DEF FollowsOn
<1>7. <<>> \in Seq(Char) /\ Len(<<>>) = 0
  BY EmptySeq
<1>8. DOMAIN buf = 1 .. Len(buf)
  BY LenProperties
<1>9. CASE /\ Line!Newlines(buf) = {}
           /\ state' = [state EXCEPT !.line = line \o buf, !.buf = <<>>]
  <2>1. /\ line \o buf \in Seq(Char)
        /\ Len(line \o buf) = Len(line) + Len(buf)
        /\ \A i \in 1 .. Len(line) + Len(buf) :
             (line \o buf)[i] = IF i <= Len(line) THEN line[i] ELSE buf[i - Len(line)]
    BY <1>3, ConcatProperties
  <2>2. /\ state'.lines = lines /\ state'.content = content /\ state'.end = "none"
        /\ state'.i_pos = i_pos /\ state'.line = line \o buf /\ state'.buf = <<>>
    BY <1>0, <1>1, <1>9 DEF Contexts
  <2>3. state' \in Contexts
    BY <1>0, <1>7, <1>9, <2>1 DEF Contexts
  <2>4. \A j \in 1 .. Len(buf) : buf[j] # NL
    BY <1>8, <1>9 DEF Line!Newlines
  <2>5. ASSUME NEW j \in 1 .. Len(line) + Len(buf)
        PROVE  (line \o buf)[j] = content[last + j] /\ (line \o buf)[j] # NL
    <3>1. CASE j <= Len(line)
      <4>1. j \in 1 .. Len(line)
        BY <1>4, <2>5, <3>1
      <4> QED
        BY <1>6, <2>1, <2>5, <3>1, <4>1
    <3>2. CASE ~(j <= Len(line))
      <4>1. j - Len(line) \in 1 .. Len(buf) /\ last + Len(line) + (j - Len(line)) = last + j
        BY <1>4, <2>5, <3>2
      <4> QED
        BY <1>6, <2>1, <2>4, <2>5, <3>2, <4>1
    <3> QED
      BY <3>1, <3>2
  <2>6. FollowsOn(state', last)
    <3>1. last + Len(state'.line) + Len(state'.buf) = state'.i_pos
      BY <1>4, <1>6, <1>7, <2>1, <2>2
    <3>2. \A j \in 1 .. Len(state'.line) :
             state'.line[j] = state'.content[last + j] /\ state'.line[j] # NL
      BY <2>1, <2>2, <2>5
    <3>3. \A j \in 1 .. Len(state'.buf) :
             state'.buf[j] = state'.content[last + Len(state'.line) + j]
      BY <1>7, <2>2
    <3> QED
      BY <3>1, <3>2, <3>3 DEF FollowsOn
  <2>7. Accounted(state', last)
    BY <1>5, <2>2, <2>6 DEF Accounted
  <2> QED
    BY <1>2, <1>3, <2>2, <2>3, <2>7 DEF LinesInv
<1>10. ASSUME NEW h \in Nat, h \in Line!Newlines(buf),
              \A i \in Line!Newlines(buf) : h <= i,
              state' = Line!Returned(state, line \o SubSeq(buf, 1, h - 1), SubSeq(buf, h + 1, Len(buf)))
       PROVE  LinesInv'
  <2> DEFINE head == SubSeq(buf, 1, h - 1)
             rest == SubSeq(buf, h + 1, Len(buf))
             all == line \o head
             more == Append(lines, all)
             to == last + Len(all) + 1
  <2>1. h \in 1 .. Len(buf) /\ buf[h] = NL
    BY <1>8, <1>10 DEF Line!Newlines
  <2>2. ASSUME NEW j \in 1 .. h - 1 PROVE j \in 1 .. Len(buf) /\ buf[j] # NL
    <3>1. j \in 1 .. Len(buf) /\ ~(h <= j)
      BY <1>4, <2>1, <2>2
    <3> QED
      BY <1>8, <1>10, <3>1 DEF Line!Newlines
  <2>3. /\ head \in Seq(Char) /\ Len(head) = h - 1
        /\ \A j \in 1 .. h - 1 : head[j] = buf[j]
    <3>1. 1 \in Nat \ {0} /\ h - 1 \in Nat /\ h - 1 <= Len(buf) /\ 1 <= h - 1 + 1
      BY <1>4, <2>1
    <3>2. h - 1 + 1 - 1 = h - 1 /\ \A j \in 1 .. h - 1 : 1 - 1 + j = j
      BY <3>1
    <3>3. /\ head \in Seq(Char) /\ Len(head) = h - 1 + 1 - 1
          /\ \A j \in 1 .. h - 1 + 1 - 1 : head[j] = buf[1 - 1 + j]
      BY <1>3, <3>1, Part
    <3> QED
      BY <3>2, <3>3
  <2>4. /\ rest \in Seq(Char) /\ Len(rest) = Len(buf) - h
        /\ \A j \in 1 .. Len(buf) - h : rest[j] = buf[h + j]
    <3>1. h + 1 \in Nat \ {0} /\ h + 1 <= Len(buf) + 1
      BY <1>4, <2>1
    <3>2. Len(buf) + 1 - (h + 1) = Len(buf) - h /\ \A j \in 1 .. Len(buf) - h : h + 1 - 1 + j = h + j
      BY <1>4, <2>1
    <3> DEFINE m == h + 1
    <3>3. m \in Nat \ {0} /\ m <= Len(buf) + 1 /\ Len(buf) <= Len(buf)
      BY <1>4, <3>1
    <3>5. Len(buf) + 1 - m = Len(buf) - h /\ \A j \in 1 .. Len(buf) - h : m - 1 + j = h + j
      BY <3>2
    <3> HIDE DEF m
    <3>4. /\ SubSeq(buf, m, Len(buf)) \in Seq(Char)
          /\ Len(SubSeq(buf, m, Len(buf))) = Len(buf) + 1 - m
          /\ \A j \in 1 .. Len(buf) + 1 - m : SubSeq(buf, m, Len(buf))[j] = buf[m - 1 + j]
      BY <1>4, <3>3, Part
    <3>6. /\ SubSeq(buf, m, Len(buf)) \in Seq(Char)
          /\ Len(SubSeq(buf, m, Len(buf))) = Len(buf) - h
          /\ \A j \in 1 .. Len(buf) - h : SubSeq(buf, m, Len(buf))[j] = buf[h + j]
      BY <3>4, <3>5
    <3> QED
      BY <3>6 DEF m
  <2> HIDE DEF head, rest
  <2>5. /\ all \in Seq(Char) /\ Len(all) = Len(line) + (h - 1)
        /\ \A i \in 1 .. Len(line) + (h - 1) : all[i] = IF i <= Len(line) THEN line[i] ELSE head[i - Len(line)]
    <3>1. /\ all \in Seq(Char) /\ Len(all) = Len(line) + Len(head)
          /\ \A i \in 1 .. Len(line) + Len(head) :
               all[i] = IF i <= Len(line) THEN line[i] ELSE head[i - Len(line)]
      BY <2>3, ConcatProperties
    <3> QED
      BY <2>3, <3>1
  <2> HIDE DEF all
  <2>6. ASSUME NEW j \in 1 .. Len(all) PROVE all[j] = content[last + j] /\ all[j] # NL
    <3>1. CASE j <= Len(line)
      <4>1. j \in 1 .. Len(line) /\ j \in 1 .. Len(line) + (h - 1)
        BY <1>4, <2>1, <2>5, <2>6, <3>1
      <4> QED
        BY <1>6, <2>5, <3>1, <4>1
    <3>2. CASE ~(j <= Len(line))
      <4>1. /\ j - Len(line) \in 1 .. h - 1 /\ last + Len(line) + (j - Len(line)) = last + j
            /\ j \in 1 .. Len(line) + (h - 1)
        BY <1>4, <2>1, <2>5, <2>6, <3>2
      <4>2. all[j] = buf[j - Len(line)] /\ buf[j - Len(line)] # NL /\ j - Len(line) \in 1 .. Len(buf)
        BY <2>2, <2>3, <2>5, <3>2, <4>1
      <4> QED
        BY <1>6, <4>1, <4>2
    <3> QED
      BY <3>1, <3>2
  <2>7. /\ to = last + Len(line) + h /\ to \in 1 .. Len(content)
        /\ content[to] = NL
    <3>1. to = last + Len(line) + h
      BY <1>4, <2>1, <2>5
    <3>2. to \in 1 .. Len(content)
      BY <1>3, <1>4, <1>6, <2>1, <3>1
    <3> QED
      BY <1>6, <2>1, <3>1, <3>2
  <2>8. to \in Line!Ends(content) /\ ~(to > Len(content))
    BY <1>3, <1>4, <2>7, EndsOfText
  <2>9. to = last + Len(all) + 1
    OBVIOUS
  <2> HIDE DEF to
  <2>10. more \in Seq(Seq(Char)) /\ LinesUntil(more, content, to)
    BY <1>3, <1>5, <2>5, <2>6, <2>8, <2>9, NextLine
  <2> HIDE DEF more
  <2>11. state' = [state EXCEPT !.lines = more, !.line = <<>>, !.buf = rest]
    BY <1>0, <1>1, <1>10 DEF Line!Returned, more, all, head, rest
  <2>12. /\ state'.lines = more /\ state'.content = content /\ state'.end = "none"
         /\ state'.i_pos = i_pos /\ state'.line = <<>> /\ state'.buf = rest
    BY <1>0, <1>1, <2>11 DEF Contexts
  <2>13. state' \in Contexts
    BY <1>0, <1>7, <2>4, <2>10, <2>11 DEF Contexts
  <2>14. FollowsOn(state', to)
    <3>1. to + Len(state'.line) + Len(state'.buf) = state'.i_pos
      <4>1. Len(state'.line) = 0 /\ Len(state'.buf) = Len(buf) - h /\ state'.i_pos = i_pos
        BY <1>7, <2>4, <2>12
      <4>2. to + 0 + (Len(buf) - h) = i_pos
        <5> DEFINE a == last + Len(line)
        <5>1. a \in Nat /\ h \in Nat
          BY <1>4, <2>1
        <5>2. a + Len(buf) = i_pos /\ to = a + h
          BY <1>6, <2>7
        <5> HIDE DEF a
        <5>3. (a + h) + 0 + (Len(buf) - h) = a + Len(buf)
          BY <1>4, <5>1
        <5> QED
          BY <5>2, <5>3
      <4> QED
        BY <4>1, <4>2
    <3>2. \A j \in 1 .. Len(state'.line) :
             state'.line[j] = state'.content[to + j] /\ state'.line[j] # NL
      BY <1>7, <2>12
    <3>3. ASSUME NEW j \in 1 .. Len(state'.buf)
          PROVE  state'.buf[j] = state'.content[to + Len(state'.line) + j]
      <4>1. j \in 1 .. Len(buf) - h
        BY <2>4, <2>12, <3>3
      <4>2. /\ h + j \in 1 .. Len(buf) /\ last + Len(line) + (h + j) = to + j
            /\ to + 0 + j = to + j
        BY <1>4, <2>1, <2>7, <4>1
      <4>4. Len(state'.line) = 0
        BY <1>7, <2>12
      <4>3. state'.buf[j] = buf[h + j]
        BY <2>4, <2>12, <4>1
      <4> QED
        BY <1>6, <2>12, <4>2, <4>3, <4>4
    <3> QED
      BY <3>1, <3>2, <3>3 DEF FollowsOn
  <2>15. Accounted(state', to)
    BY <2>10, <2>12, <2>14 DEF Accounted
  <2> QED
    BY <1>3, <2>8, <2>12, <2>13, <2>15 DEF LinesInv
<1> QED
  <2>1. Line!Newlines(buf) \subseteq Nat
    BY <1>4, <1>8 DEF Line!Newlines
  <2> QED
    BY <1>1, <1>9, <1>10, <2>1 DEF Line!Scan

-----------------------------------------------------------------------------
LEMMA LinesInvariance == Spec => [](tool = "lines" => LinesInv)
<1>1. Init => (tool = "lines" => LinesInv)
  BY InitHolds, LinesAssumption DEF Init
<1>2. (tool = "lines" => LinesInv) /\ [Next]_vars => (tool = "lines" => LinesInv)'
  <2> SUFFICES ASSUME tool = "lines" => LinesInv, [Next]_vars, tool' = "lines"
               PROVE  LinesInv'
    OBVIOUS
  <2>1. CASE UNCHANGED vars
    BY <2>1 DEF vars, LinesInv
  <2>2. CASE Next
    <3>1. tool = "lines" /\ Line!Next
      BY <2>2, Zenon DEF Next, HashEnd, GroupsEnd, StringsEnd, SampleEnd, MeanEnd, UniqEnd, PathsEnd, Ends
    <3> QED
      BY <3>1, FillStep, ScanStep, LinesAssumption DEF Line!Next
  <2> QED
    BY <2>1, <2>2
<1> QED
  BY <1>1, <1>2, PTL DEF Spec

(***************************************************************************)
(* However the reads cut the input, and whatever the sizes of the input    *)
(* and the buffer, a tool that reads lines has the first lines of the      *)
(* input, each of them whole, and all of them at its end (line.c:51-107).  *)
(***************************************************************************)
THEOREM LineReaderReadsLines == Spec => []LinesRead
<1>1. (tool = "lines" => LinesInv) => LinesRead
  BY DEF LinesInv, Accounted, LinesUntil, LinesRead, Line!LinesRead
<1> QED
  BY <1>1, LinesInvariance, PTL

-----------------------------------------------------------------------------
(* Tables of edit distances.                                               *)

\* The least of two numbers, as the code takes it.
LEMMA LeastOfTwo ==
  ASSUME NEW a \in Int, NEW b \in Int
  PROVE  /\ T!Least(a, b) \in {a, b}
         /\ T!Least(a, b) <= a /\ T!Least(a, b) <= b
         /\ a \in Nat /\ b \in Nat => T!Least(a, b) \in Nat
BY DEF T!Least

\* What a place of a table follows from.
Next3(F, i, j, same) ==
  T!Least(T!Least(F[<<i, j - 1>>] + 1, F[<<i - 1, j>>] + 1),
          F[<<i - 1, j - 1>>] + (IF <<i, j>> \in same THEN 0 ELSE 1))

\* The table of edit distances of the first i and the first j elements.
IsTable(F, m, n, same) ==
  /\ F \in [(0 .. m) \X (0 .. n) -> Nat]
  /\ \A i \in 0 .. m : F[<<i, 0>>] = i
  /\ \A j \in 0 .. n : F[<<0, j>>] = j
  /\ \A i \in 1 .. m : \A j \in 1 .. n : F[<<i, j>>] = Next3(F, i, j, same)

LEMMA TablePlace ==
  ASSUME NEW m \in Nat, NEW n \in Nat, NEW same, NEW F, IsTable(F, m, n, same),
         NEW i \in 1 .. m, NEW j \in 1 .. n
  PROVE  /\ i \in 0 .. m /\ i - 1 \in 0 .. m /\ j \in 0 .. n /\ j - 1 \in 0 .. n
         /\ F[<<i, j>>] \in Nat /\ F[<<i - 1, j>>] \in Nat /\ F[<<i, j - 1>>] \in Nat /\ F[<<i - 1, j - 1>>] \in Nat
         /\ F[<<i, j>>] <= F[<<i, j - 1>>] + 1
         /\ F[<<i, j>>] <= F[<<i - 1, j>>] + 1
         /\ F[<<i, j>>] <= F[<<i - 1, j - 1>>] + 1
         /\ <<i, j>> \in same => F[<<i, j>>] <= F[<<i - 1, j - 1>>]
         /\ \/ F[<<i, j>>] = F[<<i, j - 1>>] + 1
            \/ F[<<i, j>>] = F[<<i - 1, j>>] + 1
            \/ F[<<i, j>>] = F[<<i - 1, j - 1>>] + 1 /\ <<i, j>> \notin same
            \/ F[<<i, j>>] = F[<<i - 1, j - 1>>] /\ <<i, j>> \in same
<1>1. i \in 0 .. m /\ i - 1 \in 0 .. m /\ j \in 0 .. n /\ j - 1 \in 0 .. n
  OBVIOUS
<1>2. \A a \in 0 .. m : \A b \in 0 .. n : F[<<a, b>>] \in Nat
  BY DEF IsTable
<1>3. PICK p \in Nat, q \in Nat, r \in Nat, v \in Nat :
        p = F[<<i, j - 1>>] /\ q = F[<<i - 1, j>>] /\ r = F[<<i - 1, j - 1>>] /\ v = F[<<i, j>>]
  BY <1>1, <1>2
<1>4. v = T!Least(T!Least(p + 1, q + 1), r + (IF <<i, j>> \in same THEN 0 ELSE 1))
  BY <1>3 DEF IsTable, Next3
<1>5. /\ v <= p + 1 /\ v <= q + 1 /\ v <= r + 1
      /\ <<i, j>> \in same => v <= r
      /\ v = p + 1 \/ v = q + 1 \/ (v = r + 1 /\ <<i, j>> \notin same) \/ (v = r /\ <<i, j>> \in same)
  BY <1>4 DEF T!Least
<1> QED
  BY <1>1, <1>3, <1>5

LEMMA TableEdge ==
  ASSUME NEW m \in Nat, NEW n \in Nat, NEW same, NEW F, IsTable(F, m, n, same)
  PROVE  /\ \A i \in 0 .. m : \A j \in 0 .. n : F[<<i, j>>] \in Nat
         /\ \A i \in 0 .. m : F[<<i, 0>>] = i
         /\ \A j \in 0 .. n : F[<<0, j>>] = j
BY DEF IsTable

(***************************************************************************)
(* Induction over the places of a table: what holds at a place when it     *)
(* holds at those that the place follows from.                             *)
(***************************************************************************)
LEMMA PlaceInduction ==
  ASSUME NEW m \in Nat, NEW n \in Nat, NEW M,
         \A i \in 0 .. m : <<i, 0>> \in M,
         \A j \in 0 .. n : <<0, j>> \in M,
         \A i \in 1 .. m : \A j \in 1 .. n :
           <<i, j - 1>> \in M /\ <<i - 1, j>> \in M /\ <<i - 1, j - 1>> \in M => <<i, j>> \in M
  PROVE  \A i \in 0 .. m : \A j \in 0 .. n : <<i, j>> \in M
<1> DEFINE E == {t \in Nat : \A i \in 0 .. m : \A j \in 0 .. n : i + j <= t => <<i, j>> \in M}
<1>1. 0 \in E
  <2>1. \A i \in 0 .. m : \A j \in 0 .. n : i + j <= 0 => i = 0 /\ j = 0
    OBVIOUS
  <2> QED
    BY <2>1
<1>2. ASSUME NEW t \in Nat, t \in E PROVE t + 1 \in E
  <2> SUFFICES ASSUME NEW i \in 0 .. m, NEW j \in 0 .. n, i + j <= t + 1 PROVE <<i, j>> \in M
    OBVIOUS
  <2>1. CASE i = 0 \/ j = 0
    BY <2>1
  <2>2. CASE i # 0 /\ j # 0
    <3>1. i \in 1 .. m /\ j \in 1 .. n /\ i - 1 \in 0 .. m /\ j - 1 \in 0 .. n
      BY <2>2
    <3>2. i + (j - 1) <= t /\ (i - 1) + j <= t /\ (i - 1) + (j - 1) <= t
      OBVIOUS
    <3>3. <<i, j - 1>> \in M /\ <<i - 1, j>> \in M /\ <<i - 1, j - 1>> \in M
      BY <1>2, <3>1, <3>2
    <3> QED
      BY <3>1, <3>3
  <2> QED
    BY <2>1, <2>2
<1>3. \A t \in Nat : t \in E
  <2> HIDE DEF E
  <2> QED
    BY <1>1, <1>2, SetInduction
<1>4. ASSUME NEW i \in 0 .. m, NEW j \in 0 .. n PROVE <<i, j>> \in M
  <2>1. i + j \in Nat /\ i + j <= i + j
    OBVIOUS
  <2> QED
    BY <1>3, <2>1
<1> QED
  BY <1>4

\* The distance is no less than the difference of the lengths.
LEMMA TableBounds ==
  ASSUME NEW m \in Nat, NEW n \in Nat, NEW same, NEW F, IsTable(F, m, n, same)
  PROVE  \A i \in 0 .. m : \A j \in 0 .. n : F[<<i, j>>] >= i - j /\ F[<<i, j>>] >= j - i
<1> DEFINE M == {p \in (0 .. m) \X (0 .. n) : F[p] >= p[1] - p[2] /\ F[p] >= p[2] - p[1]}
<1>0. \A i \in 0 .. m : \A j \in 0 .. n : <<i, j>> \in M <=> F[<<i, j>>] >= i - j /\ F[<<i, j>>] >= j - i
  OBVIOUS
<1> HIDE DEF M
<1>5. /\ \A i \in 0 .. m : \A j \in 0 .. n : F[<<i, j>>] \in Nat
      /\ \A i \in 0 .. m : F[<<i, 0>>] = i
      /\ \A j \in 0 .. n : F[<<0, j>>] = j
  BY TableEdge
<1>1. ASSUME NEW i \in 0 .. m PROVE <<i, 0>> \in M
  BY <1>0, <1>5
<1>2. ASSUME NEW j \in 0 .. n PROVE <<0, j>> \in M
  BY <1>0, <1>5
<1>3. ASSUME NEW i \in 1 .. m, NEW j \in 1 .. n,
             <<i, j - 1>> \in M, <<i - 1, j>> \in M, <<i - 1, j - 1>> \in M
      PROVE  <<i, j>> \in M
  <2>1. /\ i \in 0 .. m /\ i - 1 \in 0 .. m /\ j \in 0 .. n /\ j - 1 \in 0 .. n
        /\ F[<<i, j>>] \in Nat /\ F[<<i - 1, j>>] \in Nat /\ F[<<i, j - 1>>] \in Nat /\ F[<<i - 1, j - 1>>] \in Nat
        /\ \/ F[<<i, j>>] = F[<<i, j - 1>>] + 1
           \/ F[<<i, j>>] = F[<<i - 1, j>>] + 1
           \/ F[<<i, j>>] = F[<<i - 1, j - 1>>] + 1
           \/ F[<<i, j>>] = F[<<i - 1, j - 1>>]
    BY TablePlace
  <2>2. /\ F[<<i - 1, j - 1>>] >= (i - 1) - (j - 1) /\ F[<<i - 1, j - 1>>] >= (j - 1) - (i - 1)
        /\ F[<<i - 1, j>>] >= (i - 1) - j /\ F[<<i - 1, j>>] >= j - (i - 1)
        /\ F[<<i, j - 1>>] >= i - (j - 1) /\ F[<<i, j - 1>>] >= (j - 1) - i
    BY <1>0, <1>3, <2>1
  <2>3. F[<<i, j>>] >= i - j /\ F[<<i, j>>] >= j - i
    BY <2>1, <2>2
  <2> QED
    BY <1>0, <2>1, <2>3
<1>4. \A i \in 0 .. m : \A j \in 0 .. n : <<i, j>> \in M
  BY <1>1, <1>2, <1>3, PlaceInduction
<1> QED
  BY <1>0, <1>4

\* One element less of either changes the distance by one at most.
LEMMA TableSteps ==
  ASSUME NEW m \in Nat, NEW n \in Nat, NEW same, NEW F, IsTable(F, m, n, same)
  PROVE  \A i \in 0 .. m : \A j \in 0 .. n :
           /\ i > 0 => F[<<i - 1, j>>] <= F[<<i, j>>] + 1
           /\ j > 0 => F[<<i, j - 1>>] <= F[<<i, j>>] + 1
<1> DEFINE Z(i, j) == /\ i > 0 => F[<<i - 1, j>>] <= F[<<i, j>>] + 1
                      /\ j > 0 => F[<<i, j - 1>>] <= F[<<i, j>>] + 1
           M == {p \in (0 .. m) \X (0 .. n) : Z(p[1], p[2])}
<1>0. \A i \in 0 .. m : \A j \in 0 .. n : <<i, j>> \in M <=> Z(i, j)
  OBVIOUS
<1> HIDE DEF M, Z
<1>5. /\ \A i \in 0 .. m : \A j \in 0 .. n : F[<<i, j>>] \in Nat
      /\ \A i \in 0 .. m : F[<<i, 0>>] = i
      /\ \A j \in 0 .. n : F[<<0, j>>] = j
  BY TableEdge
<1>1. ASSUME NEW i \in 0 .. m PROVE <<i, 0>> \in M
  <2>1. i > 0 => i - 1 \in 0 .. m
    OBVIOUS
  <2>2. Z(i, 0)
    BY <1>5, <2>1 DEF Z
  <2>3. 0 \in 0 .. n
    OBVIOUS
  <2> QED
    BY <1>0, <2>2, <2>3
<1>2. ASSUME NEW j \in 0 .. n PROVE <<0, j>> \in M
  <2>1. j > 0 => j - 1 \in 0 .. n
    OBVIOUS
  <2>2. Z(0, j)
    BY <1>5, <2>1 DEF Z
  <2>3. 0 \in 0 .. m
    OBVIOUS
  <2> QED
    BY <1>0, <2>2, <2>3
<1>3. ASSUME NEW i \in 1 .. m, NEW j \in 1 .. n,
             <<i, j - 1>> \in M, <<i - 1, j>> \in M, <<i - 1, j - 1>> \in M
      PROVE  <<i, j>> \in M
  <2>1. /\ i \in 0 .. m /\ i - 1 \in 0 .. m /\ j \in 0 .. n /\ j - 1 \in 0 .. n
        /\ F[<<i, j>>] \in Nat /\ F[<<i - 1, j>>] \in Nat /\ F[<<i, j - 1>>] \in Nat /\ F[<<i - 1, j - 1>>] \in Nat
        /\ F[<<i, j>>] <= F[<<i, j - 1>>] + 1
        /\ F[<<i, j>>] <= F[<<i - 1, j>>] + 1
        /\ \/ F[<<i, j>>] = F[<<i, j - 1>>] + 1
           \/ F[<<i, j>>] = F[<<i - 1, j>>] + 1
           \/ F[<<i, j>>] = F[<<i - 1, j - 1>>] + 1
           \/ F[<<i, j>>] = F[<<i - 1, j - 1>>]
    BY TablePlace
  <2>2. Z(i, j - 1) /\ Z(i - 1, j)
    BY <1>0, <1>3, <2>1
  <2>3. F[<<i - 1, j - 1>>] <= F[<<i, j - 1>>] + 1 /\ F[<<i - 1, j - 1>>] <= F[<<i - 1, j>>] + 1
    BY <2>2 DEF Z
  <2>4. F[<<i, j - 1>>] <= F[<<i - 1, j - 1>>] + 1
    <3>1. CASE j - 1 = 0
      <4>1. F[<<i, 0>>] = i /\ F[<<i - 1, 0>>] = i - 1
        BY <1>5, <2>1
      <4> QED
        BY <3>1, <4>1
    <3>2. CASE j - 1 # 0
      <4>1. j - 1 \in 1 .. n
        BY <3>2
      <4> QED
        BY <4>1, TablePlace
    <3> QED
      BY <3>1, <3>2
  <2>5. F[<<i - 1, j>>] <= F[<<i - 1, j - 1>>] + 1
    <3>1. CASE i - 1 = 0
      <4>1. F[<<0, j>>] = j /\ F[<<0, j - 1>>] = j - 1
        BY <1>5, <2>1
      <4> QED
        BY <3>1, <4>1
    <3>2. CASE i - 1 # 0
      <4>1. i - 1 \in 1 .. m
        BY <3>2
      <4> QED
        BY <4>1, TablePlace
    <3> QED
      BY <3>1, <3>2
  <2>6. F[<<i - 1, j>>] <= F[<<i, j>>] + 1 /\ F[<<i, j - 1>>] <= F[<<i, j>>] + 1
    BY <2>1, <2>3, <2>4, <2>5
  <2>7. Z(i, j)
    BY <2>6 DEF Z
  <2> QED
    BY <1>0, <2>1, <2>7
<1>4. \A i \in 0 .. m : \A j \in 0 .. n : <<i, j>> \in M
  BY <1>1, <1>2, <1>3, PlaceInduction
<1> QED
  BY <1>0, <1>4 DEF Z

\* Where the elements are equal nothing is added.
LEMMA TableDiagonal ==
  ASSUME NEW m \in Nat, NEW n \in Nat, NEW same, NEW F, IsTable(F, m, n, same),
         NEW i \in 1 .. m, NEW j \in 1 .. n, <<i, j>> \in same
  PROVE  F[<<i, j>>] = F[<<i - 1, j - 1>>]
<1>1. /\ i \in 0 .. m /\ i - 1 \in 0 .. m /\ j \in 0 .. n /\ j - 1 \in 0 .. n
      /\ F[<<i, j>>] \in Nat /\ F[<<i - 1, j>>] \in Nat /\ F[<<i, j - 1>>] \in Nat /\ F[<<i - 1, j - 1>>] \in Nat
      /\ F[<<i, j>>] <= F[<<i - 1, j - 1>>]
      /\ \/ F[<<i, j>>] = F[<<i, j - 1>>] + 1
         \/ F[<<i, j>>] = F[<<i - 1, j>>] + 1
         \/ F[<<i, j>>] = F[<<i - 1, j - 1>>]
  BY TablePlace
<1>2. F[<<i - 1, j - 1>>] <= F[<<i, j - 1>>] + 1 /\ F[<<i - 1, j - 1>>] <= F[<<i - 1, j>>] + 1
  <2>1. i > 0 /\ j > 0
    OBVIOUS
  <2>2. \A a \in 0 .. m : \A b \in 0 .. n :
           /\ a > 0 => F[<<a - 1, b>>] <= F[<<a, b>>] + 1
           /\ b > 0 => F[<<a, b - 1>>] <= F[<<a, b>>] + 1
    BY TableSteps
  <2> QED
    BY <1>1, <2>1, <2>2
<1> QED
  BY <1>1, <1>2

\* The table of a part of the strings is part of the table.
LEMMA TablePart ==
  ASSUME NEW m \in Nat, NEW n \in Nat, NEW same, NEW F, IsTable(F, m, n, same),
         NEW mm \in 0 .. m, NEW nn \in 0 .. n, NEW part, NEW W, IsTable(W, mm, nn, part),
         \A i \in 1 .. mm : \A j \in 1 .. nn : <<i, j>> \in same <=> <<i, j>> \in part
  PROVE  F[<<mm, nn>>] = W[<<mm, nn>>]
<1> DEFINE M == {p \in (0 .. mm) \X (0 .. nn) : F[p] = W[p]}
<1>0. \A i \in 0 .. mm : \A j \in 0 .. nn : <<i, j>> \in M <=> F[<<i, j>>] = W[<<i, j>>]
  OBVIOUS
<1> HIDE DEF M
<1>1. \A i \in 0 .. mm : <<i, 0>> \in M
  <2> SUFFICES ASSUME NEW i \in 0 .. mm PROVE <<i, 0>> \in M
    OBVIOUS
  <2>1. F[<<i, 0>>] = i /\ W[<<i, 0>>] = i /\ 0 \in 0 .. nn
    BY DEF IsTable
  <2> QED
    BY <1>0, <2>1
<1>2. \A j \in 0 .. nn : <<0, j>> \in M
  <2> SUFFICES ASSUME NEW j \in 0 .. nn PROVE <<0, j>> \in M
    OBVIOUS
  <2>1. F[<<0, j>>] = j /\ W[<<0, j>>] = j /\ 0 \in 0 .. mm
    BY DEF IsTable
  <2> QED
    BY <1>0, <2>1
<1>3. ASSUME NEW i \in 1 .. mm, NEW j \in 1 .. nn,
             <<i, j - 1>> \in M, <<i - 1, j>> \in M, <<i - 1, j - 1>> \in M
      PROVE  <<i, j>> \in M
  <2>1. i \in 1 .. m /\ j \in 1 .. n /\ i \in 0 .. mm /\ j \in 0 .. nn /\ i - 1 \in 0 .. mm /\ j - 1 \in 0 .. nn
    OBVIOUS
  <2>2. F[<<i, j - 1>>] = W[<<i, j - 1>>] /\ F[<<i - 1, j>>] = W[<<i - 1, j>>] /\ F[<<i - 1, j - 1>>] = W[<<i - 1, j - 1>>]
    BY <1>0, <1>3, <2>1
  <2>3. F[<<i, j>>] = Next3(F, i, j, same) /\ W[<<i, j>>] = Next3(W, i, j, part)
    BY <2>1 DEF IsTable
  <2>4. Next3(F, i, j, same) = Next3(W, i, j, part)
    BY <2>2 DEF Next3
  <2> QED
    BY <1>0, <2>1, <2>3, <2>4
<1>6. mm \in Nat /\ nn \in Nat
  OBVIOUS
<1>4. \A i \in 0 .. mm : \A j \in 0 .. nn : <<i, j>> \in M
  BY <1>1, <1>2, <1>3, <1>6, PlaceInduction
<1>5. mm \in 0 .. mm /\ nn \in 0 .. nn
  OBVIOUS
<1> QED
  BY <1>0, <1>4, <1>5

Turned(m, n, same, turned) ==
  \A i \in 1 .. m : \A j \in 1 .. n : <<i, j>> \in same <=> <<j, i>> \in turned

\* The table of the strings swapped is the table turned around.
LEMMA TableSwapped ==
  ASSUME NEW m \in Nat, NEW n \in Nat, NEW same, NEW F, IsTable(F, m, n, same),
         NEW turned, NEW W, IsTable(W, n, m, turned), Turned(m, n, same, turned)
  PROVE  F[<<m, n>>] = W[<<n, m>>]
<1>a. \A i \in 1 .. m : \A j \in 1 .. n : <<i, j>> \in same <=> <<j, i>> \in turned
  BY DEF Turned
<1> USE <1>a
<1> DEFINE M == {p \in (0 .. m) \X (0 .. n) : F[p] = W[<<p[2], p[1]>>]}
<1>0. \A i \in 0 .. m : \A j \in 0 .. n : <<i, j>> \in M <=> F[<<i, j>>] = W[<<j, i>>]
  OBVIOUS
<1> HIDE DEF M
<1>1. \A i \in 0 .. m : <<i, 0>> \in M
  <2> SUFFICES ASSUME NEW i \in 0 .. m PROVE <<i, 0>> \in M
    OBVIOUS
  <2>1. F[<<i, 0>>] = i /\ W[<<0, i>>] = i /\ 0 \in 0 .. n
    BY DEF IsTable
  <2> QED
    BY <1>0, <2>1
<1>2. \A j \in 0 .. n : <<0, j>> \in M
  <2> SUFFICES ASSUME NEW j \in 0 .. n PROVE <<0, j>> \in M
    OBVIOUS
  <2>1. F[<<0, j>>] = j /\ W[<<j, 0>>] = j /\ 0 \in 0 .. m
    BY DEF IsTable
  <2> QED
    BY <1>0, <2>1
<1>3. ASSUME NEW i \in 1 .. m, NEW j \in 1 .. n,
             <<i, j - 1>> \in M, <<i - 1, j>> \in M, <<i - 1, j - 1>> \in M
      PROVE  <<i, j>> \in M
  <2>1. i \in 0 .. m /\ j \in 0 .. n /\ i - 1 \in 0 .. m /\ j - 1 \in 0 .. n
    OBVIOUS
  <2>2. F[<<i, j - 1>>] = W[<<j - 1, i>>] /\ F[<<i - 1, j>>] = W[<<j, i - 1>>] /\ F[<<i - 1, j - 1>>] = W[<<j - 1, i - 1>>]
    BY <1>0, <1>3, <2>1
  <2>3. PICK p \in Nat, q \in Nat, r \in Nat :
          p = F[<<i, j - 1>>] /\ q = F[<<i - 1, j>>] /\ r = F[<<i - 1, j - 1>>]
    BY TablePlace
  <2>4. F[<<i, j>>] = T!Least(T!Least(p + 1, q + 1), r + (IF <<i, j>> \in same THEN 0 ELSE 1))
    BY <2>3 DEF IsTable, Next3
  <2>5. W[<<j, i>>] = T!Least(T!Least(q + 1, p + 1), r + (IF <<j, i>> \in turned THEN 0 ELSE 1))
    BY <2>2, <2>3 DEF IsTable, Next3
  <2>6. T!Least(p + 1, q + 1) = T!Least(q + 1, p + 1)
    BY DEF T!Least
  <2>7. F[<<i, j>>] = W[<<j, i>>]
    BY <2>4, <2>5, <2>6
  <2> QED
    BY <1>0, <2>1, <2>7
<1>4. \A i \in 0 .. m : \A j \in 0 .. n : <<i, j>> \in M
  BY <1>1, <1>2, <1>3, PlaceInduction
<1>5. m \in 0 .. m /\ n \in 0 .. n
  OBVIOUS
<1> QED
  BY <1>0, <1>4, <1>5

\* The last k elements of both strings are the same.
SameEnd(k, m, n, same) == k <= m /\ k <= n /\ \A i \in 0 .. k - 1 : <<m - i, n - i>> \in same

\* A common end adds nothing.
LEMMA TableEnd ==
  ASSUME NEW m \in Nat, NEW n \in Nat, NEW same, NEW F, IsTable(F, m, n, same),
         NEW k \in Nat, SameEnd(k, m, n, same)
  PROVE  F[<<m, n>>] = F[<<m - k, n - k>>]
<1>0. k <= m /\ k <= n /\ \A i \in 0 .. k - 1 : <<m - i, n - i>> \in same
  BY DEF SameEnd
<1> USE <1>0
<1> DEFINE E == {l \in Nat : F[<<m, n>>] = F[<<m - l, n - l>>]}
<1>1. 0 \in E
  <2>1. m - 0 = m /\ n - 0 = n
    OBVIOUS
  <2> QED
    BY <2>1
<1>2. ASSUME NEW l \in 0 .. k - 1, l \in E PROVE l + 1 \in E
  <2>1. m - l \in 1 .. m /\ n - l \in 1 .. n /\ <<m - l, n - l>> \in same
    OBVIOUS
  <2>2. m - (l + 1) = m - l - 1 /\ n - (l + 1) = n - l - 1
    OBVIOUS
  <2>3. F[<<m - l, n - l>>] = F[<<m - l - 1, n - l - 1>>]
    <3>1. PICK i \in 1 .. m, j \in 1 .. n : i = m - l /\ j = n - l
      BY <2>1
    <3>2. <<i, j>> \in same
      BY <2>1, <3>1
    <3>3. F[<<i, j>>] = F[<<i - 1, j - 1>>]
      BY <3>2, TableDiagonal
    <3> QED
      BY <3>1, <3>3
  <2> QED
    BY <1>2, <2>2, <2>3
<1>3. k \in 0 .. k
  OBVIOUS
<1>4. k \in E
  <2> HIDE DEF E
  <2> QED
    BY <1>1, <1>2, <1>3, InductionUpTo
<1> QED
  BY <1>4

\* The first k elements of both strings are the same, and W is the table for
\* those behind them.
SameFront(k, m, n, same, W, rest) ==
  /\ k <= m /\ k <= n /\ \A i \in 1 .. k : <<i, i>> \in same
  /\ IsTable(W, m - k, n - k, rest)
  /\ \A i \in 1 .. m - k : \A j \in 1 .. n - k : <<i, j>> \in rest <=> <<k + i, k + j>> \in same

\* A common beginning adds nothing either.
LEMMA TableFront ==
  ASSUME NEW m \in Nat, NEW n \in Nat, NEW same, NEW F, IsTable(F, m, n, same),
         NEW k \in Nat, NEW W, NEW rest, SameFront(k, m, n, same, W, rest)
  PROVE  F[<<m, n>>] = W[<<m - k, n - k>>]
<1>000. /\ k <= m /\ k <= n /\ \A i \in 1 .. k : <<i, i>> \in same
        /\ IsTable(W, m - k, n - k, rest)
        /\ \A i \in 1 .. m - k : \A j \in 1 .. n - k : <<i, j>> \in rest <=> <<k + i, k + j>> \in same
  BY DEF SameFront
<1> USE <1>000
<1> DEFINE mm == m - k
           nn == n - k
           M == {p \in (0 .. mm) \X (0 .. nn) : F[<<k + p[1], k + p[2]>>] = W[p]}
<1>0. \A i \in 0 .. mm : \A j \in 0 .. nn : <<i, j>> \in M <=> F[<<k + i, k + j>>] = W[<<i, j>>]
  OBVIOUS
<1>00. mm \in Nat /\ nn \in Nat /\ k + mm = m /\ k + nn = n /\ IsTable(W, mm, nn, rest)
  OBVIOUS
<1>01. \A i \in 1 .. mm : \A j \in 1 .. nn : <<i, j>> \in rest <=> <<k + i, k + j>> \in same
  OBVIOUS
<1> HIDE DEF M, mm, nn
<1>5. F[<<k, k>>] = 0
  <2> DEFINE E == {l \in Nat : F[<<l, l>>] = 0}
  <2>1. 0 \in E
    BY DEF IsTable
  <2>2. ASSUME NEW l \in 0 .. k - 1, l \in E PROVE l + 1 \in E
    <3>1. l + 1 \in 1 .. k /\ l + 1 \in 1 .. m /\ l + 1 \in 1 .. n /\ l + 1 - 1 = l
      OBVIOUS
    <3>2. <<l + 1, l + 1>> \in same
      BY <3>1
    <3>3. F[<<l + 1, l + 1>>] = F[<<l + 1 - 1, l + 1 - 1>>]
      BY <3>1, <3>2, TableDiagonal
    <3> QED
      BY <2>2, <3>1, <3>3
  <2>3. k \in 0 .. k
    OBVIOUS
  <2>4. k \in E
    <3> HIDE DEF E
    <3> QED
      BY <2>1, <2>2, <2>3, InductionUpTo
  <2> QED
    BY <2>4
<1>6. \A i \in 0 .. m : \A j \in 0 .. n : F[<<i, j>>] \in Nat /\ F[<<i, j>>] >= i - j /\ F[<<i, j>>] >= j - i
  <2>1. \A i \in 0 .. m : \A j \in 0 .. n : F[<<i, j>>] >= i - j /\ F[<<i, j>>] >= j - i
    BY TableBounds
  <2> QED
    BY <2>1 DEF IsTable
<1>1. \A i \in 0 .. mm : <<i, 0>> \in M
  <2> DEFINE E == {l \in Nat : F[<<k + l, k>>] = l}
  <2>1. 0 \in E
    <3>1. k + 0 = k
      OBVIOUS
    <3> QED
      BY <1>5, <3>1
  <2>2. ASSUME NEW l \in 0 .. mm - 1, l \in E PROVE l + 1 \in E
    <3>1. /\ k + (l + 1) \in 0 .. m /\ k \in 0 .. n /\ k + (l + 1) - k = l + 1 /\ k + (l + 1) - 1 = k + l
          /\ k + (l + 1) \in 1 .. m
      BY <1>00
    <3>2. F[<<k + (l + 1), k>>] \in Nat /\ F[<<k + (l + 1), k>>] >= l + 1
      BY <1>6, <3>1
    <3>3. F[<<k + (l + 1), k>>] <= F[<<k + l, k>>] + 1
      <4>1. CASE k = 0
        <5>1. F[<<l + 1, 0>>] = l + 1 /\ F[<<l, 0>>] = l
          <6>1. l + 1 \in 0 .. m /\ l \in 0 .. m
            BY <1>00
          <6> QED
            BY <6>1 DEF IsTable
        <5> QED
          BY <4>1, <5>1
      <4>2. CASE k # 0
        <5>1. k \in 1 .. n
          BY <4>2
        <5>2. PICK a \in 1 .. m : a = k + (l + 1)
          BY <3>1
        <5>3. F[<<a, k>>] <= F[<<a - 1, k>>] + 1
          BY <5>1, TablePlace
        <5> QED
          BY <3>1, <5>2, <5>3
      <4> QED
        BY <4>1, <4>2
    <3>4. F[<<k + l, k>>] = l
      BY <2>2
    <3>5. F[<<k + (l + 1), k>>] = l + 1
      BY <3>2, <3>3, <3>4
    <3> QED
      BY <3>5
  <2>3. \A l \in 0 .. mm : l \in E
    <3> HIDE DEF E
    <3> QED
      BY <1>00, <2>1, <2>2, InductionUpTo
  <2> SUFFICES ASSUME NEW i \in 0 .. mm PROVE <<i, 0>> \in M
    OBVIOUS
  <2>4. F[<<k + i, k>>] = i
    BY <2>3
  <2>5. W[<<i, 0>>] = i /\ 0 \in 0 .. nn /\ k + 0 = k
    BY <1>00 DEF IsTable
  <2> QED
    BY <1>0, <2>4, <2>5
<1>2. \A j \in 0 .. nn : <<0, j>> \in M
  <2> DEFINE E == {l \in Nat : F[<<k, k + l>>] = l}
  <2>1. 0 \in E
    <3>1. k + 0 = k
      OBVIOUS
    <3> QED
      BY <1>5, <3>1
  <2>2. ASSUME NEW l \in 0 .. nn - 1, l \in E PROVE l + 1 \in E
    <3>1. /\ k + (l + 1) \in 0 .. n /\ k \in 0 .. m /\ k + (l + 1) - k = l + 1 /\ k + (l + 1) - 1 = k + l
          /\ k + (l + 1) \in 1 .. n
      BY <1>00
    <3>2. F[<<k, k + (l + 1)>>] \in Nat /\ F[<<k, k + (l + 1)>>] >= l + 1
      BY <1>6, <3>1
    <3>3. F[<<k, k + (l + 1)>>] <= F[<<k, k + l>>] + 1
      <4>1. CASE k = 0
        <5>1. F[<<0, l + 1>>] = l + 1 /\ F[<<0, l>>] = l
          <6>1. l + 1 \in 0 .. n /\ l \in 0 .. n
            BY <1>00
          <6> QED
            BY <6>1 DEF IsTable
        <5> QED
          BY <4>1, <5>1
      <4>2. CASE k # 0
        <5>1. k \in 1 .. m
          BY <4>2
        <5>2. PICK a \in 1 .. n : a = k + (l + 1)
          BY <3>1
        <5>3. F[<<k, a>>] <= F[<<k, a - 1>>] + 1
          BY <5>1, TablePlace
        <5> QED
          BY <3>1, <5>2, <5>3
      <4> QED
        BY <4>1, <4>2
    <3>4. F[<<k, k + l>>] = l
      BY <2>2
    <3>5. F[<<k, k + (l + 1)>>] = l + 1
      BY <3>2, <3>3, <3>4
    <3> QED
      BY <3>5
  <2>3. \A l \in 0 .. nn : l \in E
    <3> HIDE DEF E
    <3> QED
      BY <1>00, <2>1, <2>2, InductionUpTo
  <2> SUFFICES ASSUME NEW j \in 0 .. nn PROVE <<0, j>> \in M
    OBVIOUS
  <2>4. F[<<k, k + j>>] = j
    BY <2>3
  <2>5. W[<<0, j>>] = j /\ 0 \in 0 .. mm /\ k + 0 = k
    BY <1>00 DEF IsTable
  <2> QED
    BY <1>0, <2>4, <2>5
<1>3. ASSUME NEW i \in 1 .. mm, NEW j \in 1 .. nn,
             <<i, j - 1>> \in M, <<i - 1, j>> \in M, <<i - 1, j - 1>> \in M
      PROVE  <<i, j>> \in M
  <2>1. /\ i \in 0 .. mm /\ j \in 0 .. nn /\ i - 1 \in 0 .. mm /\ j - 1 \in 0 .. nn
        /\ k + i \in 1 .. m /\ k + j \in 1 .. n
        /\ k + i - 1 = k + (i - 1) /\ k + j - 1 = k + (j - 1)
    BY <1>00
  <2>2. /\ F[<<k + i, k + j - 1>>] = W[<<i, j - 1>>] /\ F[<<k + i - 1, k + j>>] = W[<<i - 1, j>>]
        /\ F[<<k + i - 1, k + j - 1>>] = W[<<i - 1, j - 1>>]
    BY <1>0, <1>3, <2>1
  <2>3. F[<<k + i, k + j>>] = Next3(F, k + i, k + j, same)
    BY <2>1 DEF IsTable
  <2>5. W[<<i, j>>] = Next3(W, i, j, rest)
    BY <1>00 DEF IsTable
  <2>4. Next3(F, k + i, k + j, same) = Next3(W, i, j, rest)
    BY <1>01, <2>2 DEF Next3
  <2> QED
    BY <1>0, <2>1, <2>3, <2>4, <2>5
<1>4. \A i \in 0 .. mm : \A j \in 0 .. nn : <<i, j>> \in M
  BY <1>00, <1>1, <1>2, <1>3, PlaceInduction
<1>7. mm \in 0 .. mm /\ nn \in 0 .. nn
  BY <1>00
<1>8. F[<<k + mm, k + nn>>] = W[<<mm, nn>>]
  BY <1>0, <1>4, <1>7
<1> QED
  BY <1>00, <1>8 DEF mm, nn

\* Each row of the table follows from the row before it.
IsRow(new, cur, n, same) ==
  /\ new \in [0 .. n -> Nat]
  /\ new[0] = cur[0] + 1
  /\ \A j \in 1 .. n :
       new[j] = T!Least(T!Least(new[j - 1] + 1, cur[j] + 1), cur[j - 1] + (IF j \in same THEN 0 ELSE 1))

LEMMA RowOfTable ==
  ASSUME NEW n \in Nat, NEW same, NEW cur, cur \in [0 .. n -> Nat]
  PROVE  IsRow(T!NextRow(cur, n, same), cur, n, same)
<1> DEFINE e(new, j) == T!Least(T!Least(new[j - 1] + 1, cur[j] + 1), cur[j - 1] + (IF j \in same THEN 0 ELSE 1))
           Is(new) == new = [j \in 0 .. n |-> IF j = 0 THEN cur[0] + 1 ELSE e(new, j)]
           row == CHOOSE new : Is(new)
           g == [p \in (1 .. n) \X Nat |->
                   T!Least(T!Least(p[2] + 1, cur[p[1]] + 1), cur[p[1] - 1] + (IF p[1] \in same THEN 0 ELSE 1))]
<1>1. T!NextRow(cur, n, same) = row
  BY Zenon DEF T!NextRow
<1>2. \A j \in 0 .. n : cur[j] \in Nat
  OBVIOUS
<1>3. g \in [(1 .. n) \X Nat -> Nat]
  <2>1. ASSUME NEW p \in (1 .. n) \X Nat PROVE g[p] \in Nat
    <3>1. p[1] \in 0 .. n /\ p[1] - 1 \in 0 .. n /\ p[2] \in Nat
      OBVIOUS
    <3>2. cur[p[1]] \in Nat /\ cur[p[1] - 1] \in Nat
      BY <1>2, <3>1
    <3> QED
      BY <3>1, <3>2 DEF T!Least
  <2> QED
    BY <2>1
<1>4. cur[0] + 1 \in Nat
  BY <1>2
<1>5. PICK f : IsSequel(f, n, Nat, cur[0] + 1, g)
  <2> HIDE DEF g
  <2> QED
    BY <1>3, <1>4, PrimitiveRecursion, Zenon
<1>50. /\ f \in [0 .. n -> Nat] /\ f[0] = cur[0] + 1
       /\ \A j \in 1 .. n : f[j] = g[<<j, f[j - 1]>>]
  BY <1>5, Zenon DEF IsSequel
<1>6. Is(f)
  <2>1. ASSUME NEW j \in 1 .. n PROVE g[<<j, f[j - 1]>>] = e(f, j)
    <3>1. j - 1 \in 0 .. n
      OBVIOUS
    <3>2. f[j - 1] \in Nat
      BY <1>50, <3>1
    <3> QED
      BY <3>2
  <2>2. \A j \in 0 .. n : j # 0 => j \in 1 .. n
    OBVIOUS
  <2>3. \A j \in 0 .. n : f[j] = IF j = 0 THEN cur[0] + 1 ELSE e(f, j)
    <3> HIDE DEF g, e
    <3> QED
      BY <1>50, <2>1, <2>2
  <2> HIDE DEF g, e
  <2> QED
    BY <1>50, <2>3
<1>7. Is(row)
  <2> HIDE DEF Is
  <2> QED
    BY <1>6
<1>70. \A j \in 0 .. n : row[j] = IF j = 0 THEN cur[0] + 1 ELSE e(row, j)
  <2> HIDE DEF e, row
  <2> QED
    BY <1>7, Zenon
<1>8. row \in [0 .. n -> Nat]
  <2> DEFINE E == {j \in Nat : row[j] \in Nat}
  <2> HIDE DEF row
  <2>1. 0 \in E
    BY <1>4, <1>7
  <2>2. ASSUME NEW j \in 0 .. n - 1, j \in E PROVE j + 1 \in E
    <3>1. j + 1 \in 0 .. n /\ j + 1 # 0 /\ j + 1 - 1 = j /\ j \in 0 .. n
      OBVIOUS
    <3>2. row[j + 1] = e(row, j + 1)
      <4> HIDE DEF e
      <4> QED
        BY <1>70, <3>1
    <3>3. row[j] \in Nat /\ cur[j + 1] \in Nat /\ cur[j] \in Nat
      BY <1>2, <2>2, <3>1
    <3>4. row[j + 1] = T!Least(T!Least(row[j] + 1, cur[j + 1] + 1), cur[j] + (IF j + 1 \in same THEN 0 ELSE 1))
      BY <3>1, <3>2
    <3>5. row[j + 1] \in Nat
      BY <3>3, <3>4 DEF T!Least
    <3> QED
      BY <3>5
  <2>3. \A j \in 0 .. n : j \in E
    <3> HIDE DEF E
    <3> QED
      BY <2>1, <2>2, InductionUpTo
  <2>4. row = [j \in 0 .. n |-> row[j]]
    BY <1>7
  <2> QED
    BY <2>3, <2>4
<1>9. row[0] = cur[0] + 1 /\ \A j \in 1 .. n : row[j] = e(row, j)
  <2> HIDE DEF row, e
  <2>1. \A j \in 1 .. n : j # 0 /\ j \in 0 .. n
    OBVIOUS
  <2> QED
    BY <1>70, <2>1
<1>10. IsRow(row, cur, n, same)
  <2> HIDE DEF row
  <2> QED
    BY <1>8, <1>9 DEF IsRow
<1> HIDE DEF row
<1> QED
  BY <1>1, <1>10, Zenon

\* The rows make up a table, and what is returned is its last place.
LEMMA RowsMakeTable ==
  ASSUME NEW m \in Nat, NEW n \in Nat, NEW same
  PROVE  \E F : IsTable(F, m, n, same) /\ T!Rows(m, n, same) = F[<<m, n>>]
<1> DEFINE V == [0 .. n -> Nat]
           at(i) == {j \in 1 .. n : <<i, j>> \in same}
           a == [j \in 0 .. n |-> j]
           Is(row) == row = [i \in 0 .. m |-> IF i = 0 THEN a ELSE T!NextRow(row[i - 1], n, at(i))]
           row == CHOOSE row : Is(row)
           g == [p \in (1 .. m) \X V |-> T!NextRow(p[2], n, at(p[1]))]
<1>1. T!Rows(m, n, same) = row[m][n]
  BY Zenon DEF T!Rows
<1>2. g \in [(1 .. m) \X V -> V] /\ a \in V
  <2>1. ASSUME NEW p \in (1 .. m) \X V PROVE g[p] \in V
    <3>1. p[2] \in [0 .. n -> Nat]
      OBVIOUS
    <3>2. g[p] = T!NextRow(p[2], n, at(p[1]))
      OBVIOUS
    <3>3. T!NextRow(p[2], n, at(p[1])) \in [0 .. n -> Nat]
      <4> HIDE DEF at
      <4>1. IsRow(T!NextRow(p[2], n, at(p[1])), p[2], n, at(p[1]))
        BY <3>1, RowOfTable, Zenon
      <4> QED
        BY <4>1, Zenon DEF IsRow
    <3> HIDE DEF g
    <3> QED
      BY <3>2, <3>3, Zenon
  <2>2. a \in V
    OBVIOUS
  <2>3. g = [p \in (1 .. m) \X V |-> g[p]]
    OBVIOUS
  <2> HIDE DEF a, V, g
  <2> QED
    BY <2>1, <2>2, <2>3
<1>3. PICK f : IsSequel(f, m, V, a, g)
  <2> HIDE DEF g, a, V
  <2> QED
    BY <1>2, PrimitiveRecursion, Zenon
<1>30. f \in [0 .. m -> V] /\ f[0] = a /\ \A i \in 1 .. m : f[i] = g[<<i, f[i - 1]>>]
  <2> HIDE DEF g, a, V
  <2> QED
    BY <1>3, Zenon DEF IsSequel
<1>4. Is(f)
  <2>1. ASSUME NEW i \in 1 .. m PROVE g[<<i, f[i - 1]>>] = T!NextRow(f[i - 1], n, at(i))
    <3>1. i - 1 \in 0 .. m
      OBVIOUS
    <3>2. f[i - 1] \in V
      BY <1>30, <3>1
    <3> HIDE DEF V, at
    <3> QED
      BY <3>2
  <2>2. \A i \in 0 .. m : i # 0 => i \in 1 .. m
    OBVIOUS
  <2>3. \A i \in 0 .. m : f[i] = IF i = 0 THEN a ELSE T!NextRow(f[i - 1], n, at(i))
    <3> HIDE DEF g, a, at
    <3> QED
      BY <1>30, <2>1, <2>2
  <2> HIDE DEF g, a, at, V
  <2> QED
    BY <1>30, <2>3
<1>5. Is(row)
  <2> HIDE DEF Is
  <2> QED
    BY <1>4
<1> HIDE DEF row
<1>6. /\ row[0] = a
      /\ \A i \in 1 .. m : row[i] = T!NextRow(row[i - 1], n, at(i))
  <2>1. \A i \in 1 .. m : i # 0 /\ i \in 0 .. m
    OBVIOUS
  <2>2. \A i \in 0 .. m : row[i] = IF i = 0 THEN a ELSE T!NextRow(row[i - 1], n, at(i))
    <3> HIDE DEF a, at
    <3> QED
      BY <1>5, Zenon
  <2>3. 0 \in 0 .. m
    OBVIOUS
  <2> HIDE DEF a, at
  <2> QED
    BY <2>1, <2>2, <2>3
<1>7. \A i \in 0 .. m : row[i] \in V
  <2> DEFINE E == {i \in Nat : row[i] \in V}
  <2>1. 0 \in E
    BY <1>2, <1>6
  <2>2. ASSUME NEW i \in 0 .. m - 1, i \in E PROVE i + 1 \in E
    <3>1. i + 1 \in 1 .. m /\ i + 1 - 1 = i
      OBVIOUS
    <3>2. row[i + 1] = T!NextRow(row[i], n, at(i + 1))
      <4> HIDE DEF at
      <4> QED
        BY <1>6, <3>1
    <3>3. row[i] \in [0 .. n -> Nat]
      BY <2>2
    <3>4. T!NextRow(row[i], n, at(i + 1)) \in [0 .. n -> Nat]
      <4> HIDE DEF at
      <4>1. IsRow(T!NextRow(row[i], n, at(i + 1)), row[i], n, at(i + 1))
        BY <3>3, RowOfTable, Zenon
      <4> QED
        BY <4>1, Zenon DEF IsRow
    <3> QED
      BY <3>2, <3>4
  <2>3. \A i \in 0 .. m : i \in E
    <3> HIDE DEF E
    <3> QED
      BY <2>1, <2>2, InductionUpTo
  <2> QED
    BY <2>3
<1> DEFINE F == [p \in (0 .. m) \X (0 .. n) |-> row[p[1]][p[2]]]
<1>8. \A i \in 0 .. m : \A j \in 0 .. n : F[<<i, j>>] = row[i][j] /\ row[i][j] \in Nat
  BY <1>7
<1>9. F \in [(0 .. m) \X (0 .. n) -> Nat]
  BY <1>8
<1>10. \A j \in 0 .. n : F[<<0, j>>] = j
  BY <1>6, <1>8
<1>11. \A i \in 1 .. m : /\ row[i][0] = row[i - 1][0] + 1
                        /\ \A j \in 1 .. n : row[i][j] =
                             T!Least(T!Least(row[i][j - 1] + 1, row[i - 1][j] + 1),
                                     row[i - 1][j - 1] + (IF <<i, j>> \in same THEN 0 ELSE 1))
  <2> SUFFICES ASSUME NEW i \in 1 .. m
               PROVE  /\ row[i][0] = row[i - 1][0] + 1
                      /\ \A j \in 1 .. n : row[i][j] =
                           T!Least(T!Least(row[i][j - 1] + 1, row[i - 1][j] + 1),
                                   row[i - 1][j - 1] + (IF <<i, j>> \in same THEN 0 ELSE 1))
    OBVIOUS
  <2>1. i - 1 \in 0 .. m
    OBVIOUS
  <2>2. PICK cur \in [0 .. n -> Nat] : cur = row[i - 1]
    BY <1>7, <2>1
  <2>3. row[i] = T!NextRow(cur, n, at(i))
    BY <1>6, <2>2
  <2>4. /\ row[i][0] = cur[0] + 1
        /\ \A j \in 1 .. n : row[i][j] =
             T!Least(T!Least(row[i][j - 1] + 1, cur[j] + 1), cur[j - 1] + (IF j \in at(i) THEN 0 ELSE 1))
    <3> HIDE DEF at
    <3>1. IsRow(T!NextRow(cur, n, at(i)), cur, n, at(i))
      BY RowOfTable, Zenon
    <3> QED
      BY <2>3, <3>1, Zenon DEF IsRow
  <2>5. \A j \in 1 .. n : j \in at(i) <=> <<i, j>> \in same
    OBVIOUS
  <2> HIDE DEF at
  <2> QED
    BY <2>2, <2>4, <2>5
<1>12. \A i \in 0 .. m : F[<<i, 0>>] = i
  <2> DEFINE E == {i \in Nat : row[i][0] = i}
  <2>1. 0 \in E
    BY <1>6
  <2>2. ASSUME NEW i \in 0 .. m - 1, i \in E PROVE i + 1 \in E
    <3>1. i + 1 \in 1 .. m /\ i + 1 - 1 = i
      OBVIOUS
    <3> QED
      BY <1>11, <2>2, <3>1
  <2>3. \A i \in 0 .. m : i \in E
    <3> HIDE DEF E
    <3> QED
      BY <2>1, <2>2, InductionUpTo
  <2>4. \A i \in 0 .. m : row[i][0] = i /\ 0 \in 0 .. n
    BY <2>3
  <2> QED
    BY <1>8, <2>4
<1>13. ASSUME NEW i \in 1 .. m, NEW j \in 1 .. n PROVE F[<<i, j>>] = Next3(F, i, j, same)
  <2>1. i \in 0 .. m /\ i - 1 \in 0 .. m /\ j \in 0 .. n /\ j - 1 \in 0 .. n
    OBVIOUS
  <2>2. /\ F[<<i, j>>] = row[i][j] /\ F[<<i, j - 1>>] = row[i][j - 1]
        /\ F[<<i - 1, j>>] = row[i - 1][j] /\ F[<<i - 1, j - 1>>] = row[i - 1][j - 1]
    BY <1>8, <2>1
  <2> HIDE DEF F
  <2> QED
    BY <1>11, <2>2 DEF Next3
<1>14. IsTable(F, m, n, same)
  <2> HIDE DEF F
  <2> QED
    BY <1>9, <1>10, <1>12, <1>13 DEF IsTable
<1>15. T!Rows(m, n, same) = F[<<m, n>>]
  <2>1. m \in 0 .. m /\ n \in 0 .. n
    OBVIOUS
  <2> HIDE DEF F
  <2> QED
    BY <1>1, <1>8, <2>1
<1> HIDE DEF F
<1> QED
  BY <1>14, <1>15

\* What one step through a table costs.
Cost(i, j, same) == IF <<i, j>> \in same THEN 0 ELSE 1

LEMMA TableMoves ==
  ASSUME NEW m \in Nat, NEW n \in Nat, NEW same, NEW F, IsTable(F, m, n, same),
         NEW i \in 0 .. m, NEW j \in 0 .. n
  PROVE  /\ F[<<i, j>>] \in Nat
         /\ i > 0 => F[<<i - 1, j>>] \in Nat /\ F[<<i, j>>] <= F[<<i - 1, j>>] + 1
         /\ j > 0 => F[<<i, j - 1>>] \in Nat /\ F[<<i, j>>] <= F[<<i, j - 1>>] + 1
         /\ i > 0 /\ j > 0 => /\ F[<<i - 1, j - 1>>] \in Nat
                              /\ F[<<i, j>>] <= F[<<i - 1, j - 1>>] + Cost(i, j, same)
         /\ \/ i = 0 /\ j = 0 /\ F[<<i, j>>] = 0
            \/ i > 0 /\ F[<<i, j>>] = F[<<i - 1, j>>] + 1
            \/ j > 0 /\ F[<<i, j>>] = F[<<i, j - 1>>] + 1
            \/ i > 0 /\ j > 0 /\ F[<<i, j>>] = F[<<i - 1, j - 1>>] + Cost(i, j, same)
<1>1. CASE i = 0
  <2>1. F[<<0, j>>] = j /\ (j > 0 => j - 1 \in 0 .. n /\ F[<<0, j - 1>>] = j - 1)
    BY DEF IsTable
  <2> QED
    BY <1>1, <2>1
<1>2. CASE j = 0
  <2>1. F[<<i, 0>>] = i /\ (i > 0 => i - 1 \in 0 .. m /\ F[<<i - 1, 0>>] = i - 1)
    BY DEF IsTable
  <2> QED
    BY <1>2, <2>1
<1>3. CASE i # 0 /\ j # 0
  <2>1. PICK a \in 1 .. m, b \in 1 .. n : a = i /\ b = j
    BY <1>3
  <2>2. /\ F[<<a, b>>] \in Nat /\ F[<<a - 1, b>>] \in Nat /\ F[<<a, b - 1>>] \in Nat /\ F[<<a - 1, b - 1>>] \in Nat
        /\ F[<<a, b>>] <= F[<<a, b - 1>>] + 1
        /\ F[<<a, b>>] <= F[<<a - 1, b>>] + 1
        /\ F[<<a, b>>] <= F[<<a - 1, b - 1>>] + 1
        /\ <<a, b>> \in same => F[<<a, b>>] <= F[<<a - 1, b - 1>>]
        /\ \/ F[<<a, b>>] = F[<<a, b - 1>>] + 1
           \/ F[<<a, b>>] = F[<<a - 1, b>>] + 1
           \/ F[<<a, b>>] = F[<<a - 1, b - 1>>] + 1 /\ <<a, b>> \notin same
           \/ F[<<a, b>>] = F[<<a - 1, b - 1>>] /\ <<a, b>> \in same
    BY TablePlace
  <2>3. a > 0 /\ b > 0
    OBVIOUS
  <2> QED
    BY <2>1, <2>2, <2>3 DEF Cost
<1> QED
  BY <1>1, <1>2, <1>3

\* The table that goes through the strings from their ends.
Backwards(m, n, same, back) ==
  \A i \in 1 .. m : \A j \in 1 .. n : <<i, j>> \in back <=> <<m + 1 - i, n + 1 - j>> \in same

LEMMA NoDetour ==
  ASSUME NEW m \in Nat, NEW n \in Nat, NEW same, NEW F, IsTable(F, m, n, same),
         NEW back, Backwards(m, n, same, back), NEW R, IsTable(R, m, n, back)
  PROVE  F[<<m, n>>] <= R[<<m, n>>]
<1> DEFINE Q(a, b) == F[<<m, n>>] <= F[<<m - a, n - b>>] + R[<<a, b>>]
           E == {t \in Nat : \A a \in 0 .. m : \A b \in 0 .. n : a + b <= t => Q(a, b)}
<1>0. F[<<m, n>>] \in Nat
  <2>1. m \in 0 .. m /\ n \in 0 .. n
    OBVIOUS
  <2> QED
    BY <2>1, TableMoves
<1>1. ASSUME NEW a \in 0 .. m, NEW b \in 0 .. n,
             a > 0 => Q(a - 1, b), b > 0 => Q(a, b - 1), a > 0 /\ b > 0 => Q(a - 1, b - 1)
      PROVE  Q(a, b)
  <2>1. PICK i \in 0 .. m, j \in 0 .. n : i = m - a /\ j = n - b
    OBVIOUS
  <2>2. F[<<i, j>>] \in Nat /\ R[<<a, b>>] \in Nat
    BY TableMoves
  <2>3. CASE a = 0 /\ b = 0
    <3>1. m - a = m /\ n - b = n
      BY <2>3
    <3> QED
      BY <1>0, <2>1, <2>2, <3>1
  <2>4. CASE a > 0 /\ R[<<a, b>>] = R[<<a - 1, b>>] + 1
    <3>1. PICK k \in 0 .. m : k = i + 1 /\ k = m - (a - 1)
      BY <2>1, <2>4
    <3>2. k > 0 /\ k - 1 = i
      BY <3>1
    <3>3. F[<<k, j>>] \in Nat /\ F[<<k, j>>] <= F[<<k - 1, j>>] + 1
      BY <3>2, TableMoves
    <3>4. F[<<m, n>>] <= F[<<k, j>>] + R[<<a - 1, b>>]
      BY <1>1, <2>1, <2>4, <3>1
    <3>5. R[<<a - 1, b>>] \in Nat
      BY <2>4, TableMoves
    <3> QED
      BY <1>0, <2>1, <2>2, <2>4, <3>2, <3>3, <3>4, <3>5
  <2>5. CASE b > 0 /\ R[<<a, b>>] = R[<<a, b - 1>>] + 1
    <3>1. PICK l \in 0 .. n : l = j + 1 /\ l = n - (b - 1)
      BY <2>1, <2>5
    <3>2. l > 0 /\ l - 1 = j
      BY <3>1
    <3>3. F[<<i, l>>] \in Nat /\ F[<<i, l>>] <= F[<<i, l - 1>>] + 1
      BY <3>2, TableMoves
    <3>4. F[<<m, n>>] <= F[<<i, l>>] + R[<<a, b - 1>>]
      BY <1>1, <2>1, <2>5, <3>1
    <3>5. R[<<a, b - 1>>] \in Nat
      BY <2>5, TableMoves
    <3> QED
      BY <1>0, <2>1, <2>2, <2>5, <3>2, <3>3, <3>4, <3>5
  <2>6. CASE a > 0 /\ b > 0 /\ R[<<a, b>>] = R[<<a - 1, b - 1>>] + Cost(a, b, back)
    <3>1. PICK k \in 0 .. m, l \in 0 .. n : k = i + 1 /\ l = j + 1 /\ k = m - (a - 1) /\ l = n - (b - 1)
      BY <2>1, <2>6
    <3>2. k > 0 /\ l > 0 /\ k - 1 = i /\ l - 1 = j
      BY <3>1
    <3>3. F[<<k, l>>] \in Nat /\ F[<<k, l>>] <= F[<<k - 1, l - 1>>] + Cost(k, l, same)
      BY <3>2, TableMoves
    <3>4. F[<<m, n>>] <= F[<<k, l>>] + R[<<a - 1, b - 1>>]
      BY <1>1, <2>6, <3>1
    <3>5. R[<<a - 1, b - 1>>] \in Nat
      BY <2>6, TableMoves
    <3>6. Cost(k, l, same) = Cost(a, b, back) /\ Cost(k, l, same) \in Nat
      <4>1. a \in 1 .. m /\ b \in 1 .. n /\ m + 1 - a = k /\ n + 1 - b = l
        BY <2>6, <3>1
      <4> QED
        BY <4>1 DEF Cost, Backwards
    <3> QED
      BY <1>0, <2>1, <2>2, <2>6, <3>2, <3>3, <3>4, <3>5, <3>6
  <2> QED
    BY <2>3, <2>4, <2>5, <2>6, TableMoves
<1>2. 0 \in E
  <2> SUFFICES ASSUME NEW a \in 0 .. m, NEW b \in 0 .. n, a + b <= 0 PROVE Q(a, b)
    OBVIOUS
  <2>1. ~(a > 0) /\ ~(b > 0)
    OBVIOUS
  <2> HIDE DEF Q
  <2> QED
    BY <1>1, <2>1
<1>3. ASSUME NEW t \in Nat, t \in E PROVE t + 1 \in E
  <2> SUFFICES ASSUME NEW a \in 0 .. m, NEW b \in 0 .. n, a + b <= t + 1 PROVE Q(a, b)
    OBVIOUS
  <2>1. /\ a > 0 => a - 1 \in 0 .. m /\ (a - 1) + b <= t
        /\ b > 0 => b - 1 \in 0 .. n /\ a + (b - 1) <= t
        /\ a > 0 /\ b > 0 => (a - 1) + (b - 1) <= t
    OBVIOUS
  <2> HIDE DEF Q
  <2>2. /\ a > 0 => Q(a - 1, b)
        /\ b > 0 => Q(a, b - 1)
        /\ a > 0 /\ b > 0 => Q(a - 1, b - 1)
    BY <1>3, <2>1
  <2> QED
    BY <1>1, <2>2
<1>4. m + n \in E
  <2>1. m + n \in Nat
    OBVIOUS
  <2> HIDE DEF E
  <2> QED
    BY <1>2, <1>3, <2>1, SetInduction
<1>5. Q(m, n)
  <2>1. m \in 0 .. m /\ n \in 0 .. n /\ m + n <= m + n
    OBVIOUS
  <2> HIDE DEF Q
  <2> QED
    BY <1>4, <2>1
<1>6. m - m = 0 /\ n - n = 0 /\ 0 \in 0 .. m /\ m \in 0 .. m /\ n \in 0 .. n
  OBVIOUS
<1>7. F[<<0, 0>>] = 0
  BY <1>6 DEF IsTable
<1>8. R[<<m, n>>] \in Nat
  BY <1>6, TableMoves
<1> QED
  BY <1>5, <1>6, <1>7, <1>8

\* From either end, the distance is the same.
LEMMA TableBackwards ==
  ASSUME NEW m \in Nat, NEW n \in Nat, NEW same, NEW F, IsTable(F, m, n, same),
         NEW back, Backwards(m, n, same, back), NEW R, IsTable(R, m, n, back)
  PROVE  F[<<m, n>>] = R[<<m, n>>]
<1>1. Backwards(m, n, back, same)
  <2> SUFFICES ASSUME NEW i \in 1 .. m, NEW j \in 1 .. n
               PROVE  <<i, j>> \in same <=> <<m + 1 - i, n + 1 - j>> \in back
    BY DEF Backwards
  <2>1. PICK a \in 1 .. m, b \in 1 .. n : a = m + 1 - i /\ b = n + 1 - j
    OBVIOUS
  <2>2. m + 1 - a = i /\ n + 1 - b = j
    BY <2>1
  <2>3. <<a, b>> \in back <=> <<m + 1 - a, n + 1 - b>> \in same
    BY DEF Backwards
  <2> QED
    BY <2>1, <2>2, <2>3
<1>2. F[<<m, n>>] <= R[<<m, n>>]
  BY NoDetour
<1>3. R[<<m, n>>] <= F[<<m, n>>]
  BY <1>1, NoDetour
<1>4. m \in 0 .. m /\ n \in 0 .. n
  OBVIOUS
<1>5. F[<<m, n>>] \in Nat /\ R[<<m, n>>] \in Nat
  BY <1>4, TableMoves
<1> QED
  BY <1>2, <1>3, <1>5

-----------------------------------------------------------------------------
(* The edit distance.                                                      *)

(***************************************************************************)
(* The edit distance of what is left of two strings, as its definition has *)
(* it: the definition is recursive, over pairs of places.                  *)
(***************************************************************************)
Places(x, y) == (0 .. Len(x)) \X (0 .. Len(y))

EditStep(d, p, x, y, c) ==
  IF p[1] = Len(x) THEN Len(y) - p[2] ELSE IF p[2] = Len(y) THEN Len(x) - p[1]
  ELSE T!Least(T!Least(1 + d[<<p[1] + 1, p[2]>>], 1 + d[<<p[1], p[2] + 1>>]),
               (IF x[p[1] + 1] = y[p[2] + 1] THEN 0 ELSE c) + d[<<p[1] + 1, p[2] + 1>>])

IsRest(d, x, y, c) == d = [p \in Places(x, y) |-> EditStep(d, p, x, y, c)]

Distances(x, y) == [Places(x, y) -> Nat]

\* d has numbers behind the places i and j.
NumbersBehind(d, i, j, x, y) ==
  \A a \in 0 .. Len(x) : \A b \in 0 .. Len(y) : a + b > i + j => d[<<a, b>>] \in Nat

LEMMA EditStepIsNumber ==
  ASSUME NEW x, NEW y, Len(x) \in Nat, Len(y) \in Nat, NEW c \in Nat, NEW d,
         NEW i \in 0 .. Len(x), NEW j \in 0 .. Len(y), NumbersBehind(d, i, j, x, y)
  PROVE  EditStep(d, <<i, j>>, x, y, c) \in Nat
<1>1. CASE i = Len(x) \/ j = Len(y)
  BY <1>1 DEF EditStep
<1>2. CASE i # Len(x) /\ j # Len(y)
  <2>1. i + 1 \in 0 .. Len(x) /\ j + 1 \in 0 .. Len(y) /\ (i + 1) + j > i + j /\ i + (j + 1) > i + j
        /\ (i + 1) + (j + 1) > i + j
    BY <1>2
  <2>2. d[<<i + 1, j>>] \in Nat /\ d[<<i, j + 1>>] \in Nat /\ d[<<i + 1, j + 1>>] \in Nat
    BY <2>1 DEF NumbersBehind
  <2>3. PICK z \in Nat : z = IF x[i + 1] = y[j + 1] THEN 0 ELSE c
    OBVIOUS
  <2>9. PICK u0 \in Nat, v0 \in Nat, w0 \in Nat :
          u0 = d[<<i + 1, j>>] /\ v0 = d[<<i, j + 1>>] /\ w0 = d[<<i + 1, j + 1>>]
    BY Zenon, <2>2
  <2>7. PICK u \in Nat, v \in Nat, w \in Nat :
          u = 1 + d[<<i + 1, j>>] /\ v = 1 + d[<<i, j + 1>>] /\ w = z + d[<<i + 1, j + 1>>]
    <3>1. 1 + u0 \in Nat /\ 1 + v0 \in Nat /\ z + w0 \in Nat
      OBVIOUS
    <3> QED
      BY Zenon, <3>1, <2>9
  <2>4. EditStep(d, <<i, j>>, x, y, c) = T!Least(T!Least(u, v), w)
    BY <1>2, <2>3, <2>7 DEF EditStep
  <2>8. u \in Int /\ v \in Int /\ w \in Int
    OBVIOUS
  <2>5. T!Least(u, v) \in Nat /\ T!Least(u, v) \in Int
    BY <2>8, LeastOfTwo
  <2>6. T!Least(T!Least(u, v), w) \in Nat
    BY <2>8, <2>5, LeastOfTwo
  <2> QED
    BY <2>4, <2>6
<1> QED
  BY <1>1, <1>2

\* d and h are the same behind the places i and j.
AgreeBehind(d, h, i, j, x, y) ==
  \A a \in 0 .. Len(x) : \A b \in 0 .. Len(y) : a + b > i + j => d[<<a, b>>] = h[<<a, b>>]

LEMMA EditStepLooksDown ==
  ASSUME NEW x, NEW y, Len(x) \in Nat, Len(y) \in Nat, NEW c, NEW d, NEW h,
         NEW i \in 0 .. Len(x), NEW j \in 0 .. Len(y), AgreeBehind(d, h, i, j, x, y)
  PROVE  EditStep(d, <<i, j>>, x, y, c) = EditStep(h, <<i, j>>, x, y, c)
<1>1. CASE i = Len(x) \/ j = Len(y)
  BY <1>1 DEF EditStep
<1>2. CASE i # Len(x) /\ j # Len(y)
  <2>1. i + 1 \in 0 .. Len(x) /\ j + 1 \in 0 .. Len(y) /\ (i + 1) + j > i + j /\ i + (j + 1) > i + j
        /\ (i + 1) + (j + 1) > i + j
    BY <1>2
  <2>2. d[<<i + 1, j>>] = h[<<i + 1, j>>] /\ d[<<i, j + 1>>] = h[<<i, j + 1>>]
        /\ d[<<i + 1, j + 1>>] = h[<<i + 1, j + 1>>]
    BY <2>1 DEF AgreeBehind
  <2> QED
    BY <2>2 DEF EditStep
<1> QED
  BY <1>1, <1>2

\* There is such a function.
LEMMA RestExists ==
  ASSUME NEW x, NEW y, Len(x) \in Nat, Len(y) \in Nat, NEW c \in Nat
  PROVE  \E d : IsRest(d, x, y, c) /\ d \in Distances(x, y)
<1> DEFINE Z == Places(x, y)
           A == Distances(x, y)
           next(d) == [p \in Z |-> EditStep(d, p, x, y, c)]
           W == [d \in A |-> next(d)]
           rank == [p \in Z |-> (Len(x) - p[1]) + (Len(y) - p[2])]
<1>1. \A p \in Z : \E i \in 0 .. Len(x), j \in 0 .. Len(y) : p = <<i, j>>
  BY DEF Places
<1>2. W \in [A -> A]
  <2> SUFFICES ASSUME NEW d \in A PROVE next(d) \in A
    OBVIOUS
  <2> SUFFICES ASSUME NEW p \in Z PROVE EditStep(d, p, x, y, c) \in Nat
    BY DEF Distances
  <2>1. PICK i \in 0 .. Len(x), j \in 0 .. Len(y) : p = <<i, j>>
    BY <1>1
  <2>2. NumbersBehind(d, i, j, x, y)
    BY DEF NumbersBehind, Distances, Places
  <2> HIDE DEF Z, A
  <2>3. EditStep(d, <<i, j>>, x, y, c) \in Nat
    BY <2>2, EditStepIsNumber
  <2> QED
    BY <2>1, <2>3
<1>3. A # {} /\ A = [Z -> Nat]
  <2>1. [p \in Z |-> 0] \in [Z -> Nat]
    OBVIOUS
  <2> QED
    BY <2>1 DEF Distances
<1>4. rank \in [Z -> Nat]
  <2> SUFFICES ASSUME NEW p \in Z PROVE (Len(x) - p[1]) + (Len(y) - p[2]) \in Nat
    OBVIOUS
  <2>1. PICK i \in 0 .. Len(x), j \in 0 .. Len(y) : p = <<i, j>>
    BY <1>1
  <2>2. (Len(x) - i) + (Len(y) - j) \in Nat
    OBVIOUS
  <2> QED
    BY <2>1, <2>2
<1>5. LooksDown(W, Z, A, rank)
  <2> SUFFICES ASSUME NEW p \in Z, NEW f \in A, NEW h \in A,
                      \A q \in Z : rank[q] < rank[p] => f[q] = h[q]
               PROVE  W[f][p] = W[h][p]
    BY DEF LooksDown
  <2>1. PICK i \in 0 .. Len(x), j \in 0 .. Len(y) : p = <<i, j>>
    BY <1>1
  <2>2. ASSUME NEW a \in 0 .. Len(x), NEW b \in 0 .. Len(y), a + b > i + j
        PROVE  f[<<a, b>>] = h[<<a, b>>]
    <3>1. <<a, b>> \in Z
      BY DEF Places
    <3>2. rank[<<a, b>>] = (Len(x) - a) + (Len(y) - b) /\ rank[p] = (Len(x) - i) + (Len(y) - j)
      BY <2>1, <3>1
    <3>3. (Len(x) - a) + (Len(y) - b) < (Len(x) - i) + (Len(y) - j)
      BY <2>2
    <3> QED
      BY <3>1, <3>2, <3>3
  <2>3. AgreeBehind(f, h, i, j, x, y)
    BY <2>2 DEF AgreeBehind
  <2> HIDE DEF Z, A, W, rank
  <2>4. EditStep(f, <<i, j>>, x, y, c) = EditStep(h, <<i, j>>, x, y, c)
    BY <2>3, EditStepLooksDown
  <2> USE DEF Z, A, W, rank
  <2>5. W[f][p] = EditStep(f, p, x, y, c) /\ W[h][p] = EditStep(h, p, x, y, c)
    OBVIOUS
  <2> QED
    BY <2>1, <2>4, <2>5
<1> HIDE DEF Z, A, W, rank
<1>6. \E f \in A : f = W[f]
  <2>1. IsRecursion(W, Z, Nat, A, rank)
    BY <1>2, <1>3, <1>4, <1>5 DEF IsRecursion
  <2> QED
    BY <2>1, Recursion
<1>7. PICK f \in A : f = W[f]
  BY <1>6
<1>8. IsRest(f, x, y, c)
  BY <1>7 DEF Z, A, W, IsRest
<1> QED
  BY <1>7, <1>8 DEF A

\* What is taken for the edit distance is such a function at its first place.
LEMMA EditDistanceIsRest ==
  ASSUME NEW x, NEW y, Len(x) \in Nat, Len(y) \in Nat, NEW c \in Nat
  PROVE  \E d : IsRest(d, x, y, c) /\ T!EditDistance(x, y, c) = d[<<0, 0>>]
<1> DEFINE d == CHOOSE d : IsRest(d, x, y, c)
<1>1. d = CHOOSE f : f = [p \in (0 .. Len(x)) \X (0 .. Len(y)) |->
               IF p[1] = Len(x) THEN Len(y) - p[2] ELSE IF p[2] = Len(y) THEN Len(x) - p[1]
               ELSE T!Least(T!Least(1 + f[<<p[1] + 1, p[2]>>], 1 + f[<<p[1], p[2] + 1>>]),
                            (IF x[p[1] + 1] = y[p[2] + 1] THEN 0 ELSE c) + f[<<p[1] + 1, p[2] + 1>>])]
  BY Zenon DEF IsRest, Places, EditStep
<1>2. T!EditDistance(x, y, c) = d[<<0, 0>>]
  BY Zenon, <1>1 DEF T!EditDistance
<1>3. IsRest(d, x, y, c)
  <2> HIDE DEF IsRest
  <2> QED
    BY Zenon, RestExists
<1> QED
  BY <1>2, <1>3

LEMMA RestAt ==
  ASSUME NEW x, NEW y, Len(x) \in Nat, Len(y) \in Nat, NEW c \in Nat, NEW d, IsRest(d, x, y, c),
         NEW i \in 0 .. Len(x), NEW j \in 0 .. Len(y)
  PROVE  d[<<i, j>>] = EditStep(d, <<i, j>>, x, y, c)
<1> DEFINE f == [p \in Places(x, y) |-> EditStep(d, p, x, y, c)]
<1>1. <<i, j>> \in Places(x, y)
  BY DEF Places
<1>2. f[<<i, j>>] = EditStep(d, <<i, j>>, x, y, c)
  BY <1>1
<1> QED
  BY <1>2 DEF IsRest

LEMMA RestIsNumber ==
  ASSUME NEW x, NEW y, Len(x) \in Nat, Len(y) \in Nat, NEW c \in Nat, NEW d, IsRest(d, x, y, c),
         NEW i \in 0 .. Len(x), NEW j \in 0 .. Len(y)
  PROVE  d[<<i, j>>] \in Nat
<1> DEFINE left(a, b) == (Len(x) - a) + (Len(y) - b)
           E == {t \in Nat : \A a \in 0 .. Len(x) : \A b \in 0 .. Len(y) : left(a, b) = t => d[<<a, b>>] \in Nat}
<1>1. ASSUME NEW t \in Nat, \A s \in 0 .. t - 1 : s \in E PROVE t \in E
  <2> SUFFICES ASSUME NEW a \in 0 .. Len(x), NEW b \in 0 .. Len(y), left(a, b) = t
               PROVE  d[<<a, b>>] \in Nat
    OBVIOUS
  <2>1. NumbersBehind(d, a, b, x, y)
    <3> SUFFICES ASSUME NEW u \in 0 .. Len(x), NEW v \in 0 .. Len(y), u + v > a + b
                 PROVE  d[<<u, v>>] \in Nat
      BY DEF NumbersBehind
    <3>1. left(u, v) \in 0 .. t - 1
      OBVIOUS
    <3>2. left(u, v) \in E
      <4> HIDE DEF left, E
      <4> QED
        BY <1>1, <3>1
    <3> QED
      BY <3>2
  <2> HIDE DEF E, left
  <2>2. d[<<a, b>>] = EditStep(d, <<a, b>>, x, y, c)
    BY RestAt
  <2>3. EditStep(d, <<a, b>>, x, y, c) \in Nat
    BY <2>1, EditStepIsNumber
  <2> QED
    BY <2>2, <2>3
<1>2. left(i, j) \in Nat
  OBVIOUS
<1>3. \A t \in Nat : t \in E
  <2> HIDE DEF E
  <2> QED
    BY <1>1, StrongInduction
<1>4. left(i, j) \in E
  <2> HIDE DEF E, left
  <2> QED
    BY <1>2, <1>3
<1> QED
  BY <1>4

\* The places at which elements of two strings are equal.
Same(x, y) == {p \in (1 .. Len(x)) \X (1 .. Len(y)) : x[p[1]] = y[p[2]]}

\* The edit distance is that of the table.
LEMMA EditDistanceIsTable ==
  ASSUME NEW x, NEW y, Len(x) \in Nat, Len(y) \in Nat, NEW F, IsTable(F, Len(x), Len(y), Same(x, y))
  PROVE  T!EditDistance(x, y, 1) = F[<<Len(x), Len(y)>>]
<1>1. PICK m \in Nat, n \in Nat : m = Len(x) /\ n = Len(y)
  OBVIOUS
<1>2. PICK d : IsRest(d, x, y, 1) /\ T!EditDistance(x, y, 1) = d[<<0, 0>>]
  BY EditDistanceIsRest
<1>3. ASSUME NEW i \in 0 .. m, NEW j \in 0 .. n
      PROVE  d[<<i, j>>] = EditStep(d, <<i, j>>, x, y, 1) /\ d[<<i, j>>] \in Nat
  <2>1. /\ Len(x) \in Nat /\ Len(y) \in Nat /\ 1 \in Nat
        /\ i \in 0 .. Len(x) /\ j \in 0 .. Len(y) /\ IsRest(d, x, y, 1)
    BY <1>1, <1>2
  <2>2. d[<<i, j>>] = EditStep(d, <<i, j>>, x, y, 1)
    BY <2>1, RestAt
  <2>3. d[<<i, j>>] \in Nat
    BY Zenon, <2>1, RestIsNumber
  <2> QED
    BY <2>2, <2>3
<1> DEFINE Z == (0 .. m) \X (0 .. n)
           R == [p \in Z |-> d[<<m - p[1], n - p[2]>>]]
           back == {p \in (1 .. m) \X (1 .. n) : <<m + 1 - p[1], n + 1 - p[2]>> \in Same(x, y)}
<1>4. ASSUME NEW i \in 0 .. m, NEW j \in 0 .. n PROVE R[<<i, j>>] = d[<<m - i, n - j>>]
  OBVIOUS
<1>5. R \in [Z -> Nat]
  <2> SUFFICES ASSUME NEW p \in Z PROVE d[<<m - p[1], n - p[2]>>] \in Nat
    OBVIOUS
  <2>1. PICK i \in 0 .. m, j \in 0 .. n : i = m - p[1] /\ j = n - p[2]
    OBVIOUS
  <2>2. d[<<i, j>>] \in Nat
    BY <1>3
  <2> QED
    BY <2>1, <2>2
<1>6. ASSUME NEW i \in 0 .. m PROVE R[<<i, 0>>] = i
  <2>1. PICK a \in 0 .. m, b \in 0 .. n : a = m - i /\ b = n /\ b = n - 0
    OBVIOUS
  <2>2. EditStep(d, <<a, b>>, x, y, 1) = i
    BY <1>1, <2>1 DEF EditStep
  <2>3. 0 \in 0 .. n
    OBVIOUS
  <2> HIDE DEF R
  <2> QED
    BY <1>3, <1>4, <2>1, <2>2, <2>3
<1>7. ASSUME NEW j \in 0 .. n PROVE R[<<0, j>>] = j
  <2>1. PICK a \in 0 .. m, b \in 0 .. n : a = m /\ a = m - 0 /\ b = n - j
    OBVIOUS
  <2>2. EditStep(d, <<a, b>>, x, y, 1) = j
    BY <1>1, <2>1 DEF EditStep
  <2>3. 0 \in 0 .. m
    OBVIOUS
  <2> HIDE DEF R
  <2> QED
    BY <1>3, <1>4, <2>1, <2>2, <2>3
<1>8. ASSUME NEW i \in 1 .. m, NEW j \in 1 .. n PROVE R[<<i, j>>] = Next3(R, i, j, back)
  <2>1. PICK a \in 0 .. m - 1, b \in 0 .. n - 1 :
          a = m - i /\ b = n - j /\ a + 1 = m - (i - 1) /\ b + 1 = n - (j - 1)
    OBVIOUS
  <2>2. a \in 0 .. m /\ b \in 0 .. n /\ a + 1 \in 0 .. m /\ b + 1 \in 0 .. n /\ a # m /\ b # n
    OBVIOUS
  <2>3. PICK u \in Nat, v \in Nat, w \in Nat :
          u = d[<<a + 1, b>>] /\ v = d[<<a, b + 1>>] /\ w = d[<<a + 1, b + 1>>]
    BY <1>3, <2>2
  <2>4. i \in 0 .. m /\ j \in 0 .. n /\ i - 1 \in 0 .. m /\ j - 1 \in 0 .. n
    OBVIOUS
  <2>5. R[<<i, j>>] = d[<<a, b>>] /\ R[<<i - 1, j>>] = u /\ R[<<i, j - 1>>] = v /\ R[<<i - 1, j - 1>>] = w
    <3> HIDE DEF R
    <3>1. /\ R[<<i, j>>] = d[<<m - i, n - j>>]
          /\ R[<<i - 1, j>>] = d[<<m - (i - 1), n - j>>]
          /\ R[<<i, j - 1>>] = d[<<m - i, n - (j - 1)>>]
          /\ R[<<i - 1, j - 1>>] = d[<<m - (i - 1), n - (j - 1)>>]
      BY <1>4, <2>4
    <3> QED
      BY <3>1, <2>1, <2>3
  <2>6. PICK z \in Nat : z = IF x[a + 1] = y[b + 1] THEN 0 ELSE 1
    OBVIOUS
  <2>7. (IF <<i, j>> \in back THEN 0 ELSE 1) = z
    <3>1. m + 1 - i = a + 1 /\ n + 1 - j = b + 1 /\ a + 1 \in 1 .. m /\ b + 1 \in 1 .. n
      BY <2>1
    <3>2. <<i, j>> \in back <=> <<a + 1, b + 1>> \in Same(x, y)
      BY <3>1
    <3>3. <<a + 1, b + 1>> \in Same(x, y) <=> x[a + 1] = y[b + 1]
      BY <1>1, <3>1 DEF Same
    <3> HIDE DEF back
    <3> QED
      BY <2>6, <3>2, <3>3
  <2>8. EditStep(d, <<a, b>>, x, y, 1) = T!Least(T!Least(1 + u, 1 + v), z + w)
    BY <1>1, <2>2, <2>3, <2>6 DEF EditStep
  <2>9. Next3(R, i, j, back) = T!Least(T!Least(v + 1, u + 1), w + z)
    <3> HIDE DEF R, back
    <3> QED
      BY <2>5, <2>7 DEF Next3
  <2>10. T!Least(T!Least(1 + u, 1 + v), z + w) = T!Least(T!Least(v + 1, u + 1), w + z)
    BY DEF T!Least
  <2> QED
    BY <1>3, <2>2, <2>5, <2>8, <2>9, <2>10
<1>9. IsTable(R, m, n, back)
  <2> HIDE DEF R, back
  <2> QED
    BY <1>5, <1>6, <1>7, <1>8 DEF IsTable
<1>10. Backwards(m, n, Same(x, y), back)
  BY DEF Backwards
<1>11. R[<<m, n>>] = d[<<0, 0>>]
  <2>1. m \in 0 .. m /\ n \in 0 .. n /\ m - m = 0 /\ n - n = 0
    OBVIOUS
  <2> HIDE DEF R
  <2> QED
    BY <1>4, <2>1
<1>12. IsTable(F, m, n, Same(x, y))
  BY <1>1
<1> HIDE DEF R, back
<1>13. F[<<m, n>>] = R[<<m, n>>]
  BY <1>9, <1>10, <1>12, TableBackwards
<1> QED
  BY <1>1, <1>2, <1>11, <1>13

-----------------------------------------------------------------------------
(* The table of two rows, trimmed and swapped.                             *)

\* Elements in front of x and y that are equal, and as many as there can be.
IsCommon(n, x, y) ==
  /\ n \in 0 .. T!Least(Len(x), Len(y))
  /\ \A i \in 1 .. n : x[i] = y[i]
  /\ n < T!Least(Len(x), Len(y)) => x[n + 1] # y[n + 1]

LEMMA CommonIsCommon ==
  ASSUME NEW x, NEW y, Len(x) \in Nat, Len(y) \in Nat
  PROVE  IsCommon(T!Common(x, y), x, y)
<1>1. PICK l \in Nat : l = T!Least(Len(x), Len(y))
  BY LeastOfTwo
<1> DEFINE M == {n \in 0 .. l : \A i \in 1 .. n : x[i] = y[i]}
<1>2. M \in SUBSET (0 .. l) /\ 0 \in M
  OBVIOUS
<1>3. PICK m \in M : \A k \in M : k <= m
  <2> HIDE DEF M
  <2> QED
    BY <1>2, GreatestElement
<1>4. IsCommon(m, x, y)
  <2>1. ASSUME m < l, x[m + 1] = y[m + 1] PROVE FALSE
    <3>1. m + 1 \in 0 .. l /\ \A i \in 1 .. m + 1 : i \in 1 .. m \/ i = m + 1
      BY <2>1
    <3>2. m + 1 \in M
      BY <2>1, <3>1
    <3>4. m \in Nat
      OBVIOUS
    <3>3. m + 1 <= m
      <4> HIDE DEF M
      <4> QED
        BY <1>3, <3>2
    <3> QED
      BY <3>3, <3>4
  <2> QED
    BY <1>1, <2>1 DEF IsCommon
<1> QED
  BY <1>4 DEF T!Common, IsCommon

IsCommonEnd(n, x, y) ==
  /\ n \in 0 .. T!Least(Len(x), Len(y))
  /\ \A i \in 0 .. n - 1 : x[Len(x) - i] = y[Len(y) - i]
  /\ n < T!Least(Len(x), Len(y)) => x[Len(x) - n] # y[Len(y) - n]

LEMMA CommonEndIsCommon ==
  ASSUME NEW x, NEW y, Len(x) \in Nat, Len(y) \in Nat
  PROVE  IsCommonEnd(T!CommonEnd(x, y), x, y)
<1>1. PICK l \in Nat : l = T!Least(Len(x), Len(y))
  BY LeastOfTwo
<1> DEFINE M == {n \in 0 .. l : \A i \in 0 .. n - 1 : x[Len(x) - i] = y[Len(y) - i]}
<1>2. M \in SUBSET (0 .. l) /\ 0 \in M
  OBVIOUS
<1>3. PICK m \in M : \A k \in M : k <= m
  <2> HIDE DEF M
  <2> QED
    BY <1>2, GreatestElement
<1>4. IsCommonEnd(m, x, y)
  <2>1. ASSUME m < l, x[Len(x) - m] = y[Len(y) - m] PROVE FALSE
    <3>1. m + 1 \in 0 .. l /\ \A i \in 0 .. (m + 1) - 1 : i \in 0 .. m - 1 \/ i = m
      BY <2>1
    <3>2. m + 1 \in M
      BY <2>1, <3>1
    <3>4. m \in Nat
      OBVIOUS
    <3>3. m + 1 <= m
      <4> HIDE DEF M
      <4> QED
        BY <1>3, <3>2
    <3> QED
      BY <3>3, <3>4
  <2> QED
    BY <1>1, <2>1 DEF IsCommonEnd
<1> QED
  BY <1>4 DEF T!CommonEnd, IsCommonEnd

\* What is left of a sequence.
LEMMA SuffixIs ==
  ASSUME NEW V, NEW x \in Seq(V), NEW k \in 0 .. Len(x)
  PROVE  /\ T!Suffix(x, k) \in Seq(V)
         /\ Len(T!Suffix(x, k)) = Len(x) - k
         /\ \A i \in 1 .. Len(x) - k : T!Suffix(x, k)[i] = x[k + i]
<1>1. k + 1 \in 1 .. Len(x) + 1 /\ Len(x) \in Nat
  OBVIOUS
<1>2. T!Suffix(x, k) = SubSeq(x, k + 1, Len(x))
  BY DEF T!Suffix
<1>3. SubSeq(x, k + 1, Len(x)) \in Seq(V) /\ Len(SubSeq(x, k + 1, Len(x))) = Len(x) - k
  BY <1>1
<1>4. \A i \in 1 .. Len(x) - k : SubSeq(x, k + 1, Len(x))[i] = x[k + i]
  BY <1>1
<1> QED
  BY <1>2, <1>3, <1>4

\* The table for two strings.
LEMMA TableExists ==
  ASSUME NEW x, NEW y, Len(x) \in Nat, Len(y) \in Nat
  PROVE  \E F : IsTable(F, Len(x), Len(y), Same(x, y))
BY RowsMakeTable

\* Equal elements in front of the strings.
LEMMA FrontOfStrings ==
  ASSUME NEW V, NEW a \in Seq(V), NEW b \in Seq(V), NEW k, IsCommon(k, a, b),
         NEW F, IsTable(F, Len(a), Len(b), Same(a, b)),
         NEW W, IsTable(W, Len(T!Suffix(a, k)), Len(T!Suffix(b, k)), Same(T!Suffix(a, k), T!Suffix(b, k)))
  PROVE  F[<<Len(a), Len(b)>>] = W[<<Len(T!Suffix(a, k)), Len(T!Suffix(b, k))>>]
<1>1. PICK m \in Nat, n \in Nat : m = Len(a) /\ n = Len(b)
  OBVIOUS
<1>2. k \in Nat /\ k <= m /\ k <= n
  <2>1. PICK l \in Nat : l = T!Least(m, n) /\ l <= m /\ l <= n
    <3>1. m \in Int /\ n \in Int
      OBVIOUS
    <3>2. T!Least(m, n) \in Nat /\ T!Least(m, n) <= m /\ T!Least(m, n) <= n
      BY <3>1, LeastOfTwo
    <3> QED
      BY <3>2
  <2>2. k \in 0 .. l
    BY <1>1, <2>1 DEF IsCommon
  <2> QED
    BY <2>1, <2>2
<1>3. k \in 0 .. Len(a) /\ k \in 0 .. Len(b)
  BY <1>1, <1>2
<1>4. PICK x, y : x = T!Suffix(a, k) /\ y = T!Suffix(b, k)
  OBVIOUS
<1>5. Len(x) = m - k /\ Len(y) = n - k
  BY <1>1, <1>3, <1>4, SuffixIs
<1>6. \A i \in 1 .. m - k : x[i] = a[k + i]
  BY <1>1, <1>3, <1>4, SuffixIs
<1>7. \A j \in 1 .. n - k : y[j] = b[k + j]
  BY <1>1, <1>3, <1>4, SuffixIs
<1>8. ASSUME NEW i \in 1 .. m - k, NEW j \in 1 .. n - k
      PROVE  <<i, j>> \in Same(x, y) <=> <<k + i, k + j>> \in Same(a, b)
  <2>1. k + i \in 1 .. m /\ k + j \in 1 .. n
    BY <1>2
  <2>2. <<k + i, k + j>> \in Same(a, b) <=> a[k + i] = b[k + j]
    BY <1>1, <2>1 DEF Same
  <2>3. <<i, j>> \in Same(x, y) <=> x[i] = y[j]
    BY <1>5 DEF Same
  <2> QED
    BY <1>6, <1>7, <2>2, <2>3
<1>9. \A i \in 1 .. k : <<i, i>> \in Same(a, b)
  <2> SUFFICES ASSUME NEW i \in 1 .. k PROVE <<i, i>> \in Same(a, b)
    OBVIOUS
  <2>1. i \in 1 .. m /\ i \in 1 .. n
    BY <1>2
  <2>2. a[i] = b[i]
    BY DEF IsCommon
  <2> QED
    BY <1>1, <2>1, <2>2 DEF Same
<1>10. IsTable(F, m, n, Same(a, b)) /\ IsTable(W, m - k, n - k, Same(x, y))
  BY <1>1, <1>4, <1>5
<1>12. SameFront(k, m, n, Same(a, b), W, Same(x, y))
  BY <1>2, <1>8, <1>9, <1>10 DEF SameFront
<1>11. F[<<m, n>>] = W[<<m - k, n - k>>]
  BY <1>2, <1>10, <1>12, TableFront
<1> QED
  BY <1>1, <1>4, <1>5, <1>11

\* The last k elements are the same.
SameLast(k, long, short) ==
  /\ k <= Len(long) /\ k <= Len(short)
  /\ \A i \in 0 .. k - 1 : long[Len(long) - i] = short[Len(short) - i]

\* Equal elements at the end of the strings, and the rows for what is left.
LEMMA EndOfStrings ==
  ASSUME NEW long, NEW short, Len(long) \in Nat, Len(short) \in Nat, NEW k \in Nat, SameLast(k, long, short),
         NEW F, IsTable(F, Len(long), Len(short), Same(long, short))
  PROVE  /\ Len(short) = 0 => F[<<Len(long), Len(short)>>] = Len(long)
         /\ Len(short) = k => F[<<Len(long), Len(short)>>] = Len(long) - k
         /\ F[<<Len(long), Len(short)>>] = T!Rows(Len(long) - k, Len(short) - k, Same(long, short))
<1>1. PICK m \in Nat, n \in Nat : m = Len(long) /\ n = Len(short)
  OBVIOUS
<1>2. IsTable(F, m, n, Same(long, short))
  BY <1>1
<1>0. k <= m /\ k <= n
  BY <1>1 DEF SameLast
<1>3. \A i \in 0 .. k - 1 : <<m - i, n - i>> \in Same(long, short)
  <2> SUFFICES ASSUME NEW i \in 0 .. k - 1 PROVE <<m - i, n - i>> \in Same(long, short)
    OBVIOUS
  <2>1. m - i \in 1 .. m /\ n - i \in 1 .. n
    BY <1>0
  <2>2. long[m - i] = short[n - i]
    BY <1>1 DEF SameLast
  <2> QED
    BY <1>1, <2>1, <2>2 DEF Same
<1>4. F[<<m, n>>] = F[<<m - k, n - k>>]
  <2>1. SameEnd(k, m, n, Same(long, short))
    BY <1>0, <1>3 DEF SameEnd
  <2> QED
    BY <1>2, <2>1, TableEnd
<1>5. PICK mm \in 0 .. m, nn \in 0 .. n : mm = m - k /\ nn = n - k
  BY <1>0
<1>6. mm \in Nat /\ nn \in Nat
  OBVIOUS
<1>7. PICK W : IsTable(W, mm, nn, Same(long, short)) /\ T!Rows(mm, nn, Same(long, short)) = W[<<mm, nn>>]
  BY <1>6, RowsMakeTable
<1>8. F[<<mm, nn>>] = W[<<mm, nn>>]
  BY <1>2, <1>7, TablePart
<1>9. \A i \in 0 .. m : F[<<i, 0>>] = i
  BY <1>2, TableEdge
<1>10. m \in 0 .. m
  OBVIOUS
<1> QED
  BY <1>1, <1>4, <1>5, <1>7, <1>8, <1>9, <1>10

\* What is left of the strings behind what they have in common in front, the
\* longer and the shorter, and how much they have in common at the end.
LevenshteinOf(long, short, n) ==
  IF short = <<>> THEN Len(long)
  ELSE IF Len(short) = n THEN Len(long) - n
  ELSE T!Rows(Len(long) - n, Len(short) - n,
              {p \in (DOMAIN long) \X (DOMAIN short) : long[p[1]] = short[p[2]]})

Longer(x, y) == IF Len(x) < Len(y) THEN y ELSE x
Shorter(x, y) == IF Len(x) < Len(y) THEN x ELSE y

\* k elements in front are trimmed from a and b, which leaves x and y.
Trims(k, x, y, a, b) ==
  /\ k = T!Common(a, b) /\ x = T!Suffix(a, k) /\ y = T!Suffix(b, k)
  /\ T!LevenshteinChars(a, b) = LevenshteinOf(Longer(x, y), Shorter(x, y), T!CommonEnd(x, y))

LEMMA LevenshteinIsThat ==
  ASSUME NEW a, NEW b
  PROVE  \E k, x, y : Trims(k, x, y, a, b)
<1> DEFINE x == T!Suffix(a, T!Common(a, b))
           y == T!Suffix(b, T!Common(a, b))
           n == T!CommonEnd(x, y)
           long == IF Len(x) < Len(y) THEN y ELSE x
           short == IF Len(x) < Len(y) THEN x ELSE y
<1>1. T!LevenshteinChars(a, b) =
        IF short = <<>> THEN Len(long)
        ELSE IF Len(short) = n THEN Len(long) - n
        ELSE T!Rows(Len(long) - n, Len(short) - n,
                    {p \in (DOMAIN long) \X (DOMAIN short) : long[p[1]] = short[p[2]]})
  BY Zenon DEF T!LevenshteinChars
<1>2. T!LevenshteinChars(a, b) = LevenshteinOf(Longer(x, y), Shorter(x, y), T!CommonEnd(x, y))
  BY Zenon, <1>1 DEF LevenshteinOf, Longer, Shorter
<1>3. Trims(T!Common(a, b), x, y, a, b)
  BY Zenon, <1>2 DEF Trims
<1> QED
  BY Zenon, <1>3

LEMMA LevenshteinOfTable ==
  ASSUME NEW V, NEW long \in Seq(V), NEW short \in Seq(V), NEW n \in Nat, SameLast(n, long, short),
         NEW F, IsTable(F, Len(long), Len(short), Same(long, short))
  PROVE  LevenshteinOf(long, short, n) = F[<<Len(long), Len(short)>>]
<1>1. Len(long) \in Nat /\ Len(short) \in Nat /\ (short = <<>> <=> Len(short) = 0)
  OBVIOUS
<1>2. /\ Len(short) = 0 => F[<<Len(long), Len(short)>>] = Len(long)
      /\ Len(short) = n => F[<<Len(long), Len(short)>>] = Len(long) - n
      /\ F[<<Len(long), Len(short)>>] = T!Rows(Len(long) - n, Len(short) - n, Same(long, short))
  BY <1>1, EndOfStrings
<1>3. DOMAIN long = 1 .. Len(long) /\ DOMAIN short = 1 .. Len(short)
  OBVIOUS
<1>4. {p \in (DOMAIN long) \X (DOMAIN short) : long[p[1]] = short[p[2]]} = Same(long, short)
  BY Zenon, <1>3 DEF Same
<1> DEFINE M == {p \in (DOMAIN long) \X (DOMAIN short) : long[p[1]] = short[p[2]]}
<1>5. LevenshteinOf(long, short, n) =
        IF short = <<>> THEN Len(long)
        ELSE IF Len(short) = n THEN Len(long) - n
        ELSE T!Rows(Len(long) - n, Len(short) - n, M)
  BY Zenon DEF LevenshteinOf
<1>6. M = Same(long, short)
  BY <1>4
<1> HIDE DEF M
<1> QED
  BY <1>1, <1>2, <1>5, <1>6

\* The rows, with common ends trimmed and the strings swapped, give the last
\* place of the table (levenshtein.c:16-65).
LEMMA LevenshteinIsTable ==
  ASSUME NEW V, NEW a \in Seq(V), NEW b \in Seq(V), NEW F, IsTable(F, Len(a), Len(b), Same(a, b))
  PROVE  T!LevenshteinChars(a, b) = F[<<Len(a), Len(b)>>]
<1>1. PICK k, x, y : Trims(k, x, y, a, b)
  BY Zenon, LevenshteinIsThat
<1>2. IsCommon(k, a, b)
  <2>1. k = T!Common(a, b) /\ Len(a) \in Nat /\ Len(b) \in Nat
    BY <1>1 DEF Trims
  <2> QED
    BY <2>1, CommonIsCommon
<1>3. k \in 0 .. Len(a) /\ k \in 0 .. Len(b)
  <2>1. PICK m \in Nat, n \in Nat : m = Len(a) /\ n = Len(b)
    OBVIOUS
  <2>2. m \in Int /\ n \in Int
    OBVIOUS
  <2>3. T!Least(m, n) \in Nat /\ T!Least(m, n) <= m /\ T!Least(m, n) <= n
    BY <2>2, LeastOfTwo
  <2>4. k \in 0 .. T!Least(m, n)
    BY <1>2, <2>1 DEF IsCommon
  <2> QED
    BY <2>1, <2>3, <2>4
<1>4. /\ x = T!Suffix(a, k) /\ y = T!Suffix(b, k)
      /\ T!LevenshteinChars(a, b) = LevenshteinOf(Longer(x, y), Shorter(x, y), T!CommonEnd(x, y))
  BY <1>1 DEF Trims
<1>5. x \in Seq(V) /\ y \in Seq(V)
  BY <1>3, <1>4, SuffixIs
<1>6. PICK W : IsTable(W, Len(x), Len(y), Same(x, y))
  <2>1. Len(x) \in Nat /\ Len(y) \in Nat
    BY <1>5
  <2> QED
    BY <2>1, TableExists, Zenon
<1>7. F[<<Len(a), Len(b)>>] = W[<<Len(x), Len(y)>>]
  BY <1>2, <1>4, <1>6, FrontOfStrings
<1>8. PICK n : n = T!CommonEnd(x, y)
  OBVIOUS
<1>9. n \in Nat /\ n <= Len(x) /\ n <= Len(y) /\ \A i \in 0 .. n - 1 : x[Len(x) - i] = y[Len(y) - i]
  <2>1. PICK lx \in Nat, ly \in Nat : lx = Len(x) /\ ly = Len(y)
    BY <1>5
  <2>2. lx \in Int /\ ly \in Int
    OBVIOUS
  <2>3. T!Least(lx, ly) \in Nat /\ T!Least(lx, ly) <= lx /\ T!Least(lx, ly) <= ly
    BY <2>2, LeastOfTwo
  <2>4. IsCommonEnd(n, x, y)
    BY <1>5, <1>8, CommonEndIsCommon
  <2>5. n \in 0 .. T!Least(lx, ly) /\ \A i \in 0 .. n - 1 : x[Len(x) - i] = y[Len(y) - i]
    BY <2>1, <2>4 DEF IsCommonEnd
  <2> QED
    BY <2>1, <2>3, <2>5
<1>10. CASE Len(x) < Len(y)
  <2>1. Longer(x, y) = y /\ Shorter(x, y) = x
    BY <1>10 DEF Longer, Shorter
  <2>2. PICK K : IsTable(K, Len(y), Len(x), Same(y, x))
    BY <1>5, TableExists
  <2>3. Turned(Len(x), Len(y), Same(x, y), Same(y, x))
    BY DEF Same, Turned
  <2>4. W[<<Len(x), Len(y)>>] = K[<<Len(y), Len(x)>>]
    <3>1. Len(x) \in Nat /\ Len(y) \in Nat
      BY <1>5
    <3> QED
      BY <1>6, <2>2, <2>3, <3>1, TableSwapped
  <2>5. SameLast(n, y, x)
    BY <1>9 DEF SameLast
  <2>6. LevenshteinOf(y, x, n) = K[<<Len(y), Len(x)>>]
    BY <1>5, <1>9, <2>2, <2>5, LevenshteinOfTable
  <2> QED
    BY <1>4, <1>7, <1>8, <2>1, <2>4, <2>6
<1>11. CASE ~(Len(x) < Len(y))
  <2>1. Longer(x, y) = x /\ Shorter(x, y) = y
    BY <1>11 DEF Longer, Shorter
  <2>3. SameLast(n, x, y)
    BY <1>9 DEF SameLast
  <2>2. LevenshteinOf(x, y, n) = W[<<Len(x), Len(y)>>]
    BY <1>5, <1>6, <1>9, <2>3, LevenshteinOfTable
  <2> QED
    BY <1>4, <1>7, <1>8, <2>1, <2>2
<1> QED
  BY <1>10, <1>11

LEMMA LevenshteinIsEditDistance ==
  ASSUME NEW V, NEW a \in Seq(V), NEW b \in Seq(V)
  PROVE  T!LevenshteinChars(a, b) = T!EditDistance(a, b, 1)
<1>1. Len(a) \in Nat /\ Len(b) \in Nat
  OBVIOUS
<1>2. PICK F : IsTable(F, Len(a), Len(b), Same(a, b))
  BY <1>1, TableExists
<1>3. T!LevenshteinChars(a, b) = F[<<Len(a), Len(b)>>]
  BY <1>2, LevenshteinIsTable
<1>4. T!EditDistance(a, b, 1) = F[<<Len(a), Len(b)>>]
  BY <1>1, <1>2, EditDistanceIsTable
<1> QED
  BY <1>3, <1>4

\* The edit distance is a number, and no less than the difference of the lengths.
LEMMA EditDistanceBound ==
  ASSUME NEW V, NEW a \in Seq(V), NEW b \in Seq(V)
  PROVE  T!EditDistance(a, b, 1) \in Nat /\ T!EditDistance(a, b, 1) >= T!LengthsDiffer(a, b)
<1>1. PICK m \in Nat, n \in Nat : m = Len(a) /\ n = Len(b)
  OBVIOUS
<1>2. PICK F : IsTable(F, Len(a), Len(b), Same(a, b))
  BY <1>1, TableExists
<1>3. T!EditDistance(a, b, 1) = F[<<m, n>>]
  BY <1>1, <1>2, EditDistanceIsTable
<1>4. m \in 0 .. m /\ n \in 0 .. n /\ IsTable(F, m, n, Same(a, b))
  BY <1>1, <1>2
<1>5. F[<<m, n>>] \in Nat /\ F[<<m, n>>] >= m - n /\ F[<<m, n>>] >= n - m
  BY <1>4, TableBounds, TableEdge
<1>6. T!LengthsDiffer(a, b) = IF m < n THEN n - m ELSE m - n
  BY <1>1 DEF T!LengthsDiffer
<1> QED
  BY <1>3, <1>5, <1>6

\* The metric levenshtein of diag-file, for files of the same size.
LEMMA FileLevenshteinIsEditDistance ==
  ASSUME NEW V, NEW a \in Seq(V), NEW b \in Seq(V), Len(a) = Len(b)
  PROVE  T!Levenshtein(a, b) = T!EditDistance(a, b, 1)
<1>1. PICK m \in Nat : m = Len(a) /\ m = Len(b)
  OBVIOUS
<1>2. PICK F : IsTable(F, Len(a), Len(b), Same(a, b))
  BY <1>1, TableExists
<1>3. IsTable(F, m, m, Same(a, b))
  BY <1>1, <1>2
<1>4. T!EditDistance(a, b, 1) = F[<<m, m>>]
  BY <1>1, <1>2, EditDistanceIsTable
<1> DEFINE M == {p \in (DOMAIN a) \X (DOMAIN a \cap DOMAIN b) : a[p[1]] = b[p[2]]}
<1>5. T!Levenshtein(a, b) = IF a = <<>> THEN 0 ELSE T!Rows(Len(a), Len(a), M)
  BY Zenon DEF T!Levenshtein
<1>6. DOMAIN a = 1 .. m /\ DOMAIN b = 1 .. m
  BY <1>1
<1>7. M = Same(a, b)
  BY <1>1, <1>6 DEF Same
<1> HIDE DEF M
<1>8. CASE m = 0
  <2>1. a = <<>>
    BY <1>1, <1>8
  <2>2. 0 \in 0 .. m
    OBVIOUS
  <2>3. F[<<0, 0>>] = 0
    BY <1>3, <2>2, TableEdge
  <2> QED
    BY <1>4, <1>5, <1>8, <2>1, <2>3
<1>9. CASE m # 0
  <2>1. a # <<>>
    BY <1>1, <1>9
  <2>2. PICK W : IsTable(W, m, m, Same(a, b)) /\ T!Rows(m, m, Same(a, b)) = W[<<m, m>>]
    BY RowsMakeTable
  <2>3. m \in 0 .. m
    OBVIOUS
  <2>4. F[<<m, m>>] = W[<<m, m>>]
    BY <1>3, <2>2, <2>3, TablePart
  <2> QED
    BY <1>1, <1>4, <1>5, <1>7, <2>1, <2>2, <2>4
<1> QED
  BY <1>8, <1>9

\* The metric with a limit.
LEMMA ELevenshteinIsEditDistance ==
  ASSUME NEW V, NEW a \in Seq(V), NEW b \in Seq(V), NEW e \in Nat
  PROVE  T!ELevenshteinChars(a, b, e) = IF T!EditDistance(a, b, 1) < e THEN T!EditDistance(a, b, 1) ELSE -1
<1>1. PICK d \in Nat : d = T!EditDistance(a, b, 1)
  BY EditDistanceBound
<1>2. T!LevenshteinChars(a, b) = d
  BY <1>1, LevenshteinIsEditDistance
<1>3. d >= T!LengthsDiffer(a, b)
  BY <1>1, EditDistanceBound
<1>4. PICK l \in Nat : l = T!LengthsDiffer(a, b)
  <2>1. PICK m \in Nat, n \in Nat : m = Len(a) /\ n = Len(b)
    OBVIOUS
  <2>2. (IF m < n THEN n - m ELSE m - n) \in Nat
    OBVIOUS
  <2> QED
    BY Zenon, <2>1, <2>2 DEF T!LengthsDiffer
<1>5. T!ELevenshteinChars(a, b, e) = IF e = 0 \/ l >= e THEN -1 ELSE IF d < e THEN d ELSE -1
  BY <1>2, <1>4 DEF T!ELevenshteinChars
<1> QED
  BY <1>1, <1>3, <1>4, <1>5

-----------------------------------------------------------------------------
(* Hamming distances.                                                      *)

\* The places up to k at which x and y differ.
Differing(k, x, y) == {i \in 1 .. k : x[i] # y[i]}
Differs(k, x, y) == IF x[k] # y[k] THEN 1 ELSE 0

LEMMA DifferingGrows ==
  ASSUME NEW x, NEW y, NEW k \in Nat
  PROVE  /\ IsFiniteSet(Differing(k, x, y))
         /\ Cardinality(Differing(k, x, y)) \in Nat
         /\ Differing(0, x, y) = {}
         /\ k > 0 => Cardinality(Differing(k, x, y)) = Cardinality(Differing(k - 1, x, y)) + Differs(k, x, y)
<1>1. ASSUME NEW l \in Nat PROVE IsFiniteSet(Differing(l, x, y)) /\ Cardinality(Differing(l, x, y)) \in Nat
  <2>1. IsFiniteSet(1 .. l)
    BY FS_Interval
  <2>2. Differing(l, x, y) \subseteq 1 .. l
    BY DEF Differing
  <2>3. IsFiniteSet(Differing(l, x, y))
    BY <2>1, <2>2, FS_Subset
  <2> QED
    BY <2>3, FS_CardinalityType
<1>2. Differing(0, x, y) = {}
  BY DEF Differing
<1>3. ASSUME k > 0
      PROVE  Cardinality(Differing(k, x, y)) = Cardinality(Differing(k - 1, x, y)) + Differs(k, x, y)
  <2>1. PICK l \in Nat : l = k - 1
    BY <1>3
  <2>2. IsFiniteSet(Differing(l, x, y)) /\ Cardinality(Differing(l, x, y)) \in Nat
    BY <1>1
  <2>3. \A i : i \in 1 .. k <=> i \in 1 .. l \/ i = k
    BY <2>1
  <2>4. k \notin Differing(l, x, y)
    BY <2>1 DEF Differing
  <2>5. CASE x[k] # y[k]
    <3>1. Differing(k, x, y) = Differing(l, x, y) \cup {k}
      BY <2>3, <2>5 DEF Differing
    <3>2. Cardinality(Differing(l, x, y) \cup {k}) = Cardinality(Differing(l, x, y)) + 1
      BY <2>2, <2>4, FS_AddElement
    <3> QED
      BY <2>1, <2>5, <3>1, <3>2 DEF Differs
  <2>6. CASE x[k] = y[k]
    <3>1. Differing(k, x, y) = Differing(l, x, y)
      BY <2>3, <2>6 DEF Differing
    <3> QED
      BY <2>1, <2>2, <2>6, <3>1 DEF Differs
  <2> QED
    BY <2>5, <2>6
<1> QED
  BY <1>1, <1>2, <1>3

\* The loop of diag_hamming_chars.
IsCount(h, n, x, y) ==
  h = [k \in 0 .. n |-> IF k = 0 THEN 0 ELSE h[k - 1] + (IF x[k] # y[k] THEN 1 ELSE 0)]

LEMMA CountExists ==
  ASSUME NEW n \in Nat, NEW x, NEW y
  PROVE  \E h : IsCount(h, n, x, y)
<1> DEFINE g == [p \in (1 .. n) \X Nat |-> p[2] + (IF x[p[1]] # y[p[1]] THEN 1 ELSE 0)]
<1>1. g \in [(1 .. n) \X Nat -> Nat]
  OBVIOUS
<1>2. \A k \in 1 .. n : \A v \in Nat : g[<<k, v>>] = v + (IF x[k] # y[k] THEN 1 ELSE 0)
  OBVIOUS
<1> HIDE DEF g
<1>3. 0 \in Nat
  OBVIOUS
<1>4. PICK h : IsSequel(h, n, Nat, 0, g)
  BY <1>1, <1>3, PrimitiveRecursion, Zenon
<1>5. h \in [0 .. n -> Nat] /\ h[0] = 0 /\ \A k \in 1 .. n : h[k] = g[<<k, h[k - 1]>>]
  BY <1>4 DEF IsSequel
<1>6. ASSUME NEW k \in 0 .. n PROVE h[k] = IF k = 0 THEN 0 ELSE h[k - 1] + (IF x[k] # y[k] THEN 1 ELSE 0)
  <2>1. CASE k = 0
    BY <1>5, <2>1
  <2>2. CASE k # 0
    <3>1. k \in 1 .. n /\ k - 1 \in 0 .. n
      BY <2>2
    <3>2. h[k - 1] \in Nat /\ h[k] = g[<<k, h[k - 1]>>]
      BY <1>5, <3>1
    <3> QED
      BY <1>2, <2>2, <3>1, <3>2
  <2> QED
    BY <2>1, <2>2
<1> QED
  BY <1>5, <1>6 DEF IsCount

LEMMA CountIsCardinality ==
  ASSUME NEW n \in Nat, NEW x, NEW y, NEW h, IsCount(h, n, x, y)
  PROVE  \A k \in 0 .. n : h[k] = Cardinality(Differing(k, x, y))
<1> DEFINE C(k) == Cardinality(Differing(k, x, y))
           E == {k \in 0 .. n : h[k] = C(k)}
<1>1. ASSUME NEW k \in 0 .. n PROVE h[k] = IF k = 0 THEN 0 ELSE h[k - 1] + Differs(k, x, y)
  <2> DEFINE f == [l \in 0 .. n |-> IF l = 0 THEN 0 ELSE h[l - 1] + (IF x[l] # y[l] THEN 1 ELSE 0)]
  <2>1. f[k] = IF k = 0 THEN 0 ELSE h[k - 1] + Differs(k, x, y)
    BY DEF Differs
  <2>2. h = f
    BY DEF IsCount
  <2> QED
    BY <2>1, <2>2
<1>2. 0 \in E
  <2>1. 0 \in 0 .. n
    OBVIOUS
  <2>2. C(0) = 0
    BY DifferingGrows, FS_EmptySet
  <2> QED
    BY <1>1, <2>1, <2>2
<1>3. ASSUME NEW k \in 0 .. n - 1, k \in E PROVE k + 1 \in E
  <2>1. k + 1 \in 0 .. n /\ k + 1 # 0 /\ (k + 1) - 1 = k /\ k + 1 \in Nat /\ k + 1 > 0
    OBVIOUS
  <2>2. h[k + 1] = h[k] + Differs(k + 1, x, y)
    BY <1>1, <2>1
  <2>3. C(k + 1) = C(k) + Differs(k + 1, x, y)
    <3>1. PICK l \in Nat : l = k + 1 /\ l > 0 /\ l - 1 = k
      BY <2>1
    <3>2. C(l) = C(l - 1) + Differs(l, x, y)
      BY <3>1, DifferingGrows
    <3> QED
      BY <3>1, <3>2
  <2> QED
    BY <1>3, <2>1, <2>2, <2>3
<1> HIDE DEF E, C
<1>4. \A k \in 0 .. n : k \in E
  BY <1>2, <1>3, InductionUpTo
<1> QED
  BY <1>4 DEF E, C

\* The Hamming distance of diag-file.
LEMMA HammingIsSum ==
  ASSUME NEW x, NEW y, NEW n, n = T!Least(Len(x), Len(y))
  PROVE  T!Hamming(x, y) = Cardinality(Differing(n, x, y)) + T!LengthsDiffer(x, y)
<1> DEFINE D == {i \in 1 .. T!Least(Len(x), Len(y)) : x[i] # y[i]}
<1>1. T!Hamming(x, y) = T!Cardinality(D) + T!LengthsDiffer(x, y)
  BY Zenon DEF T!Hamming
<1>2. T!Cardinality(D) = Cardinality(D)
  BY Zenon DEF T!Cardinality, Cardinality
<1>3. D = Differing(n, x, y)
  BY Zenon DEF Differing
<1> QED
  BY Zenon, <1>1, <1>2, <1>3

\* The Hamming distance is the number of places that differ, and that of
\* what one string has more (hamming.c:16-37), as diag-file counts it.
LEMMA HammingIsCount ==
  ASSUME NEW x, NEW y, Len(x) \in Nat, Len(y) \in Nat
  PROVE  T!HammingChars(x, y) = T!Hamming(x, y)
<1>1. PICK n \in Nat : n = T!Least(Len(x), Len(y))
  <2>1. Len(x) \in Int /\ Len(y) \in Int
    OBVIOUS
  <2> QED
    BY <2>1, LeastOfTwo
<1> DEFINE h == CHOOSE f : IsCount(f, n, x, y)
<1>2. h = CHOOSE f : f = [k \in 0 .. n |-> IF k = 0 THEN 0 ELSE f[k - 1] + (IF x[k] # y[k] THEN 1 ELSE 0)]
  BY Zenon DEF IsCount
<1>3. T!HammingChars(x, y) = h[n] + T!LengthsDiffer(x, y)
  BY Zenon, <1>1, <1>2 DEF T!HammingChars
<1>4. IsCount(h, n, x, y)
  BY Zenon, CountExists
<1> HIDE DEF h
<1>5. n \in 0 .. n
  OBVIOUS
<1>6. h[n] = Cardinality(Differing(n, x, y))
  BY <1>4, <1>5, CountIsCardinality
<1>7. T!Hamming(x, y) = Cardinality(Differing(n, x, y)) + T!LengthsDiffer(x, y)
  BY <1>1, HammingIsSum
<1> QED
  BY <1>3, <1>6, <1>7

\* The loop of diag_ehamming_chars, which starts at d and returns at e.
CountStep(v, k, x, y, e) ==
  LET c == v + (IF x[k] # y[k] THEN 1 ELSE 0) IN IF v # -1 /\ c < e THEN c ELSE -1

IsCountTo(h, n, x, y, d, e) ==
  h = [k \in 0 .. n |-> IF k = 0 THEN d ELSE CountStep(h[k - 1], k, x, y, e)]

LEMMA CountToExists ==
  ASSUME NEW n \in Nat, NEW x, NEW y, NEW d \in Nat, NEW e \in Nat
  PROVE  \E h : IsCountTo(h, n, x, y, d, e)
<1> DEFINE g == [p \in (1 .. n) \X Int |-> CountStep(p[2], p[1], x, y, e)]
<1>1. g \in [(1 .. n) \X Int -> Int]
  BY DEF CountStep
<1>2. \A k \in 1 .. n : \A v \in Int : g[<<k, v>>] = CountStep(v, k, x, y, e)
  OBVIOUS
<1> HIDE DEF g
<1>3. d \in Int
  OBVIOUS
<1>4. PICK h : IsSequel(h, n, Int, d, g)
  BY <1>1, <1>3, PrimitiveRecursion, Zenon
<1>5. h \in [0 .. n -> Int] /\ h[0] = d /\ \A k \in 1 .. n : h[k] = g[<<k, h[k - 1]>>]
  BY <1>4 DEF IsSequel
<1>6. ASSUME NEW k \in 0 .. n PROVE h[k] = IF k = 0 THEN d ELSE CountStep(h[k - 1], k, x, y, e)
  <2>1. CASE k = 0
    BY <1>5, <2>1
  <2>2. CASE k # 0
    <3>1. k \in 1 .. n /\ k - 1 \in 0 .. n
      BY <2>2
    <3>2. h[k - 1] \in Int /\ h[k] = g[<<k, h[k - 1]>>]
      BY <1>5, <3>1
    <3> QED
      BY <1>2, <2>2, <3>1, <3>2
  <2> QED
    BY <2>1, <2>2
<1> QED
  BY <1>5, <1>6 DEF IsCountTo

\* What a count gives if it is to stay below a limit.
Below(c, e) == IF c < e THEN c ELSE -1

LEMMA CountToIsBelow ==
  ASSUME NEW n \in Nat, NEW x, NEW y, NEW d \in Nat, NEW e \in Nat, d < e,
         NEW h, IsCountTo(h, n, x, y, d, e)
  PROVE  \A k \in 0 .. n : h[k] = Below(d + Cardinality(Differing(k, x, y)), e)
<1> DEFINE C(k) == Cardinality(Differing(k, x, y))
           E == {k \in 0 .. n : h[k] = Below(d + C(k), e)}
<1>1. ASSUME NEW k \in 0 .. n PROVE h[k] = IF k = 0 THEN d ELSE CountStep(h[k - 1], k, x, y, e)
  <2> DEFINE f == [l \in 0 .. n |-> IF l = 0 THEN d ELSE CountStep(h[l - 1], l, x, y, e)]
  <2>1. f[k] = IF k = 0 THEN d ELSE CountStep(h[k - 1], k, x, y, e)
    OBVIOUS
  <2>2. h = f
    BY DEF IsCountTo
  <2> QED
    BY <2>1, <2>2
<1>2. 0 \in E
  <2>1. 0 \in 0 .. n
    OBVIOUS
  <2>2. C(0) = 0
    BY DifferingGrows, FS_EmptySet
  <2>3. h[0] = d
    BY <1>1, <2>1
  <2> HIDE DEF C
  <2> QED
    BY <2>1, <2>2, <2>3 DEF Below
<1>3. ASSUME NEW k \in 0 .. n - 1, k \in E PROVE k + 1 \in E
  <2>1. PICK l \in Nat : l = k + 1 /\ l > 0 /\ l - 1 = k /\ l \in 0 .. n
    OBVIOUS
  <2>2. h[l] = CountStep(h[k], l, x, y, e)
    BY <1>1, <2>1
  <2>3. C(l) = C(k) + Differs(l, x, y) /\ C(k) \in Nat
    <3>1. C(l) = C(l - 1) + Differs(l, x, y)
      BY <2>1, DifferingGrows
    <3>2. k \in Nat
      OBVIOUS
    <3>3. C(k) \in Nat
      BY <3>2, DifferingGrows
    <3> QED
      BY <2>1, <3>1, <3>3
  <2>4. h[k] = Below(d + C(k), e)
    BY <1>3
  <2> HIDE DEF E, C
  <2>5. PICK v \in Nat : v = C(k)
    BY <2>3
  <2>8. h[l] = Below(d + C(l), e)
    BY <2>2, <2>3, <2>4, <2>5 DEF Below, CountStep, Differs
  <2> USE DEF E
  <2> QED
    BY <2>1, <2>8
<1> HIDE DEF E, C
<1>4. \A k \in 0 .. n : k \in E
  BY <1>2, <1>3, InductionUpTo
<1> QED
  BY <1>4 DEF E, C

\* With a limit, the Hamming distance if it is below that (hamming.c:39-60).
LEMMA EHammingIsHamming ==
  ASSUME NEW x, NEW y, Len(x) \in Nat, Len(y) \in Nat, NEW e \in Nat
  PROVE  T!EHammingChars(x, y, e) = IF T!HammingChars(x, y) < e THEN T!HammingChars(x, y) ELSE -1
<1>1. PICK n \in Nat : n = T!Least(Len(x), Len(y))
  <2>1. Len(x) \in Int /\ Len(y) \in Int
    OBVIOUS
  <2> QED
    BY <2>1, LeastOfTwo
<1>2. PICK l \in Nat : l = T!LengthsDiffer(x, y)
  <2>1. (IF Len(x) < Len(y) THEN Len(y) - Len(x) ELSE Len(x) - Len(y)) \in Nat
    OBVIOUS
  <2> QED
    BY Zenon, <2>1 DEF T!LengthsDiffer
<1>3. PICK c \in Nat : c = Cardinality(Differing(n, x, y))
  BY DifferingGrows
<1>4. T!HammingChars(x, y) = c + l
  <2>1. T!Hamming(x, y) = Cardinality(Differing(n, x, y)) + T!LengthsDiffer(x, y)
    BY <1>1, HammingIsSum
  <2> QED
    BY <1>2, <1>3, <2>1, HammingIsCount
<1>5. T!EHammingChars(x, y, e) = IF e = 0 \/ l >= e THEN -1 ELSE T!CountTo(x, y, l, e)
  BY Zenon, <1>2 DEF T!EHammingChars
<1>6. CASE l < e
  <2> DEFINE h == CHOOSE f : IsCountTo(f, n, x, y, l, e)
  <2>1. h = CHOOSE f : f = [k \in 0 .. n |->
              IF k = 0 THEN l
              ELSE LET c0 == f[k - 1] + (IF x[k] # y[k] THEN 1 ELSE 0)
                   IN IF f[k - 1] # -1 /\ c0 < e THEN c0 ELSE -1]
    BY Zenon DEF IsCountTo, CountStep
  <2>2. T!CountTo(x, y, l, e) = h[n]
    BY Zenon, <1>1, <2>1 DEF T!CountTo
  <2>3. IsCountTo(h, n, x, y, l, e)
    BY Zenon, CountToExists
  <2> HIDE DEF h
  <2>4. n \in 0 .. n
    OBVIOUS
  <2>5. h[n] = Below(l + c, e)
    BY <1>3, <1>6, <2>3, <2>4, CountToIsBelow
  <2> QED
    BY <1>4, <1>5, <1>6, <2>2, <2>5 DEF Below
<1>7. CASE ~(l < e)
  BY <1>4, <1>5, <1>7
<1> QED
  BY <1>6, <1>7

-----------------------------------------------------------------------------
(* The metrics.                                                            *)

(***************************************************************************)
(* The tools that take an input and have a result: before the end the      *)
(* input is one of theirs, at the end the result is that of the input.     *)
(***************************************************************************)
Computes(inputs, result) ==
  input \in inputs /\ (state = Running \/ state = [end |-> TRUE, result |-> result])

StringsResult(x, y, e) ==
  [hamming |-> T!HammingChars(x, y), levenshtein |-> T!LevenshteinChars(x, y),
   ehamming |-> T!EHammingChars(x, y, e), elevenshtein |-> T!ELevenshteinChars(x, y, e),
   file |-> T!Hamming(x, y), fileLevenshtein |-> T!Levenshtein(x, y),
   deltas |-> T!DeltaHammingChars(x, y), lcs |-> T!LcsCompute(x, y)]

StringsInv ==
  tool = "strings" =>
    Computes([x : Texts, y : Texts, e : Thresholds], StringsResult(input.x, input.y, input.e))

LEMMA StringsInvariance == Spec => []StringsInv
<1>1. Init => StringsInv
  <2> SUFFICES ASSUME Init, tool = "strings" PROVE StringsInv
    BY DEF StringsInv
  <2>1. state = Running /\ StringsInit
    BY Zenon DEF Init
  <2> QED
    BY <2>1 DEF StringsInv, StringsInit, Computes
<1>2. StringsInv /\ [Next]_vars => StringsInv'
  <2> SUFFICES ASSUME StringsInv, [Next]_vars, tool' = "strings" PROVE StringsInv'
    BY DEF StringsInv
  <2>1. CASE UNCHANGED vars
    BY <2>1 DEF vars, StringsInv, Computes
  <2>2. CASE Next
    <3>1. tool = "strings" /\ state = Running /\ StringsEnd
      BY <2>2, Zenon DEF Next, HashEnd, GroupsEnd, StringsEnd, SampleEnd, MeanEnd, UniqEnd, PathsEnd, Ends
    <3>2. input' = input /\ state' = [end |-> TRUE, result |-> StringsResult(input.x, input.y, input.e)]
      BY <3>1, Zenon DEF StringsEnd, Ends, StringsResult
    <3>3. input \in [x : Texts, y : Texts, e : Thresholds]
      BY <3>1 DEF StringsInv, Computes
    <3> QED
      BY <3>2, <3>3, Zenon DEF StringsInv, Computes
  <2> QED
    BY <2>1, <2>2
<1> QED
  BY <1>1, <1>2, PTL DEF Spec

(***************************************************************************)
(* For any two strings: the metrics with and without a limit, of strings   *)
(* and of files, are those of their definitions (levenshtein.c:16-84,      *)
(* hamming.c:16-60, diag-file.c:47-88).                                    *)
(***************************************************************************)
THEOREM MetricsAreExact == Spec => []MetricsExact
<1>1. StringsInv => MetricsExact
  <2> SUFFICES ASSUME StringsInv, Result("strings") PROVE MetricsExact
    BY DEF MetricsExact
  <2>1. tool = "strings" /\ state.end
    BY DEF Result
  <2>2. input \in [x : Texts, y : Texts, e : Thresholds]
        /\ (state = Running \/ state = [end |-> TRUE, result |-> StringsResult(input.x, input.y, input.e)])
    BY <2>1 DEF StringsInv, Computes
  <2>3. state # Running
    BY <2>1 DEF Running
  <2>4. PICK x \in Seq(Nat), y \in Seq(Nat), e \in Nat : x = input.x /\ y = input.y /\ e = input.e
    BY <2>2, TextsAssumption
  <2>5. state.result = StringsResult(x, y, e)
    BY <2>2, <2>3, <2>4
  <2>6. PICK r : r = state.result
    OBVIOUS
  <2>7. /\ r.levenshtein = T!LevenshteinChars(x, y) /\ r.hamming = T!HammingChars(x, y)
        /\ r.ehamming = T!EHammingChars(x, y, e) /\ r.elevenshtein = T!ELevenshteinChars(x, y, e)
        /\ r.file = T!Hamming(x, y) /\ r.fileLevenshtein = T!Levenshtein(x, y)
    BY <2>5, <2>6 DEF StringsResult
  <2>8. PICK d : d = T!EditDistance(x, y, 1)
    OBVIOUS
  <2>9. Len(x) \in Nat /\ Len(y) \in Nat
    OBVIOUS
  <2>10. r.levenshtein = d
    BY <2>7, <2>8, LevenshteinIsEditDistance
  <2>11. r.file = r.hamming
    BY <2>7, <2>9, HammingIsCount
  <2>12. r.ehamming = IF r.hamming < e THEN r.hamming ELSE -1
    BY <2>7, <2>9, EHammingIsHamming
  <2>13. r.elevenshtein = IF d < e THEN d ELSE -1
    BY <2>7, <2>8, ELevenshteinIsEditDistance
  <2>14. Len(x) = Len(y) => r.fileLevenshtein = d
    BY <2>7, <2>8, FileLevenshteinIsEditDistance
  <2> QED
    BY <2>4, <2>6, <2>8, <2>10, <2>11, <2>12, <2>13, <2>14, Zenon DEF MetricsExact
<1> QED
  BY <1>1, StringsInvariance, PTL

-----------------------------------------------------------------------------
(* diag-uniq.                                                              *)

\* Division with a remainder.
LEMMA DivMod ==
  ASSUME NEW a \in Nat, NEW b \in Nat \ {0}
  PROVE  /\ a \div b \in Nat /\ a % b \in Nat /\ a % b < b
         /\ a = (a \div b) * b + (a % b)
<1>1. a \div b \in Nat
  OBVIOUS
<1>2. a % b \in Nat /\ a % b < b
  OBVIOUS
<1>3. a = b * (a \div b) + (a % b)
  BY Z3
<1> QED
  BY <1>1, <1>2, <1>3

LEMMA Times1 ==
  ASSUME NEW a \in Nat, NEW b \in Nat
  PROVE  a * b \in Nat /\ (a + 1) * b = a * b + b
OBVIOUS

LEMMA TimesGrows ==
  ASSUME NEW a \in Nat, NEW b \in Nat, NEW c \in Nat, a <= c
  PROVE  a * b <= c * b
OBVIOUS

LEMMA SubSeqInFront ==
  ASSUME NEW V, NEW s \in Seq(V), NEW t \in Seq(V), NEW a \in Nat \ {0}, NEW b \in Nat, b <= Len(s)
  PROVE  SubSeq(s \o t, a, b) = SubSeq(s, a, b)
OBVIOUS

LEMMA SubSeqBehind ==
  ASSUME NEW V, NEW s \in Seq(V), NEW t \in Seq(V)
  PROVE  SubSeq(s \o t, Len(s) + 1, Len(s) + Len(t)) = t
OBVIOUS

BlockAt(d, c, i) == SubSeq(d, (i - 1) * c + 1, i * c)
Keeps(d, c, i) == i = 1 \/ BlockAt(d, c, i) # BlockAt(d, c, i - 1)
KeptUpTo(d, c, m) == {i \in 1 .. Len(d) \div c : Keeps(d, c, i) /\ i <= m}
NumberKept(d, c, m) == Cardinality(KeptUpTo(d, c, m))
Filtered(d, c, i) == IF Keeps(d, c, i) THEN BlockAt(d, c, i) ELSE <<>>

\* Every whole block has c bytes.
LEMMA BlockLength ==
  ASSUME NEW d \in Seq(Nat), NEW c \in Nat \ {0}, NEW i \in 1 .. Len(d) \div c
  PROVE  BlockAt(d, c, i) \in Seq(Nat) /\ Len(BlockAt(d, c, i)) = c
<1>1. Len(d) \div c \in Nat /\ (Len(d) \div c) * c <= Len(d)
  <2>1. PICK n \in Nat : n = Len(d)
    OBVIOUS
  <2>2. PICK q \in Nat, r \in Nat : q = n \div c /\ r = n % c /\ n = q * c + r
    BY DivMod
  <2>3. q * c \in Nat /\ q * c <= n
    BY <2>2, Times1
  <2> QED
    BY <2>1, <2>2, <2>3
<1>2. PICK k \in Nat : i = k + 1
  BY <1>1
<1>3. PICK a \in Nat : a = k * c
  BY Times1
<1>4. (k + 1) * c = a + c
  BY <1>3, Times1
<1>5. a + c <= Len(d)
  <2>1. PICK q \in Nat : q = Len(d) \div c
    BY <1>1
  <2>2. k + 1 \in Nat /\ k + 1 <= q
    BY <1>2, <2>1
  <2>3. (k + 1) * c <= q * c
    BY <2>2, TimesGrows
  <2>4. PICK b \in Nat : b = q * c
    BY Times1
  <2> QED
    BY <1>1, <1>4, <2>1, <2>3, <2>4
<1>6. BlockAt(d, c, i) = SubSeq(d, a + 1, a + c)
  <2>1. i - 1 = k
    BY <1>2
  <2> QED
    BY <1>2, <1>3, <1>4, <2>1 DEF BlockAt
<1>7. SubSeq(d, a + 1, a + c) \in Seq(Nat) /\ Len(SubSeq(d, a + 1, a + c)) = c
  BY <1>5
<1> QED
  BY <1>6, <1>7

\* The number of blocks kept among the first ones.
LEMMA CountKept ==
  ASSUME NEW d \in Seq(Nat), NEW c \in Nat \ {0}
  PROVE  /\ NumberKept(d, c, 0) = 0
         /\ \A m \in 0 .. Len(d) \div c : NumberKept(d, c, m) \in Nat
         /\ \A m \in 0 .. Len(d) \div c - 1 :
              NumberKept(d, c, m + 1) = NumberKept(d, c, m) + (IF Keeps(d, c, m + 1) THEN 1 ELSE 0)
<1>0. PICK n \in Nat : n = Len(d) \div c
  BY DivMod
<1>1. NumberKept(d, c, 0) = 0
  <2>1. KeptUpTo(d, c, 0) = {}
    BY <1>0 DEF KeptUpTo
  <2> QED
    BY <2>1, FS_EmptySet DEF NumberKept
<1>2. \A m \in 0 .. n : IsFiniteSet(KeptUpTo(d, c, m))
  <2>1. IsFiniteSet(1 .. n)
    BY FS_Interval
  <2>2. \A m \in 0 .. n : KeptUpTo(d, c, m) \in SUBSET (1 .. n)
    BY <1>0 DEF KeptUpTo
  <2> QED
    BY <2>1, <2>2, FS_Subset
<1>3. \A m \in 0 .. n : NumberKept(d, c, m) \in Nat
  BY <1>2, FS_CardinalityType DEF NumberKept
<1>4. ASSUME NEW m \in 0 .. n - 1
      PROVE NumberKept(d, c, m + 1) = NumberKept(d, c, m) + (IF Keeps(d, c, m + 1) THEN 1 ELSE 0)
  <2>1. NumberKept(d, c, m) \in Nat
    BY <1>3
  <2>2. CASE Keeps(d, c, m + 1)
    <3>1. KeptUpTo(d, c, m + 1) = KeptUpTo(d, c, m) \cup {m + 1}
      <4>1. \A i \in 1 .. n : i <= m + 1 <=> i <= m \/ i = m + 1
        OBVIOUS
      <4>2. m + 1 \in KeptUpTo(d, c, m + 1)
        BY <1>0, <2>2 DEF KeptUpTo
      <4>3. ASSUME NEW i \in KeptUpTo(d, c, m + 1) PROVE i \in KeptUpTo(d, c, m) \/ i = m + 1
        BY <1>0, <4>1 DEF KeptUpTo
      <4>4. ASSUME NEW i \in KeptUpTo(d, c, m) PROVE i \in KeptUpTo(d, c, m + 1)
        BY <1>0, <4>1 DEF KeptUpTo
      <4> QED
        BY <4>2, <4>3, <4>4
    <3>2. m + 1 \notin KeptUpTo(d, c, m) /\ IsFiniteSet(KeptUpTo(d, c, m))
      BY <1>2 DEF KeptUpTo
    <3> QED
      BY <2>2, <3>1, <3>2, FS_AddElement DEF NumberKept
  <2>3. CASE ~Keeps(d, c, m + 1)
    <3>1. KeptUpTo(d, c, m + 1) = KeptUpTo(d, c, m)
      <4>1. ASSUME NEW i \in KeptUpTo(d, c, m + 1) PROVE i \in KeptUpTo(d, c, m)
        <5>1. i \in 1 .. n /\ Keeps(d, c, i) /\ i <= m + 1
          BY <1>0 DEF KeptUpTo
        <5>2. i # m + 1
          BY <2>3, <5>1
        <5> QED
          BY <1>0, <5>1, <5>2 DEF KeptUpTo
      <4>2. ASSUME NEW i \in KeptUpTo(d, c, m) PROVE i \in KeptUpTo(d, c, m + 1)
        BY <1>0 DEF KeptUpTo
      <4> QED
        BY <4>1, <4>2
    <3> QED
      BY <2>1, <2>3, <3>1 DEF NumberKept
  <2> QED
    BY <2>2, <2>3
<1> QED
  BY <1>0, <1>1, <1>3, <1>4

\* flat holds what was written after each block.
IsWritten(flat, d, c) ==
  IsSequel(flat, Len(d) \div c, Seq(Nat), <<>>,
           [p \in (1 .. Len(d) \div c) \X Seq(Nat) |-> p[2] \o Filtered(d, c, p[1])])

\* After m blocks, those kept are behind each other.
Written(w, d, c, m) ==
  /\ w \in Seq(Nat) /\ Len(w) = NumberKept(d, c, m) * c
  /\ \A i \in KeptUpTo(d, c, m) :
       SubSeq(w, NumberKept(d, c, i - 1) * c + 1, (NumberKept(d, c, i - 1) + 1) * c) = BlockAt(d, c, i)

LEMMA FilteredType ==
  ASSUME NEW d \in Seq(Nat), NEW c \in Nat \ {0}, NEW i \in 1 .. Len(d) \div c
  PROVE  Filtered(d, c, i) \in Seq(Nat)
BY BlockLength DEF Filtered

LEMMA WrittenExists ==
  ASSUME NEW d \in Seq(Nat), NEW c \in Nat \ {0}
  PROVE  \E flat : IsWritten(flat, d, c)
<1>1. Len(d) \div c \in Nat
  BY DivMod
<1>2. [p \in (1 .. Len(d) \div c) \X Seq(Nat) |-> p[2] \o Filtered(d, c, p[1])]
        \in [(1 .. Len(d) \div c) \X Seq(Nat) -> Seq(Nat)]
  BY FilteredType
<1>3. <<>> \in Seq(Nat)
  OBVIOUS
<1> QED
  BY <1>1, <1>2, <1>3, PrimitiveRecursion, Zenon DEF IsWritten

\* The earlier blocks kept end before a later one begins.
LEMMA KeptGrows ==
  ASSUME NEW d \in Seq(Nat), NEW c \in Nat \ {0}, NEW m \in 0 .. Len(d) \div c, NEW i \in KeptUpTo(d, c, m)
  PROVE  /\ NumberKept(d, c, i - 1) \in Nat
         /\ NumberKept(d, c, i - 1) + 1 <= NumberKept(d, c, m)
<1>0. PICK n \in Nat : n = Len(d) \div c
  BY DivMod
<1>1. i \in 1 .. n /\ Keeps(d, c, i) /\ i <= m
  BY <1>0 DEF KeptUpTo
<1>2. PICK j \in 0 .. n - 1 : i = j + 1 /\ j = i - 1
  BY <1>1
<1>3. NumberKept(d, c, j) \in Nat /\ NumberKept(d, c, j + 1) = NumberKept(d, c, j) + 1
  BY <1>0, <1>1, <1>2, CountKept
<1>4. NumberKept(d, c, i) <= NumberKept(d, c, m)
  <2>1. KeptUpTo(d, c, i) \subseteq KeptUpTo(d, c, m)
    BY <1>0, <1>1 DEF KeptUpTo
  <2>2. IsFiniteSet(KeptUpTo(d, c, m))
    <3>1. KeptUpTo(d, c, m) \in SUBSET (1 .. n)
      BY <1>0 DEF KeptUpTo
    <3> QED
      <4>1. IsFiniteSet(1 .. n)
        BY FS_Interval
      <4> QED
        BY <3>1, <4>1, FS_Subset
  <2> QED
    BY <2>1, <2>2, FS_Subset DEF NumberKept
<1> QED
  BY <1>2, <1>3, <1>4

LEMMA WrittenStep ==
  ASSUME NEW d \in Seq(Nat), NEW c \in Nat \ {0}, NEW m \in 0 .. Len(d) \div c - 1,
         NEW w, Written(w, d, c, m)
  PROVE  Written(w \o Filtered(d, c, m + 1), d, c, m + 1)
<1>0. PICK n \in Nat : n = Len(d) \div c
  BY DivMod
<1>1. w \in Seq(Nat) /\ Len(w) = NumberKept(d, c, m) * c
  BY DEF Written
<1>2. PICK k \in Nat : k = NumberKept(d, c, m)
  BY CountKept
<1>3. m \in 0 .. n /\ m + 1 \in 1 .. n /\ m + 1 \in 0 .. n
  BY <1>0
<1>4. CASE Keeps(d, c, m + 1)
  <2>1. PICK b \in Seq(Nat) : b = BlockAt(d, c, m + 1) /\ Len(b) = c
    BY <1>0, <1>3, BlockLength
  <2>2. NumberKept(d, c, m + 1) = k + 1
    BY <1>2, <1>4, CountKept
  <2>3. w \o b \in Seq(Nat) /\ Len(w \o b) = k * c + c /\ k * c \in Nat
    <3>1. k * c \in Nat
      BY Times1
    <3>2. w \o b \in Seq(Nat) /\ Len(w \o b) = Len(w) + Len(b)
      BY <1>1, <2>1, ConcatProperties
    <3> QED
      BY <1>1, <1>2, <2>1, <3>1, <3>2
  <2>4. (k + 1) * c = k * c + c
    BY Times1
  <2>5. ASSUME NEW i \in KeptUpTo(d, c, m + 1)
        PROVE SubSeq(w \o b, NumberKept(d, c, i - 1) * c + 1, (NumberKept(d, c, i - 1) + 1) * c) = BlockAt(d, c, i)
    <3>1. CASE i = m + 1
      <4>1. i - 1 = m
        BY <3>1
      <4>2. SubSeq(w \o b, Len(w) + 1, Len(w) + Len(b)) = b
        BY <1>1, <2>1, SubSeqBehind
      <4>3. Len(w) = k * c /\ Len(w) + Len(b) = (k + 1) * c
        BY <1>1, <1>2, <2>1, <2>4
      <4> QED
        BY <1>2, <2>1, <3>1, <4>1, <4>2, <4>3
    <3>2. CASE i # m + 1
      <4>1. i \in KeptUpTo(d, c, m)
        BY <1>0, <1>3, <3>2 DEF KeptUpTo
      <4>2. PICK j \in Nat : j = NumberKept(d, c, i - 1) /\ j + 1 <= k
        BY <1>0, <1>2, <1>3, <4>1, KeptGrows
      <4>3. SubSeq(w, j * c + 1, (j + 1) * c) = BlockAt(d, c, i)
        BY <4>1, <4>2 DEF Written
      <4>4. (j + 1) * c <= k * c
        <5>1. PICK h \in Nat : h = j + 1
          OBVIOUS
        <5>2. h * c <= k * c
          BY <4>2, <5>1, TimesGrows
        <5> QED
          BY <5>1, <5>2
      <4>5. PICK a \in Nat : a = j * c
        BY Times1
      <4>6. PICK e \in Nat : e = (j + 1) * c /\ e <= Len(w)
        BY <1>1, <1>2, <4>4, Times1
      <4>7. SubSeq(w \o b, a + 1, e) = SubSeq(w, a + 1, e)
        BY <1>1, <2>1, <4>6, SubSeqInFront
      <4> QED
        BY <4>2, <4>3, <4>5, <4>6, <4>7
    <3> QED
      BY <3>1, <3>2
  <2>6. Filtered(d, c, m + 1) = b
    BY <1>4, <2>1 DEF Filtered
  <2> QED
    BY <2>2, <2>3, <2>4, <2>5, <2>6 DEF Written
<1>5. CASE ~Keeps(d, c, m + 1)
  <2>1. w \o Filtered(d, c, m + 1) = w
    BY <1>1, <1>5 DEF Filtered
  <2>2. NumberKept(d, c, m + 1) = NumberKept(d, c, m)
    BY <1>2, <1>5, CountKept
  <2>3. ASSUME NEW i \in KeptUpTo(d, c, m + 1) PROVE i \in KeptUpTo(d, c, m)
    <3>1. i \in 1 .. n /\ Keeps(d, c, i) /\ i <= m + 1
      BY <1>0 DEF KeptUpTo
    <3>2. i # m + 1
      BY <1>5, <3>1
    <3> QED
      BY <1>0, <1>3, <3>1, <3>2 DEF KeptUpTo
  <2> QED
    BY <2>1, <2>2, <2>3 DEF Written
<1> QED
  BY <1>4, <1>5

LEMMA BlocksWritten ==
  ASSUME NEW d \in Seq(Nat), NEW c \in Nat \ {0}, NEW flat, IsWritten(flat, d, c)
  PROVE  \A m \in 0 .. Len(d) \div c : Written(flat[m], d, c, m)
<1>0. PICK n \in Nat : n = Len(d) \div c
  BY DivMod
<1>1. /\ flat \in [0 .. n -> Seq(Nat)] /\ flat[0] = <<>>
      /\ \A k \in 1 .. n : flat[k] = flat[k - 1] \o Filtered(d, c, k)
  <2> DEFINE g == [p \in (1 .. n) \X Seq(Nat) |-> p[2] \o Filtered(d, c, p[1])]
  <2>1. IsSequel(flat, n, Seq(Nat), <<>>, g)
    BY <1>0, Zenon DEF IsWritten
  <2>2. /\ flat \in [0 .. n -> Seq(Nat)] /\ flat[0] = <<>>
        /\ \A k \in 1 .. n : flat[k] = g[<<k, flat[k - 1]>>]
    BY <2>1, Zenon DEF IsSequel
  <2>3. ASSUME NEW k \in 1 .. n PROVE g[<<k, flat[k - 1]>>] = flat[k - 1] \o Filtered(d, c, k)
    <3>1. flat[k - 1] \in Seq(Nat)
      BY <2>2
    <3> QED
      BY <3>1
  <2> QED
    BY <2>2, <2>3
<1> DEFINE E == {m \in 0 .. n : Written(flat[m], d, c, m)}
<1>2. 0 \in E
  <2>1. KeptUpTo(d, c, 0) = {}
    BY <1>0 DEF KeptUpTo
  <2>2. NumberKept(d, c, 0) = 0
    BY CountKept
  <2> QED
    BY <1>1, <2>1, <2>2 DEF Written
<1>3. ASSUME NEW k \in 0 .. n - 1, k \in E PROVE k + 1 \in E
  <2>1. Written(flat[k], d, c, k)
    BY <1>3
  <2>2. Written(flat[k] \o Filtered(d, c, k + 1), d, c, k + 1)
    BY <1>0, <2>1, WrittenStep
  <2>3. flat[k + 1] = flat[k] \o Filtered(d, c, k + 1)
    <3>1. k + 1 \in 1 .. n /\ (k + 1) - 1 = k
      OBVIOUS
    <3> QED
      BY <1>1, <3>1
  <2> QED
    <3>1. Written(flat[k + 1], d, c, k + 1)
      BY <2>2, <2>3
    <3>2. k + 1 \in 0 .. n
      OBVIOUS
    <3> QED
      BY <3>1, <3>2
<1>4. \A k \in 0 .. n : k \in E
  <2> HIDE DEF E
  <2> QED
    BY <1>2, <1>3, InductionUpTo
<1> QED
  BY <1>0, <1>4

\* The result is the blocks kept, and as many bytes as are left over.
IsFiltered(w, d, c) ==
  /\ Len(w) = NumberKept(d, c, Len(d) \div c) * c + (Len(d) % c)
  /\ \A i \in KeptUpTo(d, c, Len(d) \div c) :
       SubSeq(w, NumberKept(d, c, i - 1) * c + 1, (NumberKept(d, c, i - 1) + 1) * c) = BlockAt(d, c, i)

IsFlat(h, d, c) ==
  h = [m \in 0 .. Len(d) \div c |-> IF m = 0 THEN <<>> ELSE h[m - 1] \o Filtered(d, c, m)]

\* With r more bytes behind them the blocks are still there.
LEMMA WrittenWithRest ==
  ASSUME NEW d \in Seq(Nat), NEW c \in Nat \ {0}, NEW w, Written(w, d, c, Len(d) \div c),
         NEW r \in Seq(Nat), Len(r) = Len(d) % c
  PROVE  IsFiltered(w \o r, d, c)
<1>0. PICK n \in Nat : n = Len(d) \div c
  BY DivMod
<1>1. PICK k \in Nat : k = NumberKept(d, c, n)
  BY <1>0, CountKept
<1>2. w \in Seq(Nat) /\ Len(w) = k * c
  BY <1>0, <1>1 DEF Written
<1>3. Len(w \o r) = k * c + (Len(d) % c)
  BY <1>2, ConcatProperties
<1>4. ASSUME NEW i \in KeptUpTo(d, c, n)
      PROVE SubSeq(w \o r, NumberKept(d, c, i - 1) * c + 1, (NumberKept(d, c, i - 1) + 1) * c) = BlockAt(d, c, i)
  <2>1. n \in 0 .. n
    OBVIOUS
  <2>2. PICK j \in Nat : j = NumberKept(d, c, i - 1) /\ j + 1 <= k
    BY <1>0, <1>1, <2>1, KeptGrows
  <2>3. SubSeq(w, j * c + 1, (j + 1) * c) = BlockAt(d, c, i)
    BY <1>0, <2>2 DEF Written
  <2>4. (j + 1) * c <= k * c
    <3>1. PICK h \in Nat : h = j + 1
      OBVIOUS
    <3>2. h * c <= k * c
      BY <2>2, <3>1, TimesGrows
    <3> QED
      BY <3>1, <3>2
  <2>5. PICK a \in Nat : a = j * c
    BY Times1
  <2>6. PICK e \in Nat : e = (j + 1) * c /\ e <= Len(w)
    BY <1>2, <2>4, Times1
  <2>7. SubSeq(w \o r, a + 1, e) = SubSeq(w, a + 1, e)
    <3>1. PICK k1 \in Nat \ {0} : k1 = a + 1
      OBVIOUS
    <3>2. SubSeq(w \o r, k1, e) = SubSeq(w, k1, e)
      <4>1. w \in Seq(Nat) /\ e <= Len(w)
        BY <1>2, <2>6
      <4> QED
        BY <4>1, SubSeqInFront
    <3> QED
      BY <3>1, <3>2
  <2>8. SubSeq(w \o r, j * c + 1, (j + 1) * c) = BlockAt(d, c, i)
    BY <2>3, <2>5, <2>6, <2>7
  <2> QED
    BY <2>2, <2>8
<1> QED
  BY <1>0, <1>1, <1>3, <1>4 DEF IsFiltered

LEMMA FlatSteps ==
  ASSUME NEW d, NEW c, NEW n \in Nat, n = Len(d) \div c, NEW h, IsFlat(h, d, c)
  PROVE  /\ h = [k \in 0 .. n |-> h[k]]
         /\ h[0] = <<>> /\ \A k \in 1 .. n : h[k] = h[k - 1] \o Filtered(d, c, k)
<1>1. ASSUME NEW k \in 0 .. n PROVE h[k] = IF k = 0 THEN <<>> ELSE h[k - 1] \o Filtered(d, c, k)
  <2> DEFINE f == [m \in 0 .. n |-> IF m = 0 THEN <<>> ELSE h[m - 1] \o Filtered(d, c, m)]
  <2>1. f[k] = IF k = 0 THEN <<>> ELSE h[k - 1] \o Filtered(d, c, k)
    OBVIOUS
  <2>2. h = f
    BY DEF IsFlat
  <2> QED
    BY <2>1, <2>2
<1>2. h = [k \in 0 .. n |-> h[k]]
  <2> DEFINE f == [m \in 0 .. n |-> IF m = 0 THEN <<>> ELSE h[m - 1] \o Filtered(d, c, m)]
  <2>1. f = [m \in 0 .. n |-> f[m]]
    OBVIOUS
  <2>2. h = f
    BY DEF IsFlat
  <2> HIDE DEF f
  <2> QED
    BY <2>1, <2>2
<1>3. h[0] = <<>>
  <2>1. 0 \in 0 .. n
    OBVIOUS
  <2> QED
    BY <1>1, <2>1
<1>4. ASSUME NEW k \in 1 .. n PROVE h[k] = h[k - 1] \o Filtered(d, c, k)
  <2>1. k \in 0 .. n /\ k # 0
    OBVIOUS
  <2> QED
    BY <1>1, <2>1
<1> QED
  BY <1>2, <1>3, <1>4

LEMMA FlatExists ==
  ASSUME NEW d \in Seq(Nat), NEW c \in Nat \ {0}
  PROVE  \E f : IsFlat(f, d, c)
<1>0. PICK n \in Nat : n = Len(d) \div c
  BY DivMod
<1> DEFINE g == [p \in (1 .. n) \X Seq(Nat) |-> p[2] \o Filtered(d, c, p[1])]
<1>1. \A k \in 1 .. n : \A v \in Seq(Nat) : g[<<k, v>>] = v \o Filtered(d, c, k)
  OBVIOUS
<1>2. PICK f : IsWritten(f, d, c)
  BY WrittenExists
<1>3. f \in [0 .. n -> Seq(Nat)] /\ f[0] = <<>> /\ \A k \in 1 .. n : f[k] = g[<<k, f[k - 1]>>]
  BY <1>0, <1>2, Zenon DEF IsWritten, IsSequel
<1> HIDE DEF g
<1>4. ASSUME NEW k \in 0 .. n PROVE f[k] = IF k = 0 THEN <<>> ELSE f[k - 1] \o Filtered(d, c, k)
  <2>1. CASE k = 0
    BY <1>3, <2>1
  <2>2. CASE k # 0
    <3>1. k \in 1 .. n /\ k - 1 \in 0 .. n
      BY <2>2
    <3>2. f[k - 1] \in Seq(Nat) /\ f[k] = g[<<k, f[k - 1]>>]
      BY <1>3, <3>1
    <3> QED
      BY <1>1, <2>2, <3>1, <3>2
  <2> QED
    BY <2>1, <2>2
<1>5. f = [k \in 0 .. n |-> f[k]]
  BY <1>3
<1> QED
  BY <1>0, <1>4, <1>5 DEF IsFlat

\* The recursive function is what was written.
LEMMA FlatIsWritten ==
  ASSUME NEW d \in Seq(Nat), NEW c \in Nat \ {0}, NEW h, IsFlat(h, d, c)
  PROVE  IsWritten(h, d, c)
<1>0. PICK n \in Nat : n = Len(d) \div c
  BY DivMod
<1>1. h = [k \in 0 .. n |-> h[k]]
  BY <1>0, FlatSteps
<1>2. h[0] = <<>> /\ \A k \in 1 .. n : h[k] = h[k - 1] \o Filtered(d, c, k)
  BY <1>0, FlatSteps
<1>3. \A k \in 0 .. n : h[k] \in Seq(Nat)
  <2> DEFINE E == {m \in 0 .. n : h[m] \in Seq(Nat)}
  <2>1. 0 \in 0 .. n /\ <<>> \in Seq(Nat)
    OBVIOUS
  <2>2. 0 \in E
    BY <1>2, <2>1
  <2>3. ASSUME NEW k \in 0 .. n - 1, k \in E PROVE k + 1 \in E
    <3>1. k + 1 \in 1 .. n /\ (k + 1) - 1 = k
      OBVIOUS
    <3>2. Filtered(d, c, k + 1) \in Seq(Nat)
      BY <1>0, <3>1, FilteredType
    <3>3. h[k + 1] = h[k] \o Filtered(d, c, k + 1)
      BY <1>2, <3>1
    <3>4. h[k] \in Seq(Nat)
      BY <2>3
    <3>5. h[k + 1] \in Seq(Nat)
      BY <3>2, <3>3, <3>4, ConcatProperties
    <3> QED
      BY <3>1, <3>5
  <2>4. \A k \in 0 .. n : k \in E
    <3> HIDE DEF E
    <3> QED
      BY <2>2, <2>3, InductionUpTo
  <2> QED
    BY <2>4
<1> DEFINE g == [p \in (1 .. n) \X Seq(Nat) |-> p[2] \o Filtered(d, c, p[1])]
<1>4. ASSUME NEW k \in 1 .. n PROVE h[k] = g[<<k, h[k - 1]>>]
  <2>1. k - 1 \in 0 .. n
    OBVIOUS
  <2>2. h[k - 1] \in Seq(Nat)
    BY <1>3, <2>1
  <2>3. g[<<k, h[k - 1]>>] = h[k - 1] \o Filtered(d, c, k)
    BY <2>2
  <2> HIDE DEF g
  <2> QED
    BY <1>2, <2>3
<1>5. h \in [0 .. n -> Seq(Nat)]
  BY <1>1, <1>3
<1> QED
  BY <1>0, <1>2, <1>4, <1>5, Zenon DEF IsWritten, IsSequel

IsFlattening(h, ss) == h = [m \in 0 .. Len(ss) |-> IF m = 0 THEN <<>> ELSE h[m - 1] \o ss[m]]

\* The blocks to be written, as diag-uniq has them.
Blockwise(d, c) ==
  [i \in 1 .. Len(d) \div c |-> IF i > 1 /\ BlockAt(d, c, i) = BlockAt(d, c, i - 1) THEN <<>> ELSE BlockAt(d, c, i)]

LEMMA BlockwiseIsFiltered ==
  ASSUME NEW d \in Seq(Nat), NEW c \in Nat \ {0}
  PROVE  /\ Len(Blockwise(d, c)) = Len(d) \div c
         /\ \A f : IsFlattening(f, Blockwise(d, c)) <=> IsFlat(f, d, c)
<1>0. PICK n \in Nat : n = Len(d) \div c
  BY DivMod
<1>1. PICK ss : ss = Blockwise(d, c)
  OBVIOUS
<1>2. Len(ss) = n
  BY <1>0, <1>1 DEF Blockwise
<1>3. ASSUME NEW i \in 1 .. n PROVE ss[i] = Filtered(d, c, i)
  <2>1. ss[i] = IF i > 1 /\ BlockAt(d, c, i) = BlockAt(d, c, i - 1) THEN <<>> ELSE BlockAt(d, c, i)
    BY <1>0, <1>1 DEF Blockwise
  <2>2. i > 1 <=> i # 1
    OBVIOUS
  <2> QED
    BY <2>1, <2>2 DEF Filtered, Keeps
<1>4. ASSUME NEW f PROVE IsFlattening(f, ss) <=> IsFlat(f, d, c)
  <2>1. [m \in 0 .. n |-> IF m = 0 THEN <<>> ELSE f[m - 1] \o ss[m]]
        = [m \in 0 .. n |-> IF m = 0 THEN <<>> ELSE f[m - 1] \o Filtered(d, c, m)]
    <3>1. ASSUME NEW m \in 0 .. n, m # 0 PROVE ss[m] = Filtered(d, c, m)
      BY <1>3, <3>1
    <3> QED
      BY <3>1
  <2> QED
    BY <1>0, <1>2, <2>1, Zenon DEF IsFlattening, IsFlat
<1> QED
  BY <1>0, <1>1, <1>2, <1>4

\* What the loop writes.
LEMMA UniqIsFiltered ==
  ASSUME NEW d \in Seq(Nat), NEW c \in Nat \ {0}
  PROVE  IsFiltered(S!Uniq(d, c), d, c)
<1>0. PICK n \in Nat, r \in Nat : n = Len(d) \div c /\ r = Len(d) % c /\ r < c /\ Len(d) = n * c + r
  <2>1. PICK l \in Nat : l = Len(d)
    OBVIOUS
  <2>2. l \div c \in Nat /\ l % c \in Nat /\ l % c < c /\ l = (l \div c) * c + (l % c)
    BY DivMod
  <2> QED
    BY <2>1, <2>2, Zenon
<1>1. CASE Len(d) <= c
  <2>1. S!Uniq(d, c) = d
    BY <1>1, Zenon DEF S!Uniq
  <2>2. CASE n = 0
    <3>1. KeptUpTo(d, c, n) = {} /\ NumberKept(d, c, n) = 0
      <4>1. KeptUpTo(d, c, n) = {}
        BY <1>0, <2>2 DEF KeptUpTo
      <4> QED
        BY <2>2, <4>1, CountKept
    <3>2. Len(d) = r
      BY <1>0, <2>2
    <3> QED
      BY <1>0, <2>1, <3>1, <3>2 DEF IsFiltered
  <2>3. CASE n # 0
    <3>1. n = 1 /\ r = 0 /\ Len(d) = c
      <4>1. PICK m \in Nat : n = m + 1
        BY <2>3
      <4>2. PICK a \in Nat : a = m * c /\ n * c = a + c
        BY <4>1, Times1
      <4>3. a = 0 /\ r = 0 /\ Len(d) = c
        BY <1>0, <1>1, <4>2
      <4>4. m = 0
        <5> SUFFICES ASSUME m # 0 PROVE FALSE
          OBVIOUS
        <5>1. 1 * c <= m * c
          BY TimesGrows
        <5> QED
          BY <4>2, <4>3, <5>1
      <4> QED
        BY <4>1, <4>3, <4>4
    <3>2. KeptUpTo(d, c, 1) = {1}
      BY <1>0, <3>1 DEF KeptUpTo, Keeps
    <3>3. NumberKept(d, c, 0) = 0 /\ NumberKept(d, c, 1) = 1
      <4>1. NumberKept(d, c, 0) = 0
        BY CountKept
      <4>2. NumberKept(d, c, 0 + 1) = NumberKept(d, c, 0) + 1
        BY <1>0, <3>1, CountKept DEF Keeps
      <4> QED
        BY <4>1, <4>2
    <3>4. BlockAt(d, c, 1) = SubSeq(d, 0 * c + 1, 1 * c)
      BY DEF BlockAt
    <3>5. 1 * c = c
      OBVIOUS
    <3> QED
      BY <1>0, <2>1, <3>1, <3>2, <3>3, <3>4, <3>5 DEF IsFiltered
  <2> QED
    BY <2>2, <2>3
<1>2. CASE ~(Len(d) <= c)
  <2> DEFINE h == CHOOSE f : IsFlattening(f, Blockwise(d, c))
             last == SubSeq(BlockAt(d, c, n), 1, r)
  <2>1. S!Uniq(d, c) = h[n] \o last
    <3>1. S!Uniq(d, c) = S!FlattenSeq(Blockwise(d, c)) \o last
      BY <1>0, <1>2, Zenon DEF S!Uniq, BlockAt, Blockwise
    <3>2. S!FlattenSeq(Blockwise(d, c)) = h[Len(Blockwise(d, c))]
      BY Zenon DEF S!FlattenSeq, IsFlattening
    <3>3. Len(Blockwise(d, c)) = n
      BY <1>0, BlockwiseIsFiltered
    <3> QED
      BY <3>1, <3>2, <3>3, Zenon
  <2>2. IsFlat(h, d, c)
    <3>1. \A f : IsFlattening(f, Blockwise(d, c)) <=> IsFlat(f, d, c)
      BY BlockwiseIsFiltered
    <3>2. \E f : IsFlattening(f, Blockwise(d, c))
      BY <3>1, FlatExists
    <3>3. IsFlattening(h, Blockwise(d, c))
      BY <3>2, Zenon
    <3> HIDE DEF h
    <3> QED
      BY <3>1, <3>3
  <2>3. Written(h[n], d, c, n)
    <3> HIDE DEF h
    <3>1. IsWritten(h, d, c)
      BY <2>2, FlatIsWritten
    <3>2. n \in 0 .. n
      OBVIOUS
    <3> QED
      BY <1>0, <3>1, <3>2, BlocksWritten
  <2>4. last \in Seq(Nat) /\ Len(last) = r
    <3>1. n \in 1 .. n
      <4>1. 0 * c = 0
        OBVIOUS
      <4>2. n # 0
        BY <1>0, <1>2, <4>1
      <4> QED
        BY <4>2
    <3>2. PICK b \in Seq(Nat) : b = BlockAt(d, c, n) /\ Len(b) = c
      BY <1>0, <3>1, BlockLength
    <3>3. r <= Len(b)
      BY <1>0, <3>2
    <3>4. SubSeq(b, 1, r) \in Seq(Nat) /\ Len(SubSeq(b, 1, r)) = r
      BY <3>3
    <3> QED
      BY <3>2, <3>4
  <2> HIDE DEF h, last
  <2> QED
    BY <1>0, <2>1, <2>3, <2>4, WrittenWithRest
<1> QED
  BY <1>1, <1>2

UniqInv == tool = "uniq" => Computes([data : Blocks, count : Counts], S!Uniq(input.data, input.count))

LEMMA UniqInvariance == Spec => []UniqInv
<1>1. Init => UniqInv
  <2> SUFFICES ASSUME Init, tool = "uniq" PROVE UniqInv
    BY DEF UniqInv
  <2>1. state = Running /\ UniqInit
    BY Zenon DEF Init
  <2> QED
    BY <2>1 DEF UniqInv, UniqInit, Computes
<1>2. UniqInv /\ [Next]_vars => UniqInv'
  <2> SUFFICES ASSUME UniqInv, [Next]_vars, tool' = "uniq" PROVE UniqInv'
    BY DEF UniqInv
  <2>1. CASE UNCHANGED vars
    BY <2>1 DEF vars, UniqInv, Computes
  <2>2. CASE Next
    <3>1. tool = "uniq" /\ state = Running /\ UniqEnd
      BY <2>2, Zenon DEF Next, HashEnd, GroupsEnd, StringsEnd, SampleEnd, MeanEnd, UniqEnd, PathsEnd, Ends
    <3>2. input' = input /\ state' = [end |-> TRUE, result |-> S!Uniq(input.data, input.count)]
      BY <3>1, Zenon DEF UniqEnd, Ends
    <3>3. input \in [data : Blocks, count : Counts]
      BY <3>1 DEF UniqInv, Computes
    <3> QED
      BY <3>2, <3>3, Zenon DEF UniqInv, Computes
  <2> QED
    BY <2>1, <2>2
<1> QED
  BY <1>1, <1>2, PTL DEF Spec

(***************************************************************************)
(* For any file and count, diag-uniq leaves out the blocks that equal the  *)
(* one before them and no others, and keeps the order of the rest          *)
(* (diag-uniq.c:72-103).                                                   *)
(***************************************************************************)
THEOREM UniqFiltersBlocks == Spec => []UniqFilters
<1>1. UniqInv => UniqFilters
  <2> SUFFICES ASSUME UniqInv, Result("uniq") PROVE UniqFilters
    BY DEF UniqFilters
  <2>1. tool = "uniq" /\ state.end
    BY DEF Result
  <2>2. input \in [data : Blocks, count : Counts]
        /\ (state = Running \/ state = [end |-> TRUE, result |-> S!Uniq(input.data, input.count)])
    BY <2>1 DEF UniqInv, Computes
  <2>3. state # Running
    BY <2>1 DEF Running
  <2>4. PICK d \in Seq(Nat), c \in Nat \ {0} : d = input.data /\ c = input.count
    BY <2>2, BlocksAssumption
  <2>5. PICK n \in Nat : n = Len(d) \div c
    BY DivMod
  <2>6. IsFiltered(state.result, d, c)
    <3>1. state.result = S!Uniq(d, c)
      BY <2>2, <2>3, <2>4
    <3> QED
      BY <3>1, UniqIsFiltered
  <2> DEFINE block(i) == SubSeq(d, (i - 1) * c + 1, i * c)
             kept == {i \in 1 .. n : i = 1 \/ block(i) # block(i - 1)}
             before(i) == Cardinality({k \in kept : k < i})
  <2>7. KeptUpTo(d, c, n) = kept
    <3>1. \A i \in 1 .. n : i <= n
      OBVIOUS
    <3>2. KeptUpTo(d, c, n) = {i \in 1 .. n : (i = 1 \/ block(i) # block(i - 1)) /\ i <= n}
      BY <2>5, Zenon DEF KeptUpTo, Keeps, BlockAt
    <3> HIDE DEF block
    <3> QED
      BY <3>1, <3>2
  <2>8. ASSUME NEW i \in kept PROVE before(i) = NumberKept(d, c, i - 1)
    <3>1. \A k \in 1 .. n : k < i <=> k <= i - 1
      OBVIOUS
    <3>2. {k \in kept : k < i} = KeptUpTo(d, c, i - 1)
      BY <2>5, <3>1 DEF KeptUpTo, Keeps, BlockAt
    <3> QED
      BY <3>2, Zenon DEF NumberKept
  <2>9. Len(state.result) = Cardinality(kept) * c + (Len(d) % c)
    BY <2>5, <2>6, <2>7, Zenon DEF IsFiltered, NumberKept
  <2>10. ASSUME NEW i \in kept
         PROVE SubSeq(state.result, before(i) * c + 1, (before(i) + 1) * c) = block(i)
    <3>1. i \in KeptUpTo(d, c, Len(d) \div c)
      BY <2>5, <2>7, Zenon
    <3> QED
      BY <2>6, <2>8, <3>1, Zenon DEF IsFiltered, BlockAt
  <2> HIDE DEF before
  <2> QED
    BY <2>4, <2>5, <2>9, <2>10, Zenon DEF UniqFilters, before
<1> QED
  BY <1>1, UniqInvariance, PTL

-----------------------------------------------------------------------------
(* diag-hash -s and diag-file -m hash32_rev.                               *)

\* a and b differ by a multiple of the modulus.
Congruent(a, b) == \E k \in Int : a = b + k * Modulus

LEMMA ModulusIsEven ==
  /\ Modulus \in Nat /\ Modulus > 0
  /\ Modulus \div 2 \in Nat /\ Modulus = 2 * (Modulus \div 2)
BY ModulusAssumption

LEMMA RemainderCongruent ==
  ASSUME NEW a \in Int
  PROVE  a % Modulus \in 0 .. Modulus - 1 /\ Congruent(a % Modulus, a)
<1>1. PICK m \in Nat : m = Modulus /\ m > 0
  BY ModulusIsEven
<1>2. a % m \in 0 .. m - 1
  BY <1>1
<1>3. PICK k \in Int : k = a \div m
  BY <1>1
<1>4. a = m * (a \div m) + (a % m)
  BY <1>1, Z3
<1>5. a % m = a + (0 - k) * m
  BY <1>2, <1>3, <1>4
<1> QED
  BY <1>1, <1>2, <1>5 DEF Congruent

LEMMA CongruentSums ==
  ASSUME NEW a \in Int, NEW b \in Int, NEW c \in Int, NEW d \in Int, Congruent(a, b), Congruent(c, d)
  PROVE  Congruent(a + c, b + d) /\ Congruent(a - c, b - d)
<1>1. PICK m \in Int : m = Modulus
  BY ModulusIsEven
<1>2. PICK k \in Int : a = b + k * m
  BY <1>1 DEF Congruent
<1>3. PICK l \in Int : c = d + l * m
  BY <1>1 DEF Congruent
<1>4. (k + l) * m = k * m + l * m /\ (k - l) * m = k * m - l * m
  OBVIOUS
<1>5. k * m \in Int /\ l * m \in Int
  OBVIOUS
<1>6. a + c = (b + d) + (k + l) * m /\ a - c = (b - d) + (k - l) * m
  BY <1>2, <1>3, <1>4, <1>5
<1>7. k + l \in Int /\ k - l \in Int
  OBVIOUS
<1> QED
  BY <1>1, <1>6, <1>7 DEF Congruent

LEMMA CongruentProducts ==
  ASSUME NEW a \in Int, NEW b \in Int, NEW c \in Int, Congruent(a, b),
         NEW ac, ac = a * c, NEW bc, bc = b * c
  PROVE  Congruent(ac, bc)
<1>1. PICK m \in Int : m = Modulus
  BY ModulusIsEven
<1>2. PICK k \in Int : a = b + k * m
  BY <1>1 DEF Congruent
<1>3. a * c = b * c + (k * c) * m
  BY <1>2
<1>4. k * c \in Int
  OBVIOUS
<1> QED
  BY <1>1, <1>3, <1>4 DEF Congruent

LEMMA CongruentTransitive ==
  ASSUME NEW a \in Int, NEW b \in Int, NEW c \in Int, Congruent(a, b), Congruent(b, c)
  PROVE  Congruent(a, c)
<1>1. PICK m \in Int : m = Modulus
  BY ModulusIsEven
<1>2. PICK k \in Int : a = b + k * m
  BY <1>1 DEF Congruent
<1>3. PICK l \in Int : b = c + l * m
  BY <1>1 DEF Congruent
<1>4. a = c + (k + l) * m
  BY <1>2, <1>3
<1>5. k + l \in Int
  OBVIOUS
<1> QED
  BY <1>1, <1>4, <1>5 DEF Congruent

LEMMA CongruentSymmetric ==
  ASSUME NEW a \in Int, NEW b \in Int, Congruent(a, b)
  PROVE  Congruent(b, a)
<1>1. PICK m \in Int : m = Modulus
  BY ModulusIsEven
<1>2. PICK k \in Int : a = b + k * m
  BY <1>1 DEF Congruent
<1>3. b = a + (0 - k) * m
  BY <1>2
<1>4. 0 - k \in Int
  OBVIOUS
<1> QED
  BY <1>1, <1>3, <1>4 DEF Congruent

LEMMA CongruentItself ==
  ASSUME NEW a \in Int
  PROVE  Congruent(a, a)
<1>1. PICK m \in Int : m = Modulus
  BY ModulusIsEven
<1>2. a = a + 0 * m
  OBVIOUS
<1> QED
  BY <1>1, <1>2 DEF Congruent

\* Congruent numbers have one remainder.
LEMMA CongruentRemainders ==
  ASSUME NEW a \in Int, NEW b \in Int, Congruent(a, b)
  PROVE  a % Modulus = b % Modulus
<1>1. PICK m \in Nat : m = Modulus /\ m > 0
  BY ModulusIsEven
<1>2. PICK r \in 0 .. m - 1, s \in 0 .. m - 1 : r = a % m /\ s = b % m
  BY <1>1
<1>3. Congruent(r, a) /\ Congruent(s, b)
  BY <1>1, <1>2, RemainderCongruent
<1>4. Congruent(r, b)
  BY <1>3, CongruentTransitive
<1>5. Congruent(b, s)
  BY <1>3, CongruentSymmetric
<1>6. Congruent(r, s)
  BY <1>4, <1>5, CongruentTransitive
<1>7. PICK k \in Int : r = s + k * m
  BY <1>1, <1>6 DEF Congruent
<1>8. k = 0
  <2>1. CASE k >= 1
    <3>1. k * m >= 1 * m
      BY <1>1, <2>1
    <3> QED
      BY <1>1, <1>2, <1>7, <3>1
  <2>2. CASE k <= -1
    <3>1. k * m <= (-1) * m
      BY <1>1, <2>2
    <3> QED
      BY <1>1, <1>2, <1>7, <3>1
  <2> QED
    BY <2>1, <2>2
<1> QED
  BY <1>1, <1>2, <1>7, <1>8

\* One byte more, one factor more.
HashStep(v, x, b) == (v * b + x) % Modulus
FactorStep(v, x, b) == (v * b) % Modulus

LEMMA HashStepType ==
  /\ 0 \in Nat
  /\ \A v \in Nat : \A x \in Nat : \A b \in Nat : HashStep(v, x, b) \in Nat
<1>1. ASSUME NEW v \in Nat, NEW x \in Nat, NEW b \in Nat PROVE HashStep(v, x, b) \in Nat
  <2>1. PICK c \in Int : c = v * b + x
    OBVIOUS
  <2>2. c % Modulus \in Nat
    BY RemainderCongruent, ModulusIsEven
  <2> QED
    BY <2>1, <2>2 DEF HashStep
<1> QED
  BY <1>1

LEMMA FactorStepType ==
  /\ 1 \in Nat
  /\ \A v \in Nat : \A x \in Nat : \A b \in Nat : FactorStep(v, x, b) \in Nat
<1>1. ASSUME NEW v \in Nat, NEW x \in Nat, NEW b \in Nat PROVE FactorStep(v, x, b) \in Nat
  <2>1. PICK c \in Int : c = v * b
    OBVIOUS
  <2>2. c % Modulus \in Nat
    BY RemainderCongruent, ModulusIsEven
  <2> QED
    BY <2>1, <2>2 DEF FactorStep
<1> QED
  BY <1>1

IsHashing(f, s, b) ==
  f = [k \in 0 .. Len(s) |-> IF k = 0 THEN 0 ELSE HashStep(f[k - 1], s[k], b)]

HashingGoes(h, s, n, b) ==
  h = [k \in 0 .. n |-> h[k]] /\ h[0] = 0 /\ \A k \in 1 .. n : h[k] = HashStep(h[k - 1], s[k], b)

HashingWent(h, s, n, b) ==
  h \in [0 .. n -> Nat] /\ h[0] = 0 /\ \A k \in 1 .. n : h[k] = HashStep(h[k - 1], s[k], b)

LEMMA HashingEquations ==
  ASSUME NEW n \in Nat, NEW s, Len(s) = n, NEW b, NEW h, IsHashing(h, s, b)
  PROVE  HashingGoes(h, s, n, b)
<1> DEFINE f == [k \in 0 .. n |-> IF k = 0 THEN 0 ELSE HashStep(h[k - 1], s[k], b)]
<1>1. ASSUME NEW k \in 0 .. n PROVE f[k] = IF k = 0 THEN 0 ELSE HashStep(h[k - 1], s[k], b)
  OBVIOUS
<1>2. f = [k \in 0 .. n |-> f[k]]
  OBVIOUS
<1>3. h = f
  BY Zenon DEF IsHashing
<1> HIDE DEF f
<1>4. 0 \in 0 .. n /\ \A k \in 1 .. n : k \in 0 .. n /\ k # 0
  OBVIOUS
<1> QED
  BY <1>1, <1>2, <1>3, <1>4 DEF HashingGoes

LEMMA HashingExists ==
  ASSUME NEW s \in Seq(Nat),
         NEW b \in Nat
  PROVE  \E f : IsHashing(f, s, b)
<1>0. PICK n \in Nat : n = Len(s)
  OBVIOUS
<1> DEFINE g == [p \in (1 .. n) \X Nat |-> HashStep(p[2], s[p[1]], b)]
<1>1. ASSUME NEW k \in 1 .. n, NEW v \in Nat PROVE g[<<k, v>>] = HashStep(v, s[k], b) /\ HashStep(v, s[k], b) \in Nat
  <2>1. s[k] \in Nat
    BY <1>0
  <2>2. HashStep(v, s[k], b) \in Nat
    BY <2>1, HashStepType
  <2> QED
    BY <2>2
<1>2. g \in [(1 .. n) \X Nat -> Nat]
  BY <1>1
<1>3. 0 \in Nat
  BY HashStepType
<1> HIDE DEF g
<1>a. PICK f : IsSequel(f, n, Nat, 0, g)
  BY <1>2, <1>3, PrimitiveRecursion, Zenon
<1>4. f \in [0 .. n -> Nat] /\ f[0] = 0 /\ \A k \in 1 .. n : f[k] = g[<<k, f[k - 1]>>]
  BY <1>a, Zenon DEF IsSequel
<1>5. ASSUME NEW k \in 0 .. n PROVE f[k] = IF k = 0 THEN 0 ELSE HashStep(f[k - 1], s[k], b)
  <2>1. CASE k = 0
    BY <1>4, <2>1
  <2>2. CASE k # 0
    <3>1. k \in 1 .. n /\ k - 1 \in 0 .. n
      BY <2>2
    <3>2. f[k - 1] \in Nat /\ f[k] = g[<<k, f[k - 1]>>]
      BY <1>4, <3>1
    <3> QED
      BY <1>1, <2>2, <3>1, <3>2
  <2> QED
    BY <2>1, <2>2
<1>6. f = [k \in 0 .. n |-> f[k]]
  BY <1>4
<1> QED
  BY <1>0, <1>5, <1>6 DEF IsHashing

LEMMA HashingRuns ==
  ASSUME NEW s \in Seq(Nat),
         NEW b \in Nat, NEW n \in Nat, n = Len(s),
         NEW h, h = CHOOSE f : IsHashing(f, s, b)
  PROVE  HashingWent(h, s, n, b)
<1>1. IsHashing(h, s, b)
  BY HashingExists, Zenon
<1>2. h = [k \in 0 .. n |-> h[k]] /\ h[0] = 0 /\ \A k \in 1 .. n : h[k] = HashStep(h[k - 1], s[k], b)
  <2>1. Len(s) = n
    OBVIOUS
  <2>2. HashingGoes(h, s, n, b)
    BY <1>1, <2>1, HashingEquations
  <2> QED
    BY <2>2 DEF HashingGoes
<1> DEFINE E == {k \in 0 .. n : h[k] \in Nat}
<1>3. 0 \in E
  BY <1>2, HashStepType
<1>4. ASSUME NEW k \in 0 .. n - 1, k \in E PROVE k + 1 \in E
  <2>1. k + 1 \in 1 .. n /\ (k + 1) - 1 = k /\ h[k] \in Nat /\ k + 1 \in 0 .. n
    BY <1>4
  <2>2. h[k + 1] = HashStep(h[k], s[k + 1], b)
    BY <1>2, <2>1
  <2>3. s[k + 1] \in Nat
    BY <2>1
  <2>4. HashStep(h[k], s[k + 1], b) \in Nat
    BY <2>1, <2>3, HashStepType
  <2> QED
    BY <2>1, <2>2, <2>4
<1>5. \A k \in 0 .. n : k \in E
  <2> HIDE DEF E
  <2> QED
    BY <1>3, <1>4, InductionUpTo
<1>6. \A k \in 0 .. n : h[k] \in Nat
  BY <1>5
<1>7. h \in [0 .. n -> Nat]
  BY <1>2, <1>6
<1> QED
  BY <1>2, <1>7 DEF HashingWent

IsPowers(f, s, b) ==
  f = [k \in 0 .. Len(s) |-> IF k = 0 THEN 1 ELSE FactorStep(f[k - 1], s[k], b)]

PowersGoes(h, s, n, b) ==
  h = [k \in 0 .. n |-> h[k]] /\ h[0] = 1 /\ \A k \in 1 .. n : h[k] = FactorStep(h[k - 1], s[k], b)

PowersWent(h, s, n, b) ==
  h \in [0 .. n -> Nat] /\ h[0] = 1 /\ \A k \in 1 .. n : h[k] = FactorStep(h[k - 1], s[k], b)

LEMMA PowersEquations ==
  ASSUME NEW n \in Nat, NEW s, Len(s) = n, NEW b, NEW h, IsPowers(h, s, b)
  PROVE  PowersGoes(h, s, n, b)
<1> DEFINE f == [k \in 0 .. n |-> IF k = 0 THEN 1 ELSE FactorStep(h[k - 1], s[k], b)]
<1>1. ASSUME NEW k \in 0 .. n PROVE f[k] = IF k = 0 THEN 1 ELSE FactorStep(h[k - 1], s[k], b)
  OBVIOUS
<1>2. f = [k \in 0 .. n |-> f[k]]
  OBVIOUS
<1>3. h = f
  BY Zenon DEF IsPowers
<1> HIDE DEF f
<1>4. 0 \in 0 .. n /\ \A k \in 1 .. n : k \in 0 .. n /\ k # 0
  OBVIOUS
<1> QED
  BY <1>1, <1>2, <1>3, <1>4 DEF PowersGoes

LEMMA PowersExists ==
  ASSUME NEW s \in Seq(Nat),
         NEW b \in Nat
  PROVE  \E f : IsPowers(f, s, b)
<1>0. PICK n \in Nat : n = Len(s)
  OBVIOUS
<1> DEFINE g == [p \in (1 .. n) \X Nat |-> FactorStep(p[2], s[p[1]], b)]
<1>1. ASSUME NEW k \in 1 .. n, NEW v \in Nat PROVE g[<<k, v>>] = FactorStep(v, s[k], b) /\ FactorStep(v, s[k], b) \in Nat
  <2>1. s[k] \in Nat
    BY <1>0
  <2>2. FactorStep(v, s[k], b) \in Nat
    BY <2>1, FactorStepType
  <2> QED
    BY <2>2
<1>2. g \in [(1 .. n) \X Nat -> Nat]
  BY <1>1
<1>3. 1 \in Nat
  BY FactorStepType
<1> HIDE DEF g
<1>a. PICK f : IsSequel(f, n, Nat, 1, g)
  BY <1>2, <1>3, PrimitiveRecursion, Zenon
<1>4. f \in [0 .. n -> Nat] /\ f[0] = 1 /\ \A k \in 1 .. n : f[k] = g[<<k, f[k - 1]>>]
  BY <1>a, Zenon DEF IsSequel
<1>5. ASSUME NEW k \in 0 .. n PROVE f[k] = IF k = 0 THEN 1 ELSE FactorStep(f[k - 1], s[k], b)
  <2>1. CASE k = 0
    BY <1>4, <2>1
  <2>2. CASE k # 0
    <3>1. k \in 1 .. n /\ k - 1 \in 0 .. n
      BY <2>2
    <3>2. f[k - 1] \in Nat /\ f[k] = g[<<k, f[k - 1]>>]
      BY <1>4, <3>1
    <3> QED
      BY <1>1, <2>2, <3>1, <3>2
  <2> QED
    BY <2>1, <2>2
<1>6. f = [k \in 0 .. n |-> f[k]]
  BY <1>4
<1> QED
  BY <1>0, <1>5, <1>6 DEF IsPowers

LEMMA PowersRuns ==
  ASSUME NEW s \in Seq(Nat),
         NEW b \in Nat, NEW n \in Nat, n = Len(s),
         NEW h, h = CHOOSE f : IsPowers(f, s, b)
  PROVE  PowersWent(h, s, n, b)
<1>1. IsPowers(h, s, b)
  BY PowersExists, Zenon
<1>2. h = [k \in 0 .. n |-> h[k]] /\ h[0] = 1 /\ \A k \in 1 .. n : h[k] = FactorStep(h[k - 1], s[k], b)
  <2>1. Len(s) = n
    OBVIOUS
  <2>2. PowersGoes(h, s, n, b)
    BY <1>1, <2>1, PowersEquations
  <2> QED
    BY <2>2 DEF PowersGoes
<1> DEFINE E == {k \in 0 .. n : h[k] \in Nat}
<1>3. 0 \in E
  BY <1>2, FactorStepType
<1>4. ASSUME NEW k \in 0 .. n - 1, k \in E PROVE k + 1 \in E
  <2>1. k + 1 \in 1 .. n /\ (k + 1) - 1 = k /\ h[k] \in Nat /\ k + 1 \in 0 .. n
    BY <1>4
  <2>2. h[k + 1] = FactorStep(h[k], s[k + 1], b)
    BY <1>2, <2>1
  <2>3. s[k + 1] \in Nat
    BY <2>1
  <2>4. FactorStep(h[k], s[k + 1], b) \in Nat
    BY <2>1, <2>3, FactorStepType
  <2> QED
    BY <2>1, <2>2, <2>4
<1>5. \A k \in 0 .. n : k \in E
  <2> HIDE DEF E
  <2> QED
    BY <1>3, <1>4, InductionUpTo
<1>6. \A k \in 0 .. n : h[k] \in Nat
  BY <1>5
<1>7. h \in [0 .. n -> Nat]
  BY <1>2, <1>6
<1> QED
  BY <1>2, <1>7 DEF PowersWent

LEMMA HashIsFold ==
  ASSUME NEW s \in Seq(Nat), NEW b \in Nat, NEW n \in Nat, n = Len(s)
  PROVE  \E h \in [0 .. n -> Nat] :
           h[0] = 0 /\ (\A k \in 1 .. n : h[k] = HashStep(h[k - 1], s[k], b)) /\ H!Hash(s, b) = h[n]
<1>0. n = Len(s)
  OBVIOUS
<1> DEFINE h == CHOOSE f : IsHashing(f, s, b)
<1>1. H!Hash(s, b) = h[Len(s)]
  BY Zenon DEF H!Hash, H!FoldLeft, IsHashing, HashStep
<1> HIDE DEF h
<1>2. h = CHOOSE f : IsHashing(f, s, b)
  BY DEF h
<1>3. h \in [0 .. n -> Nat] /\ h[0] = 0 /\ \A k \in 1 .. n : h[k] = HashStep(h[k - 1], s[k], b)
  <2>1. HashingWent(h, s, n, b)
    BY <1>0, <1>2, HashingRuns
  <2> QED
    BY <2>1 DEF HashingWent
<1> QED
  BY <1>0, <1>1, <1>3

LEMMA FactorIsFold ==
  ASSUME NEW w \in Nat \ {0}, NEW b \in Nat
  PROVE  \E h \in [0 .. w - 1 -> Nat] :
           h[0] = 1 /\ (\A k \in 1 .. w - 1 : h[k] = FactorStep(h[k - 1], k, b)) /\ H!Factor(w, b) = h[w - 1]
<1>0. PICK n \in Nat : n = w - 1
  OBVIOUS
<1>1. PICK s \in Seq(Nat) : s = [i \in 1 .. w - 1 |-> i] /\ n = Len(s) /\ \A k \in 1 .. n : s[k] = k
  <2>1. [i \in 1 .. n |-> i] \in Seq(Nat) /\ Len([i \in 1 .. n |-> i]) = n
    OBVIOUS
  <2>2. \A k \in 1 .. n : [i \in 1 .. n |-> i][k] = k
    OBVIOUS
  <2> QED
    BY <1>0, <2>1, <2>2
<1> DEFINE h == CHOOSE f : IsPowers(f, s, b)
<1>2. H!Factor(w, b) = h[Len(s)]
  BY Zenon, <1>1 DEF H!Factor, H!FoldLeft, IsPowers, FactorStep
<1> HIDE DEF h
<1>3. h = CHOOSE f : IsPowers(f, s, b)
  BY DEF h
<1>4. h \in [0 .. n -> Nat] /\ h[0] = 1 /\ \A k \in 1 .. n : h[k] = FactorStep(h[k - 1], s[k], b)
  <2>1. PowersWent(h, s, n, b)
    BY <1>1, <1>3, PowersRuns
  <2> QED
    BY <2>1 DEF PowersWent
<1> QED
  BY <1>0, <1>1, <1>2, <1>4

LEMMA HashStepCongruent ==
  ASSUME NEW v \in Nat, NEW x \in Nat, NEW b \in Nat
  PROVE  Congruent(HashStep(v, x, b), v * b + x) /\ HashStep(v, x, b) \in Nat
<1>1. PICK c \in Int : c = v * b + x
  OBVIOUS
<1>2. Congruent(c % Modulus, c)
  BY RemainderCongruent
<1> QED
  BY <1>1, <1>2, HashStepType DEF HashStep

LEMMA FactorStepCongruent ==
  ASSUME NEW v \in Nat, NEW x \in Nat, NEW b \in Nat
  PROVE  Congruent(FactorStep(v, x, b), v * b) /\ FactorStep(v, x, b) \in Nat
<1>1. PICK c \in Int : c = v * b
  OBVIOUS
<1>2. Congruent(c % Modulus, c)
  BY RemainderCongruent
<1> QED
  BY <1>1, <1>2, FactorStepType DEF FactorStep

RollsTo(a, p, z, x, b, c) == ((a - z * p) * b + x) % Modulus = c

\* Both windows go on by the byte x, without the first byte z of the former.
LEMMA RollingStep ==
  ASSUME NEW a \in Nat, NEW p \in Nat, NEW c \in Nat, NEW z \in Nat, NEW x \in Nat, NEW b \in Nat,
         Congruent(a - z * p, c), NEW k \in Nat
  PROVE  /\ Congruent(HashStep(a, x, b) - z * FactorStep(p, k, b), HashStep(c, x, b))
         /\ RollsTo(a, p, z, x, b, HashStep(c, x, b))
<1>1. PICK aa \in Nat, pp \in Nat, cc \in Nat :
        aa = HashStep(a, x, b) /\ pp = FactorStep(p, k, b) /\ cc = HashStep(c, x, b)
  BY HashStepType, FactorStepType
<1>2. PICK ab \in Int, pb \in Int, cb \in Int, e \in Int, eb \in Int, zp \in Int, zpb \in Int :
        ab = a * b + x /\ pb = p * b /\ cb = c * b + x /\ e = a - z * p /\ eb = e * b
        /\ zp = z * pp /\ zpb = pb * z
  OBVIOUS
<1>3. Congruent(aa, ab) /\ Congruent(pp, pb) /\ Congruent(cc, cb)
  BY <1>1, <1>2, HashStepCongruent, FactorStepCongruent
<1>4. Congruent(zp, zpb)
  <2>1. zp = pp * z /\ zpb = pb * z
    BY <1>2
  <2>2. pp \in Int /\ pb \in Int /\ z \in Int
    OBVIOUS
  <2> QED
    BY <1>3, <2>1, <2>2, CongruentProducts, Zenon
<1>5. Congruent(aa - zp, ab - zpb)
  BY <1>3, <1>4, CongruentSums
<1>6. Congruent(eb + x, cb)
  <2>1. PICK c0 \in Int : c0 = c * b
    OBVIOUS
  <2>2. Congruent(e, c)
    BY <1>2
  <2>3. Congruent(eb, c0)
    <3>1. b \in Int /\ c \in Int /\ eb = e * b
      BY <1>2
    <3> QED
      BY <2>1, <2>2, <3>1, CongruentProducts, Zenon
  <2>4. Congruent(x, x)
    BY CongruentItself
  <2>5. Congruent(eb + x, c0 + x)
    BY <2>3, <2>4, CongruentSums
  <2> QED
    BY <1>2, <2>1, <2>5
<1>7. ab - zpb = eb + x
  BY <1>2
<1>8. Congruent(cb, cc)
  BY <1>3, CongruentSymmetric
<1>9. Congruent(aa - zp, cc)
  <2>1. PICK f \in Int, g \in Int : f = aa - zp /\ g = eb + x
    OBVIOUS
  <2>2. Congruent(f, g) /\ Congruent(g, cb)
    BY <1>5, <1>6, <1>7, <2>1
  <2>3. Congruent(f, cb)
    BY <2>2, CongruentTransitive
  <2>4. Congruent(f, cc)
    BY <1>8, <2>3, CongruentTransitive
  <2> QED
    BY <2>1, <2>4
<1>10. (eb + x) % Modulus = cc
  <2>1. PICK g \in Int : g = eb + x
    OBVIOUS
  <2>2. g % Modulus = cb % Modulus
    BY <1>6, <2>1, CongruentRemainders
  <2>3. cb % Modulus = cc
    BY <1>1, <1>2 DEF HashStep
  <2> QED
    BY <2>1, <2>2, <2>3
<1>11. Congruent(HashStep(a, x, b) - z * FactorStep(p, k, b), HashStep(c, x, b))
  BY <1>1, <1>2, <1>9
<1>12. ((a - z * p) * b + x) % Modulus = HashStep(c, x, b)
  BY <1>1, <1>2, <1>10
<1> QED
  BY <1>11, <1>12 DEF RollsTo

LEMMA BytesOfWindow ==
  ASSUME NEW d \in Seq(Nat), NEW w \in Nat \ {0}, NEW i \in Nat \ {0}, i + w - 1 <= Len(d)
  PROVE  SubSeq(d, i, i + w - 1) \in Seq(Nat) /\ Len(SubSeq(d, i, i + w - 1)) = w
         /\ \A n \in 1 .. w : SubSeq(d, i, i + w - 1)[n] = d[i + n - 1]
<1>1. PICK e \in Nat : e = i + w - 1 /\ e <= Len(d)
  OBVIOUS
<1>2. SubSeq(d, i, e) \in Seq(Nat) /\ Len(SubSeq(d, i, e)) = w
  BY <1>1
<1>3. \A n \in 1 .. w : SubSeq(d, i, e)[n] = d[i + n - 1]
  BY <1>1
<1> QED
  BY <1>1, <1>2, <1>3

\* Rolling the hash of a window gives that of the next one.
LEMMA RollIsHash ==
  ASSUME NEW d \in Seq(Nat), NEW w \in Nat \ {0}, NEW b \in Nat, NEW i \in Nat \ {0}, i + w <= Len(d)
  PROVE  H!Roll(H!Hash(SubSeq(d, i, i + w - 1), b), w, b, d[i], d[i + w]) = H!Hash(SubSeq(d, i + 1, i + w), b)
<1>1. PICK s \in Seq(Nat) : s = SubSeq(d, i, i + w - 1) /\ w = Len(s) /\ \A n \in 1 .. w : s[n] = d[i + n - 1]
  <2>1. i + w - 1 <= Len(d)
    OBVIOUS
  <2> QED
    BY <2>1, BytesOfWindow, Zenon
<1>2. PICK t \in Seq(Nat) : t = SubSeq(d, i + 1, i + w) /\ w = Len(t) /\ \A n \in 1 .. w : t[n] = d[i + n]
  <2>1. PICK j \in Nat \ {0} : j = i + 1 /\ j + w - 1 = i + w /\ j + w - 1 <= Len(d)
    OBVIOUS
  <2>2. SubSeq(d, j, j + w - 1) \in Seq(Nat) /\ Len(SubSeq(d, j, j + w - 1)) = w
        /\ \A n \in 1 .. w : SubSeq(d, j, j + w - 1)[n] = d[j + n - 1]
    BY <2>1, BytesOfWindow
  <2>3. \A n \in 1 .. w : j + n - 1 = i + n
    BY <2>1
  <2>4. PICK t : t = SubSeq(d, j, j + w - 1)
    OBVIOUS
  <2>5. t \in Seq(Nat) /\ w = Len(t) /\ \A n \in 1 .. w : t[n] = d[i + n]
    BY <2>2, <2>3, <2>4
  <2>6. t = SubSeq(d, i + 1, i + w)
    BY <2>1, <2>4
  <2> QED
    BY <2>5, <2>6, Zenon
<1>3. PICK a \in [0 .. w -> Nat] :
        a[0] = 0 /\ (\A k \in 1 .. w : a[k] = HashStep(a[k - 1], s[k], b)) /\ H!Hash(s, b) = a[w]
  BY <1>1, HashIsFold
<1>4. PICK c \in [0 .. w -> Nat] :
        c[0] = 0 /\ (\A k \in 1 .. w : c[k] = HashStep(c[k - 1], t[k], b)) /\ H!Hash(t, b) = c[w]
  BY <1>2, HashIsFold
<1>5. PICK p \in [0 .. w - 1 -> Nat] :
        p[0] = 1 /\ (\A k \in 1 .. w - 1 : p[k] = FactorStep(p[k - 1], k, b)) /\ H!Factor(w, b) = p[w - 1]
  BY FactorIsFold
<1>7. \A n \in 1 .. w : t[n] \in Nat /\ s[n] \in Nat
  BY <1>1, <1>2
<1>6. PICK z \in Nat : z = d[i] /\ z = s[1]
  <2>1. 1 \in 1 .. w /\ i + 1 - 1 = i
    OBVIOUS
  <2>2. s[1] = d[i + 1 - 1] /\ s[1] \in Nat
    BY <1>1, <1>7, <2>1
  <2> QED
    BY <2>1, <2>2
<1>8. ASSUME NEW n \in 1 .. w - 1 PROVE t[n] = s[n + 1]
  <2>1. n + 1 \in 1 .. w /\ n \in 1 .. w /\ i + (n + 1) - 1 = i + n
    OBVIOUS
  <2> QED
    BY <1>1, <1>2, <2>1
<1> DEFINE E == {n \in 0 .. w - 1 : Congruent(a[n + 1] - z * p[n], c[n])}
<1>9. 0 \in E
  <2>1. 1 \in 1 .. w /\ 1 - 1 = 0 /\ 0 \in 0 .. w - 1
    OBVIOUS
  <2>2. a[1] = HashStep(0, z, b)
    BY <1>3, <1>6, <2>1
  <2>3. PICK v \in Nat : v = a[1]
    <3>1. 1 \in 0 .. w
      OBVIOUS
    <3> QED
      BY <1>3, <3>1
  <2>4. Congruent(v, 0 * b + z)
    BY <2>2, <2>3, HashStepCongruent
  <2>5. 0 * b + z = z /\ z * 1 = z /\ z - z = 0
    OBVIOUS
  <2>6. Congruent(v, z) /\ Congruent(z, z)
    BY <2>4, <2>5, CongruentItself
  <2>7. Congruent(v - z, z - z)
    BY <2>6, CongruentSums
  <2>8. Congruent(a[0 + 1] - z * p[0], c[0])
    BY <1>4, <1>5, <2>3, <2>5, <2>7
  <2> QED
    BY <2>1, <2>8
<1>10. ASSUME NEW n \in 0 .. w - 2, n \in E PROVE n + 1 \in E
  <2>1. n + 1 \in 1 .. w - 1 /\ n + 1 \in 1 .. w /\ n + 2 \in 1 .. w /\ (n + 1) - 1 = n /\ (n + 2) - 1 = n + 1
        /\ n \in 0 .. w - 1 /\ n \in 0 .. w /\ n + 1 \in 0 .. w /\ (n + 1) + 1 = n + 2
    OBVIOUS
  <2>2. PICK u \in Nat, q \in Nat, v \in Nat, x \in Nat :
          u = a[n + 1] /\ q = p[n] /\ v = c[n] /\ x = t[n + 1] /\ x = s[n + 2]
    BY <1>3, <1>4, <1>5, <1>7, <1>8, <2>1
  <2>3. Congruent(u - z * q, v)
    BY <1>10, <2>2
  <2>4. a[n + 2] = HashStep(u, x, b) /\ c[n + 1] = HashStep(v, x, b)
    BY <1>3, <1>4, <2>1, <2>2
  <2>5. p[n + 1] = FactorStep(q, n + 1, b)
    BY <1>5, <2>1, <2>2
  <2>6. n + 1 \in Nat
    OBVIOUS
  <2>7. Congruent(HashStep(u, x, b) - z * FactorStep(q, n + 1, b), HashStep(v, x, b))
    BY <2>3, <2>6, RollingStep
  <2>8. Congruent(a[(n + 1) + 1] - z * p[n + 1], c[n + 1])
    BY <2>1, <2>4, <2>5, <2>7
  <2>9. n + 1 \in 0 .. w - 1
    OBVIOUS
  <2> QED
    BY <2>8, <2>9
<1>11. w - 1 \in E
  <2> HIDE DEF E
  <2>1. PICK m \in Nat : m = w - 1 /\ m - 1 = w - 2
    OBVIOUS
  <2>2. \A k \in 0 .. m : k \in E
    BY <1>9, <1>10, <2>1, InductionUpTo
  <2> QED
    BY <2>1, <2>2
<1>12. PICK u \in Nat, q \in Nat, v \in Nat, x \in Nat :
         u = a[w] /\ q = p[w - 1] /\ v = c[w - 1] /\ x = t[w] /\ x = d[i + w]
  <2>1. w \in 1 .. w /\ w - 1 \in 0 .. w - 1 /\ w - 1 \in 0 .. w /\ w \in 0 .. w
    OBVIOUS
  <2> QED
    BY <1>2, <1>3, <1>4, <1>5, <1>7, <2>1
<1>13. Congruent(u - z * q, v)
  <2>1. (w - 1) + 1 = w
    OBVIOUS
  <2> QED
    BY <1>11, <1>12, <2>1
<1>14. RollsTo(u, q, z, x, b, HashStep(v, x, b))
  <2>1. 0 \in Nat
    OBVIOUS
  <2> QED
    BY <1>13, <2>1, RollingStep
<1>15. c[w] = HashStep(v, x, b)
  <2>1. w \in 1 .. w
    OBVIOUS
  <2> QED
    BY <1>4, <1>12, <2>1
<1>16. H!Roll(H!Hash(s, b), w, b, d[i], d[i + w]) = ((u - z * q) * b + x) % Modulus
  BY <1>3, <1>5, <1>6, <1>12, Zenon DEF H!Roll
<1> QED
  BY <1>1, <1>2, <1>4, <1>14, <1>15, <1>16, Zenon DEF RollsTo

\* One window more.
CollectStep(v, x, d, w, b) == Append(v, H!Roll(v[Len(v)], w, b, d[x], d[x + w]))

Hashings == Seq(Nat) \ {<<>>}

LEMMA RollType ==
  ASSUME NEW v \in Nat, NEW w \in Nat \ {0}, NEW b \in Nat, NEW t \in Nat, NEW x \in Nat
  PROVE  H!Roll(v, w, b, t, x) \in Nat
<1>1. PICK q \in Nat : q = H!Factor(w, b)
  <2>1. w - 1 \in 0 .. w - 1
    OBVIOUS
  <2> QED
    BY <2>1, FactorIsFold
<1>2. PICK c \in Int : c = (v - t * q) * b + x
  OBVIOUS
<1>3. c % Modulus \in Nat
  BY RemainderCongruent, ModulusIsEven
<1>4. H!Roll(v, w, b, t, x) = c % Modulus
  BY <1>1, <1>2, Zenon DEF H!Roll
<1> QED
  BY <1>3, <1>4

LEMMA CollectStepType ==
  \A d \in Seq(Nat), w \in Nat \ {0}, b \in Nat, v \in Hashings : \A x \in 1 .. Len(d) - w :
    CollectStep(v, x, d, w, b) \in Hashings
<1>1. ASSUME NEW d \in Seq(Nat), NEW w \in Nat \ {0}, NEW b \in Nat, NEW v \in Hashings, NEW x \in 1 .. Len(d) - w
      PROVE  CollectStep(v, x, d, w, b) \in Hashings
  <2>1. v \in Seq(Nat) /\ v[Len(v)] \in Nat
    <3>1. v \in Seq(Nat) /\ v # <<>>
      BY DEF Hashings
    <3>2. Len(v) \in 1 .. Len(v)
      BY <3>1
    <3> QED
      BY <3>1, <3>2
  <2>2. d[x] \in Nat /\ d[x + w] \in Nat
    <3>1. x \in 1 .. Len(d) /\ x + w \in 1 .. Len(d)
      OBVIOUS
    <3> QED
      BY <3>1
  <2>3. PICK r \in Nat : r = H!Roll(v[Len(v)], w, b, d[x], d[x + w])
    BY <2>1, <2>2, RollType
  <2>4. Append(v, r) \in Seq(Nat) /\ Append(v, r) # <<>>
    <3>1. PICK n \in Nat : n = Len(v)
      BY <2>1
    <3>2. Append(v, r) \in Seq(Nat) /\ Len(Append(v, r)) = n + 1
      BY <2>1, <3>1
    <3>3. n + 1 # 0 /\ Len(<<>>) = 0
      OBVIOUS
    <3> QED
      BY <3>2, <3>3
  <2> QED
    BY <2>3, <2>4 DEF CollectStep, Hashings
<1> QED
  BY <1>1

IsCollecting(f, s, a, d, w, b) ==
  f = [k \in 0 .. Len(s) |-> IF k = 0 THEN a ELSE CollectStep(f[k - 1], s[k], d, w, b)]

CollectingGoes(h, s, n, a, d, w, b) ==
  h = [k \in 0 .. n |-> h[k]] /\ h[0] = a /\ \A k \in 1 .. n : h[k] = CollectStep(h[k - 1], s[k], d, w, b)

CollectingWent(h, s, n, a, d, w, b) ==
  h \in [0 .. n -> Hashings] /\ h[0] = a /\ \A k \in 1 .. n : h[k] = CollectStep(h[k - 1], s[k], d, w, b)

LEMMA CollectingEquations ==
  ASSUME NEW n \in Nat, NEW s, Len(s) = n, NEW a, NEW d, NEW w, NEW b, NEW h, IsCollecting(h, s, a, d, w, b)
  PROVE  CollectingGoes(h, s, n, a, d, w, b)
<1> DEFINE f == [k \in 0 .. n |-> IF k = 0 THEN a ELSE CollectStep(h[k - 1], s[k], d, w, b)]
<1>1. ASSUME NEW k \in 0 .. n PROVE f[k] = IF k = 0 THEN a ELSE CollectStep(h[k - 1], s[k], d, w, b)
  OBVIOUS
<1>2. f = [k \in 0 .. n |-> f[k]]
  OBVIOUS
<1>3. h = f
  BY Zenon DEF IsCollecting
<1> HIDE DEF f
<1>4. 0 \in 0 .. n /\ \A k \in 1 .. n : k \in 0 .. n /\ k # 0
  OBVIOUS
<1> QED
  BY <1>1, <1>2, <1>3, <1>4 DEF CollectingGoes

LEMMA CollectingExists ==
  ASSUME NEW a \in Hashings, NEW d \in Seq(Nat), NEW w \in Nat \ {0}, NEW b \in Nat,
         NEW s \in Seq(1 .. Len(d) - w)
  PROVE  \E f : IsCollecting(f, s, a, d, w, b)
<1>0. PICK n \in Nat : n = Len(s)
  OBVIOUS
<1> DEFINE g == [p \in (1 .. n) \X Hashings |-> CollectStep(p[2], s[p[1]], d, w, b)]
<1>1. ASSUME NEW k \in 1 .. n, NEW v \in Hashings
      PROVE  g[<<k, v>>] = CollectStep(v, s[k], d, w, b) /\ CollectStep(v, s[k], d, w, b) \in Hashings
  <2>1. s[k] \in 1 .. Len(d) - w
    BY <1>0
  <2>2. CollectStep(v, s[k], d, w, b) \in Hashings
    BY <2>1, CollectStepType
  <2> QED
    BY <2>2
<1>2. g \in [(1 .. n) \X Hashings -> Hashings]
  BY <1>1
<1>3. a \in Hashings
  BY CollectStepType
<1> HIDE DEF g
<1>a. PICK f : IsSequel(f, n, Hashings, a, g)
  BY <1>2, <1>3, PrimitiveRecursion, Zenon
<1>4. f \in [0 .. n -> Hashings] /\ f[0] = a /\ \A k \in 1 .. n : f[k] = g[<<k, f[k - 1]>>]
  BY <1>a, Zenon DEF IsSequel
<1>5. ASSUME NEW k \in 0 .. n PROVE f[k] = IF k = 0 THEN a ELSE CollectStep(f[k - 1], s[k], d, w, b)
  <2>1. CASE k = 0
    BY <1>4, <2>1
  <2>2. CASE k # 0
    <3>1. k \in 1 .. n /\ k - 1 \in 0 .. n
      BY <2>2
    <3>2. f[k - 1] \in Hashings /\ f[k] = g[<<k, f[k - 1]>>]
      BY <1>4, <3>1
    <3> QED
      BY <1>1, <2>2, <3>1, <3>2
  <2> QED
    BY <2>1, <2>2
<1>6. f = [k \in 0 .. n |-> f[k]]
  BY <1>4
<1> QED
  BY <1>0, <1>5, <1>6 DEF IsCollecting

LEMMA CollectingRuns ==
  ASSUME NEW a \in Hashings, NEW d \in Seq(Nat), NEW w \in Nat \ {0}, NEW b \in Nat,
         NEW s \in Seq(1 .. Len(d) - w), NEW n \in Nat, n = Len(s),
         NEW h, h = CHOOSE f : IsCollecting(f, s, a, d, w, b)
  PROVE  CollectingWent(h, s, n, a, d, w, b)
<1>1. IsCollecting(h, s, a, d, w, b)
  BY CollectingExists, Zenon
<1>2. h = [k \in 0 .. n |-> h[k]] /\ h[0] = a /\ \A k \in 1 .. n : h[k] = CollectStep(h[k - 1], s[k], d, w, b)
  <2>1. Len(s) = n
    OBVIOUS
  <2>2. CollectingGoes(h, s, n, a, d, w, b)
    BY <1>1, <2>1, CollectingEquations
  <2> QED
    BY <2>2 DEF CollectingGoes
<1> DEFINE E == {k \in 0 .. n : h[k] \in Hashings}
<1>3. 0 \in E
  BY <1>2, CollectStepType
<1>4. ASSUME NEW k \in 0 .. n - 1, k \in E PROVE k + 1 \in E
  <2>1. k + 1 \in 1 .. n /\ (k + 1) - 1 = k /\ h[k] \in Hashings /\ k + 1 \in 0 .. n
    BY <1>4
  <2>2. h[k + 1] = CollectStep(h[k], s[k + 1], d, w, b)
    BY <1>2, <2>1
  <2>3. s[k + 1] \in 1 .. Len(d) - w
    BY <2>1
  <2>4. CollectStep(h[k], s[k + 1], d, w, b) \in Hashings
    BY <2>1, <2>3, CollectStepType
  <2> QED
    BY <2>1, <2>2, <2>4
<1>5. \A k \in 0 .. n : k \in E
  <2> HIDE DEF E
  <2> QED
    BY <1>3, <1>4, InductionUpTo
<1>6. \A k \in 0 .. n : h[k] \in Hashings
  BY <1>5
<1>7. h \in [0 .. n -> Hashings]
  BY <1>2, <1>6
<1> QED
  BY <1>2, <1>7 DEF CollectingWent

WindowHash(d, w, b, k) == H!Hash(SubSeq(d, k, k + w - 1), b)

\* arr holds the hashes of the first windows.
Collected(arr, d, w, b, m) == Len(arr) = m /\ \A k \in 1 .. m : arr[k] = WindowHash(d, w, b, k)

LEMMA WindowHashType ==
  ASSUME NEW d \in Seq(Nat), NEW w \in Nat \ {0}, NEW b \in Nat, NEW k \in Nat \ {0}, k + w - 1 <= Len(d)
  PROVE  WindowHash(d, w, b, k) \in Nat
<1>1. PICK s \in Seq(Nat) : s = SubSeq(d, k, k + w - 1) /\ w = Len(s)
  BY BytesOfWindow, Zenon
<1>2. w \in Nat /\ w \in 0 .. w
  OBVIOUS
<1>3. PICK h \in [0 .. w -> Nat] :
        h[0] = 0 /\ (\A n \in 1 .. w : h[n] = HashStep(h[n - 1], s[n], b)) /\ H!Hash(s, b) = h[w]
  BY <1>1, <1>2, HashIsFold
<1>4. H!Hash(s, b) \in Nat
  BY <1>2, <1>3
<1> QED
  BY <1>1, <1>4 DEF WindowHash

LEMMA CollectedGrows ==
  ASSUME NEW d \in Seq(Nat), NEW w \in Nat \ {0}, NEW b \in Nat, NEW i \in 1 .. Len(d) - w,
         NEW arr \in Hashings, Collected(arr, d, w, b, i)
  PROVE  Collected(CollectStep(arr, i, d, w, b), d, w, b, i + 1)
<1>1. arr \in Seq(Nat) /\ Len(arr) = i /\ \A k \in 1 .. i : arr[k] = WindowHash(d, w, b, k)
  BY DEF Collected, Hashings
<1>2. i \in Nat \ {0} /\ i + w <= Len(d) /\ i \in 1 .. i
  OBVIOUS
<1>3. PICK r \in Nat : r = WindowHash(d, w, b, i + 1)
  <2>1. i + 1 \in Nat \ {0} /\ (i + 1) + w - 1 <= Len(d)
    BY <1>2
  <2> QED
    BY <2>1, WindowHashType
<1>4. H!Roll(arr[Len(arr)], w, b, d[i], d[i + w]) = r
  <2>1. arr[Len(arr)] = H!Hash(SubSeq(d, i, i + w - 1), b)
    BY <1>1, <1>2 DEF WindowHash
  <2>2. r = H!Hash(SubSeq(d, i + 1, i + w), b)
    <3>1. (i + 1) + w - 1 = i + w
      OBVIOUS
    <3> QED
      BY <1>3, <3>1 DEF WindowHash
  <2>3. i \in Nat \ {0} /\ i + w <= Len(d)
    BY <1>2
  <2>4. H!Roll(H!Hash(SubSeq(d, i, i + w - 1), b), w, b, d[i], d[i + w]) = H!Hash(SubSeq(d, i + 1, i + w), b)
    BY <2>3, RollIsHash
  <2> QED
    BY <2>1, <2>2, <2>4, Zenon
<1>5. CollectStep(arr, i, d, w, b) = Append(arr, r)
  BY <1>4 DEF CollectStep
<1>6. Len(Append(arr, r)) = i + 1 /\ Append(arr, r)[i + 1] = r /\ \A k \in 1 .. i : Append(arr, r)[k] = arr[k]
  BY <1>1
<1>7. ASSUME NEW k \in 1 .. i + 1 PROVE Append(arr, r)[k] = WindowHash(d, w, b, k)
  <2>1. k = i + 1 \/ k \in 1 .. i
    OBVIOUS
  <2> QED
    BY <1>1, <1>3, <1>6, <2>1
<1> QED
  BY <1>5, <1>6, <1>7 DEF Collected

\* The hashes that diag-hash collects are those of all windows.
LEMMA CollectHashesWindows ==
  ASSUME NEW d \in Seq(Nat), NEW w \in Nat \ {0}, NEW b \in Nat, w <= Len(d)
  PROVE  H!Collect(d, w, b) \in Seq(Nat) /\ Collected(H!Collect(d, w, b), d, w, b, Len(d) - w + 1)
<1>1. PICK n \in Nat : n = Len(d) - w
  OBVIOUS
<1>2. PICK s \in Seq(1 .. n) : s = [i \in 1 .. Len(d) - w |-> i] /\ n = Len(s) /\ \A k \in 1 .. n : s[k] = k
  <2>1. [i \in 1 .. n |-> i] \in Seq(1 .. n) /\ Len([i \in 1 .. n |-> i]) = n
    OBVIOUS
  <2>2. \A k \in 1 .. n : [i \in 1 .. n |-> i][k] = k
    OBVIOUS
  <2> QED
    BY <1>1, <2>1, <2>2
<1>3. PICK a \in Hashings : a = <<H!Hash(SubSeq(d, 1, w), b)>> /\ Collected(a, d, w, b, 1)
  <2>1. 1 \in Nat \ {0} /\ 1 + w - 1 <= Len(d) /\ 1 + w - 1 = w
    OBVIOUS
  <2>2. PICK r \in Nat : r = WindowHash(d, w, b, 1)
    BY <2>1, WindowHashType
  <2>3. r = H!Hash(SubSeq(d, 1, w), b)
    BY <2>1, <2>2 DEF WindowHash
  <2>4. <<r>> \in Seq(Nat) /\ <<r>> # <<>> /\ Len(<<r>>) = 1 /\ \A k \in 1 .. 1 : k = 1 /\ <<r>>[k] = r
    OBVIOUS
  <2>5. Collected(<<r>>, d, w, b, 1)
    BY <2>2, <2>4 DEF Collected
  <2> QED
    BY <2>3, <2>4, <2>5 DEF Hashings
<1> DEFINE h == CHOOSE f : IsCollecting(f, s, a, d, w, b)
<1>4. H!Collect(d, w, b) = h[Len(s)]
  <2>1. H!Collect(d, w, b) =
          (CHOOSE f : IsCollecting(f, [i \in 1 .. Len(d) - w |-> i], <<H!Hash(SubSeq(d, 1, w), b)>>, d, w, b))
            [Len([i \in 1 .. Len(d) - w |-> i])]
    BY Zenon DEF H!Collect, H!FoldLeft, IsCollecting, CollectStep
  <2> QED
    BY Zenon, <1>2, <1>3, <2>1
<1> HIDE DEF h
<1>5. h = CHOOSE f : IsCollecting(f, s, a, d, w, b)
  BY DEF h
<1>6. h \in [0 .. n -> Hashings] /\ h[0] = a /\ \A k \in 1 .. n : h[k] = CollectStep(h[k - 1], k, d, w, b)
  <2>1. s \in Seq(1 .. Len(d) - w)
    BY <1>1, <1>2
  <2>2. CollectingWent(h, s, n, a, d, w, b)
    BY <1>2, <1>5, <2>1, CollectingRuns
  <2> QED
    BY <1>2, <2>2 DEF CollectingWent
<1> DEFINE E == {k \in 0 .. n : Collected(h[k], d, w, b, k + 1)}
<1>7. 0 \in E
  <2>1. 0 \in 0 .. n /\ 0 + 1 = 1
    OBVIOUS
  <2> QED
    BY <1>3, <1>6, <2>1
<1>8. ASSUME NEW k \in 0 .. n - 1, k \in E PROVE k + 1 \in E
  <2>1. PICK i \in 1 .. n : i = k + 1 /\ i - 1 = k
    OBVIOUS
  <2>2. i \in 1 .. Len(d) - w /\ h[k] \in Hashings /\ Collected(h[k], d, w, b, i)
    BY <1>1, <1>6, <1>8, <2>1
  <2>3. h[i] = CollectStep(h[k], i, d, w, b)
    BY <1>6, <2>1
  <2>4. Collected(h[i], d, w, b, i + 1)
    BY <2>2, <2>3, CollectedGrows
  <2> QED
    BY <2>1, <2>4
<1>9. n \in E
  <2> HIDE DEF E
  <2>1. \A k \in 0 .. n : k \in E
    BY <1>7, <1>8, InductionUpTo
  <2> QED
    BY <2>1
<1>10. h[n] \in Hashings /\ Collected(h[n], d, w, b, n + 1)
  BY <1>6, <1>9
<1> QED
  BY <1>1, <1>2, <1>4, <1>10 DEF Hashings

\* How often x is in s.
Occurs(s, x) == Cardinality({i \in DOMAIN s : s[i] = x})

\* No two elements are too far apart for the comparison of diag-hash.
Near(s) == \A i, j \in 1 .. Len(s) : s[i] - s[j] < Modulus \div 2

Ascends(s) == \A i, j \in 1 .. Len(s) : i <= j => s[i] <= s[j]

LEMMA CmpIsDifference ==
  ASSUME NEW x \in Nat, NEW y \in Nat, x - y < Modulus \div 2, y - x < Modulus \div 2
  PROVE  H!Cmp(x, y) = x - y
<1>1. PICK m \in Nat, h \in Nat : m = Modulus /\ h = Modulus \div 2 /\ m = 2 * h /\ m > 0
  BY ModulusIsEven
<1>2. PICK e \in Int : e = x - y /\ e < h /\ 0 - h < e
  BY <1>1
<1>3. PICK d \in 0 .. m - 1 : d = e % Modulus /\ Congruent(d, e)
  BY <1>1, RemainderCongruent
<1>4. PICK k \in Int : d = e + k * m
  BY <1>1, <1>3 DEF Congruent
<1>5. k = 0 \/ k = 1
  <2>1. CASE k >= 2
    <3>1. k * m >= 2 * m
      BY <1>1, <2>1
    <3> QED
      BY <1>1, <1>2, <1>4, <3>1
  <2>2. CASE k <= 0 - 1
    <3>1. k * m <= (0 - 1) * m
      BY <1>1, <2>2
    <3> QED
      BY <1>1, <1>2, <1>4, <3>1
  <2> QED
    BY <2>1, <2>2
<1>6. IF d < h THEN d = e ELSE d - m = e
  <2>1. d = e \/ d = e + m
    BY <1>4, <1>5
  <2> QED
    BY <1>1, <1>2, <2>1
<1>7. H!Cmp(x, y) = IF d < h THEN d ELSE d - m
  BY <1>1, <1>2, <1>3, Zenon DEF H!Cmp
<1> QED
  BY <1>2, <1>6, <1>7

InOrder(s) ==
  \A x, y, z \in H!ToSet(s) : H!Cmp(x, y) <= 0 /\ H!Cmp(y, z) <= 0 =>
                                H!Cmp(x, z) <= 0 /\ (x # y => H!Cmp(y, x) > 0)

LEMMA NearInOrder ==
  ASSUME NEW s \in Seq(Nat), Near(s)
  PROVE  /\ \A x, y \in H!ToSet(s) : x \in Nat /\ y \in Nat /\ H!Cmp(x, y) = x - y
         /\ InOrder(s)
<1>1. ASSUME NEW x \in H!ToSet(s), NEW y \in H!ToSet(s)
      PROVE  x \in Nat /\ y \in Nat /\ H!Cmp(x, y) = x - y
  <2>1. PICK i \in 1 .. Len(s), j \in 1 .. Len(s) : x = s[i] /\ y = s[j]
    BY DEF H!ToSet
  <2>2. x \in Nat /\ y \in Nat
    BY <2>1
  <2>3. x - y < Modulus \div 2 /\ y - x < Modulus \div 2
    BY <2>1 DEF Near
  <2> QED
    BY <2>2, <2>3, CmpIsDifference
<1>2. ASSUME NEW x \in H!ToSet(s), NEW y \in H!ToSet(s), NEW z \in H!ToSet(s),
             H!Cmp(x, y) <= 0, H!Cmp(y, z) <= 0
      PROVE  H!Cmp(x, z) <= 0 /\ (x # y => H!Cmp(y, x) > 0)
  <2>1. x \in Nat /\ y \in Nat /\ z \in Nat
    BY <1>1
  <2>2. x - y <= 0 /\ y - z <= 0 /\ H!Cmp(x, z) = x - z /\ H!Cmp(y, x) = y - x
    BY <1>1, <1>2
  <2> QED
    BY <2>1, <2>2
<1> QED
  BY <1>1, <1>2 DEF InOrder

LEMMA PlacesFinite ==
  ASSUME NEW V, NEW s \in Seq(V), NEW x
  PROVE  /\ IsFiniteSet({i \in DOMAIN s : s[i] = x}) /\ Occurs(s, x) \in Nat
         /\ \E f : f \in Bijection(1 .. Occurs(s, x), {i \in DOMAIN s : s[i] = x})
<1>1. PICK n \in Nat : n = Len(s) /\ DOMAIN s = 1 .. n
  OBVIOUS
<1>2. IsFiniteSet(1 .. n)
  <2>1. 1 \in Int /\ n \in Int
    OBVIOUS
  <2> QED
    BY <2>1, FS_Interval
<1>3. {i \in DOMAIN s : s[i] = x} \in SUBSET (1 .. n)
  BY <1>1
<1>4. IsFiniteSet({i \in DOMAIN s : s[i] = x})
  BY <1>2, <1>3, FS_Subset
<1> QED
  BY <1>4, FS_CardinalityType, Zenon DEF Occurs, ExistsBijection

\* What the sort leaves of an array, and of one without remote elements.
IsArranging(a, s) ==
  /\ a \in Seq(Nat) /\ Len(a) = Len(s) /\ ToSet(a) = ToSet(s)
  /\ \A x : Occurs(a, x) = Occurs(s, x)

LEMMA SortedArranges ==
  ASSUME NEW s \in Seq(Nat), NEW a \in H!Sorted(s)
  PROVE  IsArranging(a, s)
<1>0. PICK n \in Nat : n = Len(s) /\ DOMAIN s = 1 .. n
  OBVIOUS
<1>1. a \in [DOMAIN s -> H!ToSet(s)] /\ \A x \in H!ToSet(s) : H!Count(a, x) = H!Count(s, x)
  BY Zenon DEF H!Sorted
<1>2. a \in Seq(Nat) /\ Len(a) = n /\ DOMAIN a = 1 .. n /\ \A i \in 1 .. n : a[i] \in H!ToSet(s)
  <2>1. \A x \in H!ToSet(s) : x \in Nat
    BY <1>0 DEF H!ToSet
  <2>2. a \in [1 .. n -> Nat]
    BY <1>0, <1>1, <2>1
  <2> QED
    BY <1>0, <1>1, <2>2
<1>3. ASSUME NEW x PROVE Occurs(a, x) = Occurs(s, x)
  <2>1. CASE x \in H!ToSet(s)
    <3>1. H!Count(a, x) = H!Count(s, x)
      BY <1>1, <2>1
    <3>2. H!Count(a, x) = Occurs(a, x)
      BY Zenon DEF H!Count, Occurs, H!Cardinality, Cardinality
    <3>3. H!Count(s, x) = Occurs(s, x)
      BY Zenon DEF H!Count, Occurs, H!Cardinality, Cardinality
    <3> QED
      BY <3>1, <3>2, <3>3
  <2>2. CASE x \notin H!ToSet(s)
    <3>1. {i \in DOMAIN a : a[i] = x} = {}
      BY <1>2, <2>2
    <3>2. {i \in DOMAIN s : s[i] = x} = {}
      BY <2>2 DEF H!ToSet
    <3> QED
      BY <3>1, <3>2, Zenon DEF Occurs
  <2> QED
    BY <2>1, <2>2
<1>4. ASSUME NEW x \in ToSet(s) PROVE x \in ToSet(a)
  <2>1. PICK j \in DOMAIN s : s[j] = x
    BY <1>4 DEF ToSet
  <2>2. Occurs(s, x) # 0
    <3>1. IsFiniteSet({i \in DOMAIN s : s[i] = x})
      BY PlacesFinite
    <3>2. {i \in DOMAIN s : s[i] = x} # {}
      BY <2>1
    <3> QED
      BY <3>1, <3>2, FS_EmptySet, Zenon DEF Occurs
  <2>3. {i \in DOMAIN a : a[i] = x} # {}
    <3>1. Occurs(a, x) # 0
      BY <1>3, <2>2
    <3>2. Cardinality({}) = 0
      BY FS_EmptySet
    <3>3. ASSUME {i \in DOMAIN a : a[i] = x} = {} PROVE FALSE
      <4>1. Occurs(a, x) = Cardinality({})
        BY <3>3 DEF Occurs
      <4> QED
        BY <3>1, <3>2, <4>1
    <3> QED
      BY <3>3
  <2> QED
    BY <2>3 DEF ToSet
<1>5. ToSet(a) \subseteq ToSet(s)
  BY <1>2 DEF ToSet, H!ToSet
<1> QED
  BY <1>0, <1>2, <1>3, <1>4, <1>5 DEF IsArranging

LEMMA SortedAscends ==
  ASSUME NEW s \in Seq(Nat), Near(s), NEW a \in H!Sorted(s)
  PROVE  Ascends(a)
<1>0. PICK n \in Nat : n = Len(s) /\ DOMAIN s = 1 .. n
  OBVIOUS
<1>1. /\ a \in [DOMAIN s -> H!ToSet(s)]
      /\ InOrder(s) => \A i \in 1 .. Len(a) - 1 : H!Cmp(a[i], a[i + 1]) <= 0
  BY Zenon DEF H!Sorted, InOrder
<1>2. a \in Seq(Nat) /\ Len(a) = n /\ DOMAIN a = 1 .. n /\ \A i \in 1 .. n : a[i] \in H!ToSet(s)
  <2>1. \A x \in H!ToSet(s) : x \in Nat
    BY NearInOrder
  <2>2. a \in [1 .. n -> Nat]
    BY <1>0, <1>1, <2>1
  <2> QED
    BY <1>0, <1>1, <2>2
<1>3. \A i \in 1 .. n - 1 : a[i] <= a[i + 1]
  <2> SUFFICES ASSUME NEW i \in 1 .. n - 1 PROVE a[i] <= a[i + 1]
    OBVIOUS
  <2>1. i \in 1 .. n /\ i + 1 \in 1 .. n
    BY <1>0
  <2>2. H!Cmp(a[i], a[i + 1]) <= 0
    BY <1>1, <1>2, NearInOrder
  <2>3. a[i] \in H!ToSet(s) /\ a[i + 1] \in H!ToSet(s)
    BY <1>2, <2>1
  <2>4. H!Cmp(a[i], a[i + 1]) = a[i] - a[i + 1] /\ a[i] \in Nat /\ a[i + 1] \in Nat
    BY <2>3, NearInOrder
  <2> QED
    BY <2>2, <2>4
<1>4. Ascends(a)
  <2> SUFFICES ASSUME NEW i \in 1 .. n, NEW j \in 1 .. n, i <= j PROVE a[i] <= a[j]
    BY <1>2 DEF Ascends
  <2> DEFINE E == {k \in 0 .. n - i : a[i] <= a[i + k]}
  <2>1. 0 \in E
    <3>1. a[i] \in Nat /\ i + 0 = i /\ 0 \in 0 .. n - i
      BY <1>0, <1>2
    <3> QED
      BY <3>1
  <2>2. ASSUME NEW k \in 0 .. n - i - 1, k \in E PROVE k + 1 \in E
    <3>1. i + k \in 1 .. n - 1 /\ i + (k + 1) = (i + k) + 1 /\ i + k \in 1 .. n /\ (i + k) + 1 \in 1 .. n
          /\ k + 1 \in 0 .. n - i
      BY <1>0, <2>2
    <3>2. a[i] <= a[i + k] /\ a[i + k] <= a[(i + k) + 1]
      BY <1>3, <2>2, <3>1
    <3>3. a[i] \in Nat /\ a[i + k] \in Nat /\ a[(i + k) + 1] \in Nat
      BY <1>2, <3>1
    <3>4. a[i] <= a[(i + k) + 1]
      BY <3>2, <3>3
    <3> QED
      BY <3>1, <3>4
  <2>3. PICK l \in Nat : l = j - i /\ l \in 0 .. n - i
    OBVIOUS
  <2>4. l \in E
    <3> HIDE DEF E
    <3>1. PICK m \in Nat : m = n - i
      OBVIOUS
    <3>2. \A k \in 0 .. m : k \in E
      BY <2>1, <2>2, <3>1, InductionUpTo
    <3> QED
      BY <2>3, <3>1, <3>2
  <2>5. i + l = j
    BY <2>3
  <2> QED
    BY <2>4, <2>5
<1> QED
  BY <1>4

\* Where x is in s from the i-th element on, and how often.
Spots(s, i, x) == {l \in DOMAIN s : l >= i /\ s[l] = x}
Ahead(s, i, x) == Cardinality(Spots(s, i, x))

LEMMA AheadType ==
  ASSUME NEW s \in Seq(Nat), NEW i \in Nat \ {0}, NEW x
  PROVE  /\ IsFiniteSet(Spots(s, i, x)) /\ Ahead(s, i, x) \in Nat /\ Ahead(s, i, x) <= Len(s)
         /\ i > Len(s) => Ahead(s, i, x) = 0
<1>1. PICK n \in Nat : n = Len(s) /\ DOMAIN s = 1 .. n
  OBVIOUS
<1>2. IsFiniteSet(1 .. n) /\ Cardinality(1 .. n) = n
  <2>1. 1 \in Int /\ n \in Int /\ (IF 1 > n THEN 0 ELSE n - 1 + 1) = n
    OBVIOUS
  <2> QED
    BY <2>1, FS_Interval
<1>3. Spots(s, i, x) \in SUBSET (1 .. n)
  BY <1>1 DEF Spots
<1>4. IsFiniteSet(Spots(s, i, x)) /\ Cardinality(Spots(s, i, x)) <= n
  BY <1>2, <1>3, FS_Subset
<1>5. Cardinality(Spots(s, i, x)) \in Nat
  BY <1>4, FS_CardinalityType
<1>6. ASSUME i > n PROVE Cardinality(Spots(s, i, x)) = 0
  <2>1. Spots(s, i, x) = {}
    BY <1>1, <1>6 DEF Spots
  <2> QED
    BY <2>1, FS_EmptySet
<1> QED
  BY <1>1, <1>4, <1>5, <1>6 DEF Ahead

LEMMA AheadSteps ==
  ASSUME NEW s \in Seq(Nat), NEW i \in 1 .. Len(s)
  PROVE  /\ Ahead(s, i, s[i]) = Ahead(s, i + 1, s[i]) + 1
         /\ \A x : x # s[i] => Ahead(s, i, x) = Ahead(s, i + 1, x)
<1>1. PICK n \in Nat : n = Len(s) /\ DOMAIN s = 1 .. n
  OBVIOUS
<1>2. i \in Nat \ {0} /\ i + 1 \in Nat \ {0} /\ i \in 1 .. n
  BY <1>1
<1>3. Ahead(s, i, s[i]) = Ahead(s, i + 1, s[i]) + 1
  <2>1. PICK x : x = s[i]
    OBVIOUS
  <2>2. Spots(s, i, x) = Spots(s, i + 1, x) \cup {i}
    <3>1. ASSUME NEW l PROVE l \in Spots(s, i, x) <=> l \in Spots(s, i + 1, x) \cup {i}
      <4>1. l \in 1 .. n => (l >= i <=> l >= i + 1 \/ l = i)
        BY <1>2
      <4> QED
        BY <1>1, <1>2, <2>1, <4>1 DEF Spots
    <3> QED
      BY <3>1
  <2>3. i \notin Spots(s, i + 1, x)
    BY <1>2 DEF Spots
  <2>4. IsFiniteSet(Spots(s, i + 1, x))
    BY <1>2, AheadType
  <2>5. Cardinality(Spots(s, i + 1, x) \cup {i}) = Cardinality(Spots(s, i + 1, x)) + 1
    BY <2>3, <2>4, FS_AddElement
  <2> QED
    BY <2>1, <2>2, <2>5 DEF Ahead
<1>4. ASSUME NEW x, x # s[i] PROVE Ahead(s, i, x) = Ahead(s, i + 1, x)
  <2>1. ASSUME NEW l PROVE l \in Spots(s, i, x) <=> l \in Spots(s, i + 1, x)
    <3>1. l \in 1 .. n => (l >= i <=> l >= i + 1 \/ l = i)
      BY <1>2
    <3> QED
      BY <1>1, <1>2, <1>4, <3>1 DEF Spots
  <2>2. Spots(s, i, x) = Spots(s, i + 1, x)
    BY <2>1
  <2> QED
    BY <2>2 DEF Ahead
<1> QED
  BY <1>3, <1>4

LEMMA NoneAhead ==
  ASSUME NEW s \in Seq(Nat), Ascends(s), NEW i \in 1 .. Len(s), NEW x \in Nat, x < s[i]
  PROVE  Ahead(s, i, x) = 0
<1>1. ASSUME NEW l \in Spots(s, i, x) PROVE FALSE
  <2>1. l \in 1 .. Len(s) /\ l >= i /\ s[l] = x
    BY DEF Spots
  <2>2. s[i] <= s[l] /\ s[i] \in Nat
    BY <2>1 DEF Ascends
  <2> QED
    BY <2>1, <2>2
<1>2. Spots(s, i, x) = {}
  BY <1>1
<1> QED
  BY <1>2, FS_EmptySet DEF Ahead

\* The words that are still to match, numbered when they are equal.
Pairs(V, m) == V \X (1 .. m)
InBoth(p, q, i, j, V, m) == {c \in Pairs(V, m) : c[2] <= Ahead(p, i, c[1]) /\ c[2] <= Ahead(q, j, c[1])}
Common(p, q, i, j, V, m) == Cardinality(InBoth(p, q, i, j, V, m))

LEMMA CommonType ==
  ASSUME NEW p, NEW q, NEW i, NEW j, NEW V, IsFiniteSet(V), NEW m \in Nat
  PROVE  IsFiniteSet(InBoth(p, q, i, j, V, m)) /\ Common(p, q, i, j, V, m) \in Nat
<1>1. IsFiniteSet(1 .. m)
  BY FS_Interval
<1>2. IsFiniteSet(Pairs(V, m))
  BY <1>1, FS_Product DEF Pairs
<1>3. InBoth(p, q, i, j, V, m) \in SUBSET Pairs(V, m)
  BY DEF InBoth
<1>4. IsFiniteSet(InBoth(p, q, i, j, V, m))
  BY <1>2, <1>3, FS_Subset
<1>5. Cardinality(InBoth(p, q, i, j, V, m)) \in Nat
  BY <1>4, FS_CardinalityType
<1> QED
  BY <1>4, <1>5 DEF Common

LEMMA CommonEnds ==
  ASSUME NEW p \in Seq(Nat), NEW q \in Seq(Nat), NEW i \in Nat \ {0}, NEW j \in Nat \ {0},
         i > Len(p) \/ j > Len(q), NEW V, NEW m \in Nat
  PROVE  Common(p, q, i, j, V, m) = 0
<1>1. ASSUME NEW c \in InBoth(p, q, i, j, V, m) PROVE FALSE
  <2>1. c[2] \in 1 .. m /\ c[2] <= Ahead(p, i, c[1]) /\ c[2] <= Ahead(q, j, c[1])
    BY DEF InBoth, Pairs
  <2>2. Ahead(p, i, c[1]) = 0 \/ Ahead(q, j, c[1]) = 0
    BY AheadType
  <2> QED
    BY <2>1, <2>2
<1>2. InBoth(p, q, i, j, V, m) = {}
  BY <1>1
<1> QED
  BY <1>2, FS_EmptySet DEF Common

LEMMA CommonPasses ==
  ASSUME NEW p \in Seq(Nat), NEW q \in Seq(Nat), Ascends(q), NEW i \in 1 .. Len(p), NEW j \in 1 .. Len(q),
         p[i] < q[j], NEW V, NEW m \in Nat
  PROVE  /\ Common(p, q, i, j, V, m) = Common(p, q, i + 1, j, V, m)
         /\ Common(q, p, j, i, V, m) = Common(q, p, j, i + 1, V, m)
<1>1. p[i] \in Nat
  OBVIOUS
<1>2. Ahead(q, j, p[i]) = 0
  BY <1>1, NoneAhead
<1>3. ASSUME NEW c \in Pairs(V, m)
      PROVE  /\ c \in InBoth(p, q, i, j, V, m) <=> c \in InBoth(p, q, i + 1, j, V, m)
             /\ c \in InBoth(q, p, j, i, V, m) <=> c \in InBoth(q, p, j, i + 1, V, m)
  <2>1. CASE c[1] = p[i]
    <3>1. c[2] \in 1 .. m
      BY DEF Pairs
    <3>2. ~(c[2] <= Ahead(q, j, c[1]))
      BY <1>2, <2>1, <3>1
    <3> QED
      BY <3>2 DEF InBoth
  <2>2. CASE c[1] # p[i]
    <3>1. Ahead(p, i, c[1]) = Ahead(p, i + 1, c[1])
      BY <2>2, AheadSteps
    <3> QED
      BY <3>1 DEF InBoth
  <2> QED
    BY <2>1, <2>2
<1>4. InBoth(p, q, i, j, V, m) = InBoth(p, q, i + 1, j, V, m)
  BY <1>3 DEF InBoth
<1>5. InBoth(q, p, j, i, V, m) = InBoth(q, p, j, i + 1, V, m)
  BY <1>3 DEF InBoth
<1> QED
  BY <1>4, <1>5 DEF Common

LEMMA CommonSwaps ==
  ASSUME NEW p, NEW q, NEW i, NEW j, NEW V, NEW m
  PROVE  Common(p, q, i, j, V, m) = Common(q, p, j, i, V, m)
<1>1. InBoth(p, q, i, j, V, m) = InBoth(q, p, j, i, V, m)
  BY DEF InBoth
<1> QED
  BY <1>1 DEF Common

LEMMA CommonMatches ==
  ASSUME NEW p \in Seq(Nat), NEW q \in Seq(Nat), NEW i \in 1 .. Len(p), NEW j \in 1 .. Len(q),
         p[i] = q[j], NEW V, IsFiniteSet(V), p[i] \in V, NEW m \in Nat, m >= Len(p)
  PROVE  Common(p, q, i, j, V, m) = Common(p, q, i + 1, j + 1, V, m) + 1
<1>1. PICK x \in V : x = p[i] /\ x = q[j]
  OBVIOUS
<1>2. i \in Nat \ {0} /\ i + 1 \in Nat \ {0} /\ j + 1 \in Nat \ {0}
  OBVIOUS
<1>3. PICK a \in Nat, b \in Nat : a = Ahead(p, i + 1, x) /\ b = Ahead(q, j + 1, x)
  BY <1>2, AheadType
<1>4. Ahead(p, i, x) = a + 1 /\ Ahead(q, j, x) = b + 1 /\ a + 1 <= m
  <2>1. Ahead(p, i, x) = a + 1
    BY <1>1, <1>3, AheadSteps
  <2>2. Ahead(q, j, x) = b + 1
    BY <1>1, <1>3, AheadSteps
  <2>3. Ahead(p, i, x) <= Len(p)
    BY <1>2, AheadType
  <2> QED
    BY <2>1, <2>2, <2>3
<1>5. PICK k \in 1 .. m : k = (IF a < b THEN a ELSE b) + 1
  BY <1>3, <1>4
<1>6. ASSUME NEW c \in Pairs(V, m)
      PROVE  c \in InBoth(p, q, i, j, V, m) <=> c \in InBoth(p, q, i + 1, j + 1, V, m) \/ c = <<x, k>>
  <2>1. PICK y \in V, l \in 1 .. m : c = <<y, l>> /\ c[1] = y /\ c[2] = l
    BY DEF Pairs
  <2>2. c \in InBoth(p, q, i, j, V, m) <=> l <= Ahead(p, i, y) /\ l <= Ahead(q, j, y)
    BY <2>1 DEF InBoth
  <2>3. c \in InBoth(p, q, i + 1, j + 1, V, m) <=> l <= Ahead(p, i + 1, y) /\ l <= Ahead(q, j + 1, y)
    BY <2>1 DEF InBoth
  <2>4. CASE y = x
    <3>1. c = <<x, k>> <=> l = k
      BY <2>1, <2>4
    <3>2. (l <= a + 1 /\ l <= b + 1) <=> ((l <= a /\ l <= b) \/ l = k)
      <4>1. l \in Nat /\ a \in Nat /\ b \in Nat
        OBVIOUS
      <4>2. (a < b /\ k = a + 1) \/ (a >= b /\ k = b + 1)
        BY <1>5
      <4> QED
        BY <4>1, <4>2
    <3> QED
      BY <1>3, <1>4, <2>2, <2>3, <2>4, <3>1, <3>2
  <2>5. CASE y # x
    <3>1. c # <<x, k>>
      BY <2>1, <2>5
    <3>2. Ahead(p, i, y) = Ahead(p, i + 1, y) /\ Ahead(q, j, y) = Ahead(q, j + 1, y)
      <4>1. y # p[i] /\ y # q[j]
        BY <1>1, <2>5
      <4> QED
        BY <4>1, AheadSteps
    <3> QED
      BY <2>2, <2>3, <3>1, <3>2
  <2> QED
    BY <2>4, <2>5
<1>7. <<x, k>> \in Pairs(V, m) /\ <<x, k>> \notin InBoth(p, q, i + 1, j + 1, V, m)
  <2>1. ~(k <= a /\ k <= b)
    <3>1. a \in Nat /\ b \in Nat
      OBVIOUS
    <3>2. (a < b /\ k = a + 1) \/ (a >= b /\ k = b + 1)
      BY <1>5
    <3> QED
      BY <3>1, <3>2
  <2> QED
    BY <1>3, <1>5, <2>1 DEF Pairs, InBoth
<1>8. InBoth(p, q, i, j, V, m) = InBoth(p, q, i + 1, j + 1, V, m) \cup {<<x, k>>}
  <2>1. \A c : c \in InBoth(p, q, i, j, V, m) => c \in Pairs(V, m)
    BY DEF InBoth
  <2>2. \A c : c \in InBoth(p, q, i + 1, j + 1, V, m) => c \in Pairs(V, m)
    BY DEF InBoth
  <2> QED
    BY <1>6, <1>7, <2>1, <2>2
<1>9. IsFiniteSet(InBoth(p, q, i + 1, j + 1, V, m))
  BY CommonType
<1>10. Cardinality(InBoth(p, q, i + 1, j + 1, V, m) \cup {<<x, k>>})
       = Cardinality(InBoth(p, q, i + 1, j + 1, V, m)) + 1
  BY <1>7, <1>9, FS_AddElement
<1> QED
  BY <1>8, <1>10 DEF Common

\* The states of the merge, where it starts, and its run.
Turns(p, q) == [i : 1 .. Len(p) + 1, j : 1 .. Len(q) + 1, hash32 : Nat, hash32_rev : Nat]

Start == [i |-> 1, j |-> 1, hash32 |-> 0, hash32_rev |-> 0]

IsMerging(f, n, p, q) == f = [k \in 0 .. n |-> IF k = 0 THEN Start ELSE H!MergeTurn(p, q, f[k - 1])]

Merged(h, n, p, q) ==
  h \in [0 .. n -> Turns(p, q)] /\ h[0] = Start /\ \A k \in 1 .. n : h[k] = H!MergeTurn(p, q, h[k - 1])

LEMMA StartType ==
  ASSUME NEW p \in Seq(Nat), NEW q \in Seq(Nat)
  PROVE  Start \in Turns(p, q)
<1>1. 1 \in 1 .. Len(p) + 1 /\ 1 \in 1 .. Len(q) + 1 /\ 0 \in Nat
  OBVIOUS
<1> QED
  BY <1>1 DEF Start, Turns

\* What one turn leads to.
TurnsTo(p, q, s, i, j, a, b) ==
  H!MergeTurn(p, q, s) = [i |-> i, j |-> j, hash32 |-> a, hash32_rev |-> b]

TurnChoice(p, q, s, i, j, a, b) ==
  \/ p[i] < q[j] /\ TurnsTo(p, q, s, i + 1, j, a + 1, b)
  \/ q[j] < p[i] /\ TurnsTo(p, q, s, i, j + 1, a + 1, b)
  \/ p[i] = q[j] /\ TurnsTo(p, q, s, i + 1, j + 1, a, b + 1)

TurnIs(s, i, j, a, b) == s = [i |-> i, j |-> j, hash32 |-> a, hash32_rev |-> b]

PassesP(s) == [s EXCEPT !.i = @ + 1, !.hash32 = @ + 1]
PassesQ(s) == [s EXCEPT !.j = @ + 1, !.hash32 = @ + 1]
Matches(s) == [s EXCEPT !.i = @ + 1, !.j = @ + 1, !.hash32_rev = @ + 1]

LEMMA FieldsSet ==
  ASSUME NEW i, NEW j, NEW a, NEW b, NEW s, TurnIs(s, i, j, a, b)
  PROVE  /\ TurnIs(PassesP(s), i + 1, j, a + 1, b)
         /\ TurnIs(PassesQ(s), i, j + 1, a + 1, b)
         /\ TurnIs(Matches(s), i + 1, j + 1, a, b + 1)
<1>0. s = [i |-> i, j |-> j, hash32 |-> a, hash32_rev |-> b]
  BY DEF TurnIs
<1>1. PICK x, y, z, w : x = i + 1 /\ y = j + 1 /\ z = a + 1 /\ w = b + 1
  OBVIOUS
<1>2. PICK ti, tj, tij :
        ti = [i |-> x, j |-> j, hash32 |-> a, hash32_rev |-> b] /\ tj = [i |-> i, j |-> y, hash32 |-> a, hash32_rev |-> b]
        /\ tij = [i |-> x, j |-> y, hash32 |-> a, hash32_rev |-> b]
  OBVIOUS
<1>3. [s EXCEPT !.i = x] = ti /\ [s EXCEPT !.j = y] = tj
  BY <1>0, <1>2
<1>4. [ti EXCEPT !.j = y] = tij
  BY <1>2
<1>5. [ti EXCEPT !.hash32 = z] = [i |-> x, j |-> j, hash32 |-> z, hash32_rev |-> b]
      /\ [tj EXCEPT !.hash32 = z] = [i |-> i, j |-> y, hash32 |-> z, hash32_rev |-> b]
  BY <1>2
<1>6. [tij EXCEPT !.hash32_rev = w] = [i |-> x, j |-> y, hash32 |-> a, hash32_rev |-> w]
  BY <1>2
<1>7. s.i + 1 = x /\ s.j + 1 = y /\ s.hash32 + 1 = z /\ s.hash32_rev + 1 = w
  BY <1>0, <1>1
<1>8. [s EXCEPT !.i = @ + 1, !.hash32 = @ + 1] = [[s EXCEPT !.i = x] EXCEPT !.hash32 = z]
  BY <1>7
<1>9. [s EXCEPT !.j = @ + 1, !.hash32 = @ + 1] = [[s EXCEPT !.j = y] EXCEPT !.hash32 = z]
  BY <1>7
<1>10. [s EXCEPT !.i = @ + 1, !.j = @ + 1, !.hash32_rev = @ + 1]
       = [[[s EXCEPT !.i = x] EXCEPT !.j = y] EXCEPT !.hash32_rev = w]
  BY <1>7
<1> QED
  BY <1>1, <1>3, <1>4, <1>5, <1>6, <1>8, <1>9, <1>10, Zenon DEF TurnIs, PassesP, PassesQ, Matches

LEMMA TurnSteps ==
  ASSUME NEW p \in Seq(Nat), NEW q \in Seq(Nat), NEW i \in 1 .. Len(p) + 1, NEW j \in 1 .. Len(q) + 1,
         NEW a \in Nat, NEW b \in Nat, NEW s, s = [i |-> i, j |-> j, hash32 |-> a, hash32_rev |-> b]
  PROVE  /\ i > Len(p) \/ j > Len(q) => H!MergeTurn(p, q, s) = s
         /\ i <= Len(p) /\ j <= Len(q) =>
              TurnChoice(p, q, s, i, j, a, b)
<1>1. PICK m \in Nat, n \in Nat : m = Len(p) /\ n = Len(q)
  OBVIOUS
<1>2. s.i = i /\ s.j = j
  OBVIOUS
<1>9. /\ PassesP(s) = [i |-> i + 1, j |-> j, hash32 |-> a + 1, hash32_rev |-> b]
      /\ PassesQ(s) = [i |-> i, j |-> j + 1, hash32 |-> a + 1, hash32_rev |-> b]
      /\ Matches(s) = [i |-> i + 1, j |-> j + 1, hash32 |-> a, hash32_rev |-> b + 1]
  <2>1. TurnIs(s, i, j, a, b)
    BY DEF TurnIs
  <2>2. TurnIs(PassesP(s), i + 1, j, a + 1, b) /\ TurnIs(PassesQ(s), i, j + 1, a + 1, b)
        /\ TurnIs(Matches(s), i + 1, j + 1, a, b + 1)
    BY <2>1, FieldsSet
  <2> QED
    BY <2>2 DEF TurnIs
<1>3. ASSUME i > m \/ j > n PROVE H!MergeTurn(p, q, s) = s
  <2>1. s.i > Len(p) \/ s.j > Len(q)
    BY <1>1, <1>2, <1>3, Zenon
  <2> QED
    BY <2>1, Zenon DEF H!MergeTurn
<1>4. ASSUME i <= m, j <= n
      PROVE  ~(s.i > Len(p) \/ s.j > Len(q)) /\ p[i] \in Nat /\ q[j] \in Nat
  <2>1. ~(i > m \/ j > n) /\ i \in 1 .. m /\ j \in 1 .. n
    BY <1>4
  <2>2. p[i] \in Nat /\ q[j] \in Nat
    BY <1>1, <2>1
  <2> QED
    BY <1>1, <1>2, <2>1, <2>2, Zenon
<1>5. ASSUME i <= m, j <= n, p[i] < q[j] PROVE TurnsTo(p, q, s, i + 1, j, a + 1, b)
  <2>1. H!MergeTurn(p, q, s) = PassesP(s)
    BY <1>2, <1>4, <1>5, Zenon DEF H!MergeTurn, PassesP, PassesQ, Matches
  <2>2. PassesP(s) = [i |-> i + 1, j |-> j, hash32 |-> a + 1, hash32_rev |-> b]
    BY <1>9
  <2> QED
    BY <2>1, <2>2, Zenon DEF TurnsTo
<1>6. ASSUME i <= m, j <= n, q[j] < p[i] PROVE TurnsTo(p, q, s, i, j + 1, a + 1, b)
  <2>1. ~(p[i] < q[j]) /\ p[i] > q[j]
    BY <1>4, <1>6
  <2>2. H!MergeTurn(p, q, s) = PassesQ(s)
    BY <1>2, <1>4, <1>6, <2>1, Zenon DEF H!MergeTurn, PassesP, PassesQ, Matches
  <2>3. PassesQ(s) = [i |-> i, j |-> j + 1, hash32 |-> a + 1, hash32_rev |-> b]
    BY <1>9
  <2> QED
    BY <2>2, <2>3, Zenon DEF TurnsTo
<1>7. ASSUME i <= m, j <= n, p[i] = q[j] PROVE TurnsTo(p, q, s, i + 1, j + 1, a, b + 1)
  <2>1. ~(p[i] < q[j]) /\ ~(p[i] > q[j])
    BY <1>4, <1>7
  <2>2. H!MergeTurn(p, q, s) = Matches(s)
    BY <1>2, <1>4, <1>7, <2>1, Zenon DEF H!MergeTurn, PassesP, PassesQ, Matches
  <2>3. Matches(s) = [i |-> i + 1, j |-> j + 1, hash32 |-> a, hash32_rev |-> b + 1]
    BY <1>9
  <2> QED
    BY <2>2, <2>3, Zenon DEF TurnsTo
<1>8. ASSUME i <= m, j <= n PROVE p[i] < q[j] \/ q[j] < p[i] \/ p[i] = q[j]
  BY <1>4, <1>8
<1> QED
  BY <1>1, <1>3, <1>5, <1>6, <1>7, <1>8, Zenon DEF TurnChoice

LEMMA TurnParts ==
  ASSUME NEW p \in Seq(Nat), NEW q \in Seq(Nat), NEW s \in Turns(p, q)
  PROVE  \E i \in 1 .. Len(p) + 1, j \in 1 .. Len(q) + 1, a \in Nat, b \in Nat :
           s = [i |-> i, j |-> j, hash32 |-> a, hash32_rev |-> b]
<1>1. /\ s.i \in 1 .. Len(p) + 1 /\ s.j \in 1 .. Len(q) + 1 /\ s.hash32 \in Nat /\ s.hash32_rev \in Nat
      /\ s = [i |-> s.i, j |-> s.j, hash32 |-> s.hash32, hash32_rev |-> s.hash32_rev]
  BY DEF Turns
<1> QED
  BY <1>1, Zenon

LEMMA TurnType ==
  ASSUME NEW p \in Seq(Nat), NEW q \in Seq(Nat), NEW s \in Turns(p, q)
  PROVE  H!MergeTurn(p, q, s) \in Turns(p, q)
<1>1. PICK i \in 1 .. Len(p) + 1, j \in 1 .. Len(q) + 1, a \in Nat, b \in Nat :
        s = [i |-> i, j |-> j, hash32 |-> a, hash32_rev |-> b]
  BY TurnParts
<1>2. CASE i > Len(p) \/ j > Len(q)
  <2>1. H!MergeTurn(p, q, s) = s
    BY <1>1, <1>2, TurnSteps
  <2> QED
    BY <2>1
<1>3. CASE i <= Len(p) /\ j <= Len(q)
  <2>1. PICK m \in Nat, n \in Nat : m = Len(p) /\ n = Len(q)
    OBVIOUS
  <2>2. i + 1 \in 1 .. m + 1 /\ j + 1 \in 1 .. n + 1 /\ a + 1 \in Nat /\ b + 1 \in Nat
    BY <1>3, <2>1
  <2>3. TurnsTo(p, q, s, i + 1, j, a + 1, b) \/ TurnsTo(p, q, s, i, j + 1, a + 1, b)
        \/ TurnsTo(p, q, s, i + 1, j + 1, a, b + 1)
    <3>1. TurnChoice(p, q, s, i, j, a, b)
      BY <1>1, <1>3, TurnSteps
    <3> QED
      BY <3>1 DEF TurnChoice
  <2>4. \E i1 \in 1 .. m + 1, j1 \in 1 .. n + 1, a1 \in Nat, b1 \in Nat : TurnsTo(p, q, s, i1, j1, a1, b1)
    BY <2>1, <2>2, <2>3
  <2> QED
    BY <2>1, <2>4 DEF TurnsTo, Turns
<1>4. (i > Len(p) \/ j > Len(q)) \/ (i <= Len(p) /\ j <= Len(q))
  OBVIOUS
<1> QED
  BY <1>2, <1>3, <1>4

LEMMA MergingExists ==
  ASSUME NEW n \in Nat, NEW p \in Seq(Nat), NEW q \in Seq(Nat)
  PROVE  \E f : IsMerging(f, n, p, q)
<1> DEFINE V == Turns(p, q)
           g == [c \in (1 .. n) \X V |-> H!MergeTurn(p, q, c[2])]
<1>1. ASSUME NEW k \in 1 .. n, NEW v \in V PROVE g[<<k, v>>] = H!MergeTurn(p, q, v)
  OBVIOUS
<1>2. g \in [(1 .. n) \X V -> V]
  <2>1. \A v \in V : H!MergeTurn(p, q, v) \in V
    BY TurnType
  <2> QED
    BY <2>1
<1>3. Start \in V
  BY StartType
<1> HIDE DEF g, V
<1>4. PICK f : IsSequel(f, n, V, Start, g)
  BY <1>2, <1>3, PrimitiveRecursion, Zenon
<1>5. f \in [0 .. n -> V] /\ f[0] = Start /\ \A k \in 1 .. n : f[k] = g[<<k, f[k - 1]>>]
  BY <1>4, Zenon DEF IsSequel
<1>6. ASSUME NEW k \in 0 .. n PROVE f[k] = IF k = 0 THEN Start ELSE H!MergeTurn(p, q, f[k - 1])
  <2>1. CASE k = 0
    BY <1>5, <2>1
  <2>2. CASE k # 0
    <3>1. k \in 1 .. n /\ k - 1 \in 0 .. n
      BY <2>2
    <3>2. f[k - 1] \in V /\ f[k] = g[<<k, f[k - 1]>>]
      BY <1>5, <3>1
    <3> QED
      BY <1>1, <2>2, <3>1, <3>2
  <2> QED
    BY <2>1, <2>2
<1>7. f = [k \in 0 .. n |-> f[k]]
  BY <1>5
<1> QED
  BY <1>6, <1>7 DEF IsMerging

LEMMA MergingRuns ==
  ASSUME NEW n \in Nat, NEW p \in Seq(Nat), NEW q \in Seq(Nat),
         NEW h, h = CHOOSE f : IsMerging(f, n, p, q)
  PROVE  Merged(h, n, p, q)
<1>1. IsMerging(h, n, p, q)
  BY MergingExists, Zenon
<1> DEFINE f == [k \in 0 .. n |-> IF k = 0 THEN Start ELSE H!MergeTurn(p, q, h[k - 1])]
<1>2. ASSUME NEW k \in 0 .. n PROVE f[k] = IF k = 0 THEN Start ELSE H!MergeTurn(p, q, h[k - 1])
  OBVIOUS
<1>3. f = [k \in 0 .. n |-> f[k]]
  OBVIOUS
<1>4. h = f
  BY <1>1, Zenon DEF IsMerging
<1> HIDE DEF f
<1>5. 0 \in 0 .. n /\ \A k \in 1 .. n : k \in 0 .. n /\ k # 0
  OBVIOUS
<1>6. h = [k \in 0 .. n |-> h[k]] /\ h[0] = Start /\ \A k \in 1 .. n : h[k] = H!MergeTurn(p, q, h[k - 1])
  BY <1>2, <1>3, <1>4, <1>5
<1> DEFINE E == {k \in 0 .. n : h[k] \in Turns(p, q)}
<1>7. 0 \in E
  BY <1>5, <1>6, StartType
<1>8. ASSUME NEW k \in 0 .. n - 1, k \in E PROVE k + 1 \in E
  <2>1. k + 1 \in 1 .. n /\ (k + 1) - 1 = k /\ k + 1 \in 0 .. n
    OBVIOUS
  <2>2. h[k + 1] = H!MergeTurn(p, q, h[k])
    BY <1>6, <2>1
  <2>3. H!MergeTurn(p, q, h[k]) \in Turns(p, q)
    BY <1>8, TurnType
  <2> QED
    BY <2>1, <2>2, <2>3
<1>9. \A k \in 0 .. n : k \in E
  <2> HIDE DEF E
  <2> QED
    BY <1>7, <1>8, InductionUpTo
<1>10. h \in [0 .. n -> Turns(p, q)]
  <2>1. \A k \in 0 .. n : h[k] \in Turns(p, q)
    BY <1>9
  <2> QED
    BY <1>6, <2>1
<1> QED
  BY <1>6, <1>10 DEF Merged

\* After k turns, or at the end of a file: what matched and what still will.
Counting(s, k, p, q, V, m) ==
  /\ s \in Turns(p, q)
  /\ s.i + s.j >= k + 2 \/ s.i > Len(p) \/ s.j > Len(q)
  /\ s.hash32_rev + Common(p, q, s.i, s.j, V, m) = Common(p, q, 1, 1, V, m)

LEMMA CountingTurns ==
  ASSUME NEW p \in Seq(Nat), NEW q \in Seq(Nat), Ascends(p), Ascends(q),
         NEW V, IsFiniteSet(V), \A i \in 1 .. Len(p) : p[i] \in V, NEW m \in Nat, m >= Len(p),
         NEW k \in Nat, NEW s, Counting(s, k, p, q, V, m)
  PROVE  Counting(H!MergeTurn(p, q, s), k + 1, p, q, V, m)
<1>1. s \in Turns(p, q) /\ H!MergeTurn(p, q, s) \in Turns(p, q)
  BY TurnType DEF Counting
<1>2. PICK i \in 1 .. Len(p) + 1, j \in 1 .. Len(q) + 1, a \in Nat, b \in Nat :
        s = [i |-> i, j |-> j, hash32 |-> a, hash32_rev |-> b]
  BY <1>1, TurnParts
<1>3. s.i = i /\ s.j = j /\ s.hash32_rev = b
  BY <1>2
<1>4. PICK c \in Nat, e \in Nat : c = Common(p, q, i, j, V, m) /\ e = Common(p, q, 1, 1, V, m)
  BY CommonType
<1>5. b + c = e /\ (i + j >= k + 2 \/ i > Len(p) \/ j > Len(q))
  BY <1>3, <1>4, Zenon DEF Counting
<1>6. CASE i > Len(p) \/ j > Len(q)
  <2>1. H!MergeTurn(p, q, s) = s
    BY <1>2, <1>6, TurnSteps
  <2> QED
    BY <1>1, <1>3, <1>4, <1>5, <1>6, <2>1, Zenon DEF Counting
<1>7. CASE i <= Len(p) /\ j <= Len(q)
  <2>1. i + j >= k + 2 /\ i \in 1 .. Len(p) /\ j \in 1 .. Len(q)
    BY <1>5, <1>7
  <2>2. ASSUME NEW i1 \in Nat, NEW j1 \in Nat, NEW a1, NEW b1 \in Nat, TurnsTo(p, q, s, i1, j1, a1, b1),
               i1 + j1 >= (k + 1) + 2, b1 + Common(p, q, i1, j1, V, m) = e
        PROVE  Counting(H!MergeTurn(p, q, s), k + 1, p, q, V, m)
    <3>1. H!MergeTurn(p, q, s) = [i |-> i1, j |-> j1, hash32 |-> a1, hash32_rev |-> b1]
      BY <2>2, Zenon DEF TurnsTo
    <3>2. H!MergeTurn(p, q, s).i = i1 /\ H!MergeTurn(p, q, s).j = j1 /\ H!MergeTurn(p, q, s).hash32_rev = b1
      BY <3>1
    <3> QED
      BY <1>1, <1>4, <2>2, <3>2, Zenon DEF Counting
  <2>3. CASE p[i] < q[j] /\ TurnsTo(p, q, s, i + 1, j, a + 1, b)
    <3>1. p[i] < q[j]
      BY <2>3
    <3>2. Common(p, q, i, j, V, m) = Common(p, q, i + 1, j, V, m)
      BY <2>1, <3>1, CommonPasses
    <3>3. (i + 1) + j >= (k + 1) + 2 /\ i + 1 \in Nat /\ j \in Nat
      BY <2>1
    <3>4. b + Common(p, q, i + 1, j, V, m) = e
      BY <1>4, <1>5, <3>2
    <3> QED
      BY <2>2, <2>3, <3>3, <3>4
  <2>4. CASE q[j] < p[i] /\ TurnsTo(p, q, s, i, j + 1, a + 1, b)
    <3>1. q[j] < p[i]
      BY <2>4
    <3>2. Common(p, q, i, j, V, m) = Common(p, q, i, j + 1, V, m)
      BY <2>1, <3>1, CommonPasses
    <3>3. i + (j + 1) >= (k + 1) + 2 /\ i \in Nat /\ j + 1 \in Nat
      BY <2>1
    <3>4. b + Common(p, q, i, j + 1, V, m) = e
      BY <1>4, <1>5, <3>2
    <3> QED
      BY <2>2, <2>4, <3>3, <3>4
  <2>5. CASE p[i] = q[j] /\ TurnsTo(p, q, s, i + 1, j + 1, a, b + 1)
    <3>1. p[i] = q[j] /\ p[i] \in V
      BY <2>1, <2>5
    <3>2. Common(p, q, i, j, V, m) = Common(p, q, i + 1, j + 1, V, m) + 1
      BY <2>1, <3>1, CommonMatches
    <3>3. (i + 1) + (j + 1) >= (k + 1) + 2 /\ i + 1 \in Nat /\ j + 1 \in Nat /\ b + 1 \in Nat
      BY <2>1
    <3>4. PICK c1 \in Nat : c1 = Common(p, q, i + 1, j + 1, V, m)
      BY CommonType
    <3>5. (b + 1) + Common(p, q, i + 1, j + 1, V, m) = e
      BY <1>4, <1>5, <3>2, <3>4
    <3> QED
      BY <2>2, <2>5, <3>3, <3>5
  <2>6. \/ p[i] < q[j] /\ TurnsTo(p, q, s, i + 1, j, a + 1, b)
        \/ q[j] < p[i] /\ TurnsTo(p, q, s, i, j + 1, a + 1, b)
        \/ p[i] = q[j] /\ TurnsTo(p, q, s, i + 1, j + 1, a, b + 1)
    <3>1. TurnChoice(p, q, s, i, j, a, b)
      BY <1>2, <1>7, TurnSteps
    <3> QED
      BY <3>1 DEF TurnChoice
  <2> QED
    BY <2>3, <2>4, <2>5, <2>6
<1>8. (i > Len(p) \/ j > Len(q)) \/ (i <= Len(p) /\ j <= Len(q))
  OBVIOUS
<1> QED
  BY <1>6, <1>7, <1>8

\* The merge counts what is common.
LEMMA MergeCountsCommon ==
  ASSUME NEW p \in Seq(Nat), NEW q \in Seq(Nat), Ascends(p), Ascends(q),
         NEW V, IsFiniteSet(V), \A i \in 1 .. Len(p) : p[i] \in V, NEW m \in Nat, m >= Len(p)
  PROVE  H!MergeCounts(p, q).hash32_rev = Common(p, q, 1, 1, V, m)
<1>1. PICK n \in Nat : n = Len(p) + Len(q)
  OBVIOUS
<1> DEFINE h == CHOOSE f : IsMerging(f, n, p, q)
<1>2. H!MergeCounts(p, q) = h[n]
  BY Zenon, <1>1 DEF H!MergeCounts, IsMerging, Start
<1> HIDE DEF h
<1>3. Merged(h, n, p, q)
  BY MergingRuns DEF h
<1>4. h \in [0 .. n -> Turns(p, q)] /\ h[0] = Start /\ \A k \in 1 .. n : h[k] = H!MergeTurn(p, q, h[k - 1])
  BY <1>3 DEF Merged
<1> DEFINE E == {k \in 0 .. n : Counting(h[k], k, p, q, V, m)}
<1>5. 0 \in E
  <2>1. Start \in Turns(p, q) /\ Start.i = 1 /\ Start.j = 1 /\ Start.hash32_rev = 0
    BY StartType DEF Start
  <2>2. Common(p, q, 1, 1, V, m) \in Nat
    BY CommonType
  <2>3. 1 + 1 >= 0 + 2 /\ 0 + Common(p, q, 1, 1, V, m) = Common(p, q, 1, 1, V, m) /\ 0 \in 0 .. n
    BY <2>2
  <2>4. Counting(Start, 0, p, q, V, m)
    BY <2>1, <2>3 DEF Counting
  <2> QED
    BY <1>4, <2>3, <2>4
<1>6. ASSUME NEW k \in 0 .. n - 1, k \in E PROVE k + 1 \in E
  <2>1. k + 1 \in 1 .. n /\ (k + 1) - 1 = k /\ k + 1 \in 0 .. n /\ k \in Nat
    OBVIOUS
  <2>2. h[k + 1] = H!MergeTurn(p, q, h[k])
    BY <1>4, <2>1
  <2>3. Counting(h[k], k, p, q, V, m)
    BY <1>6
  <2>4. Counting(H!MergeTurn(p, q, h[k]), k + 1, p, q, V, m)
    BY <2>1, <2>3, CountingTurns
  <2> QED
    BY <2>1, <2>2, <2>4
<1>7. n \in E
  <2> HIDE DEF E
  <2>1. \A k \in 0 .. n : k \in E
    BY <1>5, <1>6, InductionUpTo
  <2> QED
    BY <2>1
<1>8. Counting(h[n], n, p, q, V, m)
  BY <1>7
<1>9. PICK i \in 1 .. Len(p) + 1, j \in 1 .. Len(q) + 1, b \in Nat :
        i = h[n].i /\ j = h[n].j /\ b = h[n].hash32_rev
  BY <1>8 DEF Counting, Turns
<1>10. i > Len(p) \/ j > Len(q)
  <2>1. i + j >= n + 2 \/ i > Len(p) \/ j > Len(q)
    BY <1>8, <1>9 DEF Counting
  <2> QED
    BY <1>1, <2>1
<1>11. Common(p, q, i, j, V, m) = 0
  BY <1>10, CommonEnds
<1>12. b + 0 = Common(p, q, 1, 1, V, m)
  BY <1>8, <1>9, <1>11 DEF Counting
<1> QED
  BY <1>2, <1>9, <1>12

LEMMA AheadFromStart ==
  ASSUME NEW s \in Seq(Nat), NEW x
  PROVE  Ahead(s, 1, x) = Occurs(s, x)
<1>1. Spots(s, 1, x) = {i \in DOMAIN s : s[i] = x}
  <2>1. \A l \in DOMAIN s : l >= 1
    OBVIOUS
  <2> QED
    BY <2>1 DEF Spots
<1> QED
  BY <1>1 DEF Ahead, Occurs

LEMMA ElementsFinite ==
  ASSUME NEW V, NEW p \in Seq(V)
  PROVE  IsFiniteSet(ToSet(p))
<1>1. PICK n \in Nat : n = Len(p) /\ DOMAIN p = 1 .. n
  OBVIOUS
<1>2. p \in Surjection(1 .. n, ToSet(p))
  <2>1. p = [i \in 1 .. n |-> p[i]]
    BY <1>1
  <2>2. p \in [1 .. n -> ToSet(p)] /\ \A x \in ToSet(p) : \E i \in 1 .. n : p[i] = x
    BY <1>1, <2>1 DEF ToSet
  <2> QED
    BY <2>2 DEF Surjection
<1>3. ExistsSurjection(1 .. n, ToSet(p))
  BY <1>2 DEF ExistsSurjection
<1> QED
  BY <1>3, FS_NatSurjection

-----------------------------------------------------------------------------
(* What two lists share: pairs of equal elements, each in one pair only.    *)

SharedPairs(s, t) == {c \in ToSet(s) \X (1 .. Len(s)) : c[2] <= H!Count(s, c[1]) /\ c[2] <= H!Count(t, c[1])}

\* Pairs of places of s and t with the same element.
IsMatching(M, s, t) ==
  /\ \A c \in M : \E i \in 1 .. Len(s), j \in 1 .. Len(t) : c = <<i, j>> /\ s[i] = t[j]
  /\ \A c, d \in M : c[1] = d[1] \/ c[2] = d[2] => c = d

LEMMA SharedIs ==
  ASSUME NEW s, NEW t
  PROVE  H!Shared(s, t) = Cardinality(SharedPairs(s, t)) /\ \A x : H!Count(s, x) = Occurs(s, x)
<1>1. H!Shared(s, t) = Cardinality(SharedPairs(s, t))
  BY Zenon DEF H!Shared, SharedPairs, ToSet, H!ToSet, H!Cardinality, Cardinality
<1>2. \A x : H!Count(s, x) = Occurs(s, x)
  BY Zenon DEF H!Count, Occurs, H!Cardinality, Cardinality
<1> QED
  BY <1>1, <1>2

LEMMA SharedPairsFinite ==
  ASSUME NEW V, NEW s \in Seq(V), NEW t
  PROVE  IsFiniteSet(SharedPairs(s, t)) /\ H!Shared(s, t) \in Nat
<1>1. IsFiniteSet(ToSet(s))
  BY ElementsFinite
<1>2. PICK n \in Nat : n = Len(s)
  OBVIOUS
<1>3. IsFiniteSet(1 .. n)
  <2>1. 1 \in Int /\ n \in Int
    OBVIOUS
  <2> QED
    BY <2>1, FS_Interval
<1>4. IsFiniteSet(ToSet(s) \X (1 .. n))
  BY <1>1, <1>3, FS_Product
<1>5. SharedPairs(s, t) \in SUBSET (ToSet(s) \X (1 .. n))
  BY <1>2 DEF SharedPairs
<1>6. IsFiniteSet(SharedPairs(s, t))
  BY <1>4, <1>5, FS_Subset
<1> QED
  BY <1>6, FS_CardinalityType, SharedIs

\* The pairs of a matching whose element is x, up to the place i of s.
PairsUpTo(M, s, i, x) == {c \in M : c[1] <= i /\ s[c[1]] = x}

LEMMA MatchingFinite ==
  ASSUME NEW V, NEW s \in Seq(V), NEW t \in Seq(V), NEW M, IsMatching(M, s, t)
  PROVE  IsFiniteSet(M)
<1>1. PICK m \in Nat, n \in Nat : m = Len(s) /\ n = Len(t)
  OBVIOUS
<1>2. IsFiniteSet(1 .. m) /\ IsFiniteSet(1 .. n)
  <2>1. 1 \in Int /\ m \in Int /\ n \in Int
    OBVIOUS
  <2> QED
    BY <2>1, FS_Interval
<1>3. IsFiniteSet((1 .. m) \X (1 .. n))
  BY <1>2, FS_Product
<1>4. M \in SUBSET ((1 .. m) \X (1 .. n))
  BY <1>1 DEF IsMatching
<1> QED
  BY <1>3, <1>4, FS_Subset

LEMMA FewPairs ==
  ASSUME NEW V, NEW s \in Seq(V), NEW t \in Seq(V), NEW M, IsMatching(M, s, t), NEW i, NEW x
  PROVE  /\ IsFiniteSet(PairsUpTo(M, s, i, x)) /\ Cardinality(PairsUpTo(M, s, i, x)) \in Nat
         /\ Cardinality(PairsUpTo(M, s, i, x)) <= Occurs(s, x)
         /\ Cardinality(PairsUpTo(M, s, i, x)) <= Occurs(t, x)
<1> DEFINE B == PairsUpTo(M, s, i, x)
           onS == {k \in DOMAIN s : s[k] = x}
           onT == {k \in DOMAIN t : t[k] = x}
           f == [c \in B |-> c[1]]
           g == [c \in B |-> c[2]]
<1>1. ASSUME NEW c \in B PROVE c[1] \in onS /\ c[2] \in onT /\ c \in M
  <2>1. c \in M /\ s[c[1]] = x
    BY DEF PairsUpTo
  <2>2. PICK k \in 1 .. Len(s), l \in 1 .. Len(t) : c = <<k, l>> /\ s[k] = t[l]
    BY <2>1 DEF IsMatching
  <2>3. c[1] = k /\ c[2] = l /\ k \in DOMAIN s /\ l \in DOMAIN t
    BY <2>2
  <2> QED
    BY <2>1, <2>2, <2>3
<1>2. \A c, d \in B : c[1] = d[1] \/ c[2] = d[2] => c = d
  BY <1>1 DEF IsMatching
<1>3. IsFiniteSet(onS) /\ IsFiniteSet(onT) /\ Occurs(s, x) = Cardinality(onS) /\ Occurs(t, x) = Cardinality(onT)
  BY PlacesFinite DEF Occurs
<1>4. f \in Injection(B, onS)
  <2> HIDE DEF B, onS, onT
  <2>1. f \in [B -> onS] /\ \A c, d \in B : f[c] = f[d] => c = d
    BY <1>1, <1>2
  <2> QED
    BY <2>1 DEF Injection, IsInjective
<1>5. g \in Injection(B, onT)
  <2> HIDE DEF B, onS, onT
  <2>1. g \in [B -> onT] /\ \A c, d \in B : g[c] = g[d] => c = d
    BY <1>1, <1>2
  <2> QED
    BY <2>1 DEF Injection, IsInjective
<1> HIDE DEF B, onS, onT, f, g
<1>6. IsFiniteSet(B) /\ Cardinality(B) <= Cardinality(onS)
  BY <1>3, <1>4, FS_Injection
<1>7. Cardinality(B) <= Cardinality(onT)
  BY <1>3, <1>5, FS_Injection
<1>8. Cardinality(B) \in Nat
  BY <1>6, FS_CardinalityType
<1> QED
  BY <1>3, <1>6, <1>7, <1>8 DEF B

\* A matching has not more pairs than s and t share elements: the pairs with
\* the same element are numbered in the order of their places in s.
LEMMA MatchingFits ==
  ASSUME NEW V, NEW s \in Seq(V), NEW t \in Seq(V), NEW M, IsMatching(M, s, t)
  PROVE  Cardinality(M) \in Nat /\ Cardinality(M) <= H!Shared(s, t)
<1> DEFINE rank(c) == Cardinality(PairsUpTo(M, s, c[1], s[c[1]]))
           f == [c \in M |-> <<s[c[1]], rank(c)>>]
<1>1. ASSUME NEW c \in M PROVE c[1] \in 1 .. Len(s) /\ c[1] \in Nat /\ s[c[1]] \in ToSet(s)
  <2>1. PICK k \in 1 .. Len(s), l \in 1 .. Len(t) : c = <<k, l>>
    BY DEF IsMatching
  <2> QED
    BY <2>1 DEF ToSet
<1>2. ASSUME NEW c \in M PROVE <<s[c[1]], rank(c)>> \in SharedPairs(s, t)
  <2>1. PICK x \in ToSet(s), n \in Nat : x = s[c[1]] /\ n = rank(c)
    BY <1>1, FewPairs
  <2>2. n <= Occurs(s, x) /\ n <= Occurs(t, x)
    BY <2>1, FewPairs
  <2>3. n # 0
    <3>1. c \in PairsUpTo(M, s, c[1], x)
      BY <1>1, <2>1 DEF PairsUpTo
    <3>2. IsFiniteSet(PairsUpTo(M, s, c[1], x))
      BY FewPairs
    <3> QED
      BY <2>1, <3>1, <3>2, FS_EmptySet
  <2>4. n <= Len(s)
    <3>1. PICK m \in Nat : m = Len(s) /\ DOMAIN s = 1 .. m
      OBVIOUS
    <3>2. IsFiniteSet(1 .. m) /\ Cardinality(1 .. m) = m
      <4>1. 1 \in Int /\ m \in Int /\ (IF 1 > m THEN 0 ELSE m - 1 + 1) = m
        OBVIOUS
      <4> QED
        BY <4>1, FS_Interval
    <3>3. {i \in DOMAIN s : s[i] = x} \in SUBSET (1 .. m)
      BY <3>1
    <3>4. Occurs(s, x) <= m
      BY <3>2, <3>3, FS_Subset DEF Occurs
    <3>5. Occurs(s, x) \in Nat
      BY PlacesFinite
    <3> QED
      BY <2>2, <3>1, <3>4, <3>5
  <2>5. H!Count(s, x) = Occurs(s, x) /\ H!Count(t, x) = Occurs(t, x)
    BY SharedIs
  <2>6. n \in 1 .. Len(s)
    BY <2>3, <2>4
  <2> QED
    BY <2>1, <2>2, <2>5, <2>6 DEF SharedPairs
<1>3. ASSUME NEW c \in M, NEW d \in M, s[c[1]] = s[d[1]], c[1] < d[1] PROVE rank(c) # rank(d)
  <2> DEFINE C == PairsUpTo(M, s, c[1], s[c[1]])
             D == PairsUpTo(M, s, d[1], s[c[1]])
  <2>1. C \in SUBSET D
    <3>1. ASSUME NEW e \in M, e[1] <= c[1] PROVE e[1] <= d[1]
      BY <1>1, <1>3, <3>1
    <3> QED
      BY <3>1 DEF PairsUpTo
  <2>2. d \in D /\ d \notin C
    BY <1>1, <1>3 DEF PairsUpTo
  <2>3. IsFiniteSet(D)
    BY FewPairs
  <2> HIDE DEF C, D
  <2>4. Cardinality(C) # Cardinality(D)
    BY <2>1, <2>2, <2>3, FS_Subset
  <2> QED
    BY <1>3, <2>4 DEF C, D
<1>4. ASSUME NEW c \in M, NEW d \in M, s[c[1]] = s[d[1]], rank(c) = rank(d) PROVE c = d
  <2> HIDE DEF rank
  <2>1. ~(c[1] < d[1]) /\ ~(d[1] < c[1])
    BY <1>3, <1>4
  <2>2. c[1] = d[1]
    BY <1>1, <2>1
  <2> QED
    BY <2>2 DEF IsMatching
<1>5. f \in Injection(M, SharedPairs(s, t))
  <2> HIDE DEF rank
  <2>1. f \in [M -> SharedPairs(s, t)]
    BY <1>2
  <2>2. ASSUME NEW c \in M, NEW d \in M, f[c] = f[d] PROVE c = d
    <3>1. s[c[1]] = s[d[1]] /\ rank(c) = rank(d)
      BY <2>2
    <3> QED
      BY <1>4, <3>1
  <2> QED
    BY <2>1, <2>2 DEF Injection, IsInjective
<1> HIDE DEF f
<1>6. Cardinality(M) <= Cardinality(SharedPairs(s, t))
  BY <1>5, SharedPairsFinite, FS_Injection
<1>7. Cardinality(M) \in Nat
  BY MatchingFinite, FS_CardinalityType
<1> QED
  BY <1>6, <1>7, SharedIs

\* The n-th place of x in s.
Place(s, x) == CHOOSE f : f \in Bijection(1 .. Occurs(s, x), {i \in DOMAIN s : s[i] = x})

LEMMA PlaceIs ==
  ASSUME NEW V, NEW s \in Seq(V), NEW x
  PROVE  /\ \A n \in 1 .. Occurs(s, x) : Place(s, x)[n] \in 1 .. Len(s) /\ s[Place(s, x)[n]] = x
         /\ \A m, n \in 1 .. Occurs(s, x) : Place(s, x)[m] = Place(s, x)[n] => m = n
<1> DEFINE places == {i \in DOMAIN s : s[i] = x}
<1>1. Place(s, x) \in Bijection(1 .. Occurs(s, x), places)
  BY PlacesFinite, Zenon DEF Place
<1>2. places \in SUBSET (1 .. Len(s)) /\ \A i \in places : s[i] = x
  OBVIOUS
<1> HIDE DEF places
<1>3. /\ Place(s, x) \in [1 .. Occurs(s, x) -> places]
      /\ \A m, n \in 1 .. Occurs(s, x) : Place(s, x)[m] = Place(s, x)[n] => m = n
  BY <1>1 DEF Bijection, Injection, IsInjective
<1> QED
  BY <1>2, <1>3

\* There is a matching of as many pairs as s and t share elements.
LEMMA SharedMatches ==
  ASSUME NEW V, NEW s \in Seq(V), NEW t \in Seq(V)
  PROVE  \E M : IsMatching(M, s, t) /\ Cardinality(M) = H!Shared(s, t)
<1> DEFINE shares == SharedPairs(s, t)
           pair(c) == <<Place(s, c[1])[c[2]], Place(t, c[1])[c[2]]>>
           M == {pair(c) : c \in shares}
           f == [c \in shares |-> pair(c)]
<1>1. ASSUME NEW c \in shares
      PROVE  /\ c[2] \in 1 .. Occurs(s, c[1]) /\ c[2] \in 1 .. Occurs(t, c[1])
             /\ pair(c)[1] \in 1 .. Len(s) /\ s[pair(c)[1]] = c[1]
             /\ pair(c)[2] \in 1 .. Len(t) /\ t[pair(c)[2]] = c[1]
             /\ c = <<c[1], c[2]>>
  <2>1. c \in ToSet(s) \X (1 .. Len(s)) /\ c[2] <= Occurs(s, c[1]) /\ c[2] <= Occurs(t, c[1])
    BY SharedIs DEF SharedPairs
  <2>2. Occurs(s, c[1]) \in Nat /\ Occurs(t, c[1]) \in Nat
    BY PlacesFinite
  <2>3. c[2] \in 1 .. Occurs(s, c[1]) /\ c[2] \in 1 .. Occurs(t, c[1])
    BY <2>1, <2>2
  <2>4. Place(s, c[1])[c[2]] \in 1 .. Len(s) /\ s[Place(s, c[1])[c[2]]] = c[1]
    BY <2>3, PlaceIs
  <2>5. Place(t, c[1])[c[2]] \in 1 .. Len(t) /\ t[Place(t, c[1])[c[2]]] = c[1]
    BY <2>3, PlaceIs
  <2> QED
    BY <2>1, <2>3, <2>4, <2>5
<1>2. ASSUME NEW c \in shares, NEW d \in shares, pair(c)[1] = pair(d)[1] \/ pair(c)[2] = pair(d)[2] PROVE c = d
  <2>1. c[1] = d[1]
    BY <1>1, <1>2
  <2>2. c[2] = d[2]
    <3>1. CASE pair(c)[1] = pair(d)[1]
      <4>1. Place(s, c[1])[c[2]] = Place(s, c[1])[d[2]]
        BY <2>1, <3>1
      <4>2. c[2] \in 1 .. Occurs(s, c[1]) /\ d[2] \in 1 .. Occurs(s, c[1])
        BY <1>1, <2>1
      <4> QED
        BY <4>1, <4>2, PlaceIs
    <3>2. CASE pair(c)[2] = pair(d)[2]
      <4>1. Place(t, c[1])[c[2]] = Place(t, c[1])[d[2]]
        BY <2>1, <3>2
      <4>2. c[2] \in 1 .. Occurs(t, c[1]) /\ d[2] \in 1 .. Occurs(t, c[1])
        BY <1>1, <2>1
      <4> QED
        BY <4>1, <4>2, PlaceIs
    <3> QED
      BY <1>2, <3>1, <3>2
  <2> QED
    BY <1>1, <2>1, <2>2
<1>3. IsMatching(M, s, t)
  <2>1. ASSUME NEW c \in M PROVE \E i \in 1 .. Len(s), j \in 1 .. Len(t) : c = <<i, j>> /\ s[i] = t[j]
    <3>1. PICK e \in shares : c = pair(e)
      OBVIOUS
    <3>2. pair(e)[1] \in 1 .. Len(s) /\ pair(e)[2] \in 1 .. Len(t) /\ s[pair(e)[1]] = t[pair(e)[2]]
      BY <1>1
    <3> QED
      BY <3>1, <3>2
  <2>2. ASSUME NEW c \in M, NEW d \in M, c[1] = d[1] \/ c[2] = d[2] PROVE c = d
    <3>1. PICK e \in shares, g \in shares : c = pair(e) /\ d = pair(g)
      OBVIOUS
    <3> HIDE DEF pair, M, shares
    <3>2. e = g
      BY <1>2, <2>2, <3>1
    <3> QED
      BY <3>1, <3>2
  <2> HIDE DEF M
  <2> QED
    BY <2>1, <2>2 DEF IsMatching
<1>4. f \in Bijection(shares, M)
  <2> HIDE DEF pair, shares
  <2>1. f \in [shares -> M] /\ \A e \in M : \E c \in shares : f[c] = e
    OBVIOUS
  <2>2. ASSUME NEW c \in shares, NEW d \in shares, f[c] = f[d] PROVE c = d
    BY <1>2, <2>2
  <2> HIDE DEF f, M
  <2> QED
    BY <2>1, <2>2 DEF Bijection, Injection, Surjection, IsInjective
<1>5. Cardinality(M) = H!Shared(s, t)
  <2>1. IsFiniteSet(shares) /\ H!Shared(s, t) = Cardinality(shares)
    BY SharedPairsFinite, SharedIs
  <2> HIDE DEF M, shares, f
  <2>2. ExistsBijection(shares, M)
    BY <1>4 DEF ExistsBijection
  <2> QED
    BY <2>1, <2>2, FS_Bijection
<1> QED
  BY <1>3, <1>5

\* Elements that are equal as elements of u and v if they are so in s and t.
LEMMA SharedGrows ==
  ASSUME NEW V, NEW s \in Seq(V), NEW t \in Seq(V), NEW W, NEW u \in Seq(W), NEW v \in Seq(W),
         Len(u) = Len(s), Len(v) = Len(t),
         \A i \in 1 .. Len(s), j \in 1 .. Len(t) : s[i] = t[j] => u[i] = v[j]
  PROVE  H!Shared(s, t) <= H!Shared(u, v)
<1>1. PICK M : IsMatching(M, s, t) /\ Cardinality(M) = H!Shared(s, t)
  BY SharedMatches
<1>2. IsMatching(M, u, v)
  BY <1>1 DEF IsMatching
<1>3. Cardinality(M) <= H!Shared(u, v)
  BY <1>2, MatchingFits
<1> QED
  BY <1>1, <1>3

-----------------------------------------------------------------------------
(* A merge, also of lists that are not in order, matches each word once.   *)

\* The words matched so far, before the places i and j.
Matched(s, p, q) ==
  /\ s \in Turns(p, q)
  /\ \E M : /\ IsMatching(M, p, q) /\ Cardinality(M) = s.hash32_rev
            /\ \A c \in M : c[1] < s.i /\ c[2] < s.j

LEMMA MatchingTurns ==
  ASSUME NEW p \in Seq(Nat), NEW q \in Seq(Nat), NEW s, Matched(s, p, q)
  PROVE  Matched(H!MergeTurn(p, q, s), p, q)
<1>1. s \in Turns(p, q) /\ H!MergeTurn(p, q, s) \in Turns(p, q)
  BY TurnType DEF Matched
<1>2. PICK i \in 1 .. Len(p) + 1, j \in 1 .. Len(q) + 1, a \in Nat, b \in Nat :
        s = [i |-> i, j |-> j, hash32 |-> a, hash32_rev |-> b]
  BY <1>1, TurnParts
<1>3. s.i = i /\ s.j = j /\ s.hash32_rev = b
  BY <1>2
<1>4. PICK M : IsMatching(M, p, q) /\ Cardinality(M) = b /\ \A c \in M : c[1] < i /\ c[2] < j
  BY <1>3, Zenon DEF Matched
<1>5. \A c \in M : c[1] \in Nat /\ c[2] \in Nat
  BY <1>4 DEF IsMatching
<1>6. ASSUME NEW i1 \in Nat, NEW j1 \in Nat, NEW a1, NEW b1, TurnsTo(p, q, s, i1, j1, a1, b1),
             NEW N, IsMatching(N, p, q), Cardinality(N) = b1, \A c \in N : c[1] < i1 /\ c[2] < j1
      PROVE  Matched(H!MergeTurn(p, q, s), p, q)
  <2>1. H!MergeTurn(p, q, s) = [i |-> i1, j |-> j1, hash32 |-> a1, hash32_rev |-> b1]
    BY <1>6, Zenon DEF TurnsTo
  <2>2. H!MergeTurn(p, q, s).i = i1 /\ H!MergeTurn(p, q, s).j = j1 /\ H!MergeTurn(p, q, s).hash32_rev = b1
    BY <2>1
  <2> QED
    BY <1>1, <1>6, <2>2, Zenon DEF Matched
<1>7. CASE i > Len(p) \/ j > Len(q)
  <2>1. H!MergeTurn(p, q, s) = s
    BY <1>2, <1>7, TurnSteps
  <2> QED
    BY <2>1
<1>8. CASE i <= Len(p) /\ j <= Len(q)
  <2>1. TurnChoice(p, q, s, i, j, a, b)
    BY <1>2, <1>8, TurnSteps
  <2>2. i \in Nat /\ j \in Nat /\ i + 1 \in Nat /\ j + 1 \in Nat
    OBVIOUS
  <2>3. CASE TurnsTo(p, q, s, i + 1, j, a + 1, b)
    <3>1. \A c \in M : c[1] < i + 1 /\ c[2] < j
      BY <1>4, <1>5, <2>2
    <3> QED
      BY <1>4, <1>6, <2>2, <2>3, <3>1
  <2>4. CASE TurnsTo(p, q, s, i, j + 1, a + 1, b)
    <3>1. \A c \in M : c[1] < i /\ c[2] < j + 1
      BY <1>4, <1>5, <2>2
    <3> QED
      BY <1>4, <1>6, <2>2, <2>4, <3>1
  <2>5. CASE p[i] = q[j] /\ TurnsTo(p, q, s, i + 1, j + 1, a, b + 1)
    <3> DEFINE N == M \cup {<<i, j>>}
    <3>1. \A c \in N : c[1] < i + 1 /\ c[2] < j + 1
      BY <1>4, <1>5, <2>2
    <3>2. IsMatching(N, p, q)
      <4>1. \A c \in N : \E k \in 1 .. Len(p), l \in 1 .. Len(q) : c = <<k, l>> /\ p[k] = q[l]
        <5>1. i \in 1 .. Len(p) /\ j \in 1 .. Len(q)
          BY <1>8
        <5>2. \A c \in M : \E k \in 1 .. Len(p), l \in 1 .. Len(q) : c = <<k, l>> /\ p[k] = q[l]
          BY <1>4 DEF IsMatching
        <5> QED
          BY <2>5, <5>1, <5>2
      <4>2. \A c, d \in M : c[1] = d[1] \/ c[2] = d[2] => c = d
        BY <1>4 DEF IsMatching
      <4>3. \A c \in M : c[1] # i /\ c[2] # j
        BY <1>4, <1>5, <2>2
      <4>4. \A c, d \in N : c[1] = d[1] \/ c[2] = d[2] => c = d
        BY <4>2, <4>3
      <4> HIDE DEF N
      <4> QED
        BY <4>1, <4>4 DEF IsMatching
    <3>3. Cardinality(N) = b + 1
      <4>1. IsFiniteSet(M)
        BY <1>4, MatchingFinite
      <4>2. <<i, j>> \notin M
        BY <1>4, <2>2
      <4> QED
        BY <1>4, <4>1, <4>2, FS_AddElement
    <3> HIDE DEF N
    <3> QED
      BY <1>6, <2>2, <2>5, <3>1, <3>2, <3>3
  <2> QED
    BY <2>1, <2>3, <2>4, <2>5 DEF TurnChoice
<1>9. (i > Len(p) \/ j > Len(q)) \/ (i <= Len(p) /\ j <= Len(q))
  OBVIOUS
<1> QED
  BY <1>7, <1>8, <1>9

LEMMA MergeCountsShared ==
  ASSUME NEW p \in Seq(Nat), NEW q \in Seq(Nat)
  PROVE  H!MergeCounts(p, q).hash32_rev \in Nat /\ H!MergeCounts(p, q).hash32_rev <= H!Shared(p, q)
<1>1. PICK n \in Nat : n = Len(p) + Len(q)
  OBVIOUS
<1> DEFINE h == CHOOSE f : IsMerging(f, n, p, q)
<1>2. H!MergeCounts(p, q) = h[n]
  BY Zenon, <1>1 DEF H!MergeCounts, IsMerging, Start
<1> HIDE DEF h
<1>3. Merged(h, n, p, q)
  BY MergingRuns DEF h
<1>4. h \in [0 .. n -> Turns(p, q)] /\ h[0] = Start /\ \A k \in 1 .. n : h[k] = H!MergeTurn(p, q, h[k - 1])
  BY <1>3 DEF Merged
<1> DEFINE E == {k \in 0 .. n : Matched(h[k], p, q)}
<1>5. 0 \in E
  <2>1. Start \in Turns(p, q) /\ Start.hash32_rev = 0
    BY StartType DEF Start
  <2>2. IsMatching({}, p, q) /\ Cardinality({}) = 0
    BY FS_EmptySet DEF IsMatching
  <2>3. Matched(Start, p, q)
    BY <2>1, <2>2 DEF Matched
  <2> QED
    BY <1>4, <2>3
<1>6. ASSUME NEW k \in 0 .. n - 1, k \in E PROVE k + 1 \in E
  <2>1. k + 1 \in 1 .. n /\ (k + 1) - 1 = k /\ k + 1 \in 0 .. n
    OBVIOUS
  <2>2. h[k + 1] = H!MergeTurn(p, q, h[k])
    BY <1>4, <2>1
  <2>3. Matched(h[k], p, q)
    BY <1>6
  <2>4. Matched(H!MergeTurn(p, q, h[k]), p, q)
    BY <2>3, MatchingTurns
  <2> QED
    BY <2>1, <2>2, <2>4
<1>7. n \in E
  <2> HIDE DEF E
  <2>1. \A k \in 0 .. n : k \in E
    BY <1>5, <1>6, InductionUpTo
  <2> QED
    BY <2>1
<1>8. PICK M : IsMatching(M, p, q) /\ Cardinality(M) = h[n].hash32_rev
  BY <1>7, Zenon DEF Matched
<1>9. Cardinality(M) \in Nat /\ Cardinality(M) <= H!Shared(p, q)
  BY <1>8, MatchingFits
<1> QED
  BY <1>2, <1>8, <1>9

\* Whatever the sort makes of p and q, they share what they shared.
LEMMA ArrangedShare ==
  ASSUME NEW p \in Seq(Nat), NEW q \in Seq(Nat), NEW a \in H!Sorted(p), NEW b \in H!Sorted(q)
  PROVE  SharedPairs(a, b) = SharedPairs(p, q)
<1>1. IsArranging(a, p) /\ IsArranging(b, q)
  BY SortedArranges
<1>2. \A x : H!Count(a, x) = H!Count(p, x) /\ H!Count(b, x) = H!Count(q, x)
  BY <1>1, SharedIs DEF IsArranging
<1>3. Len(a) = Len(p) /\ ToSet(a) = ToSet(p)
  BY <1>1 DEF IsArranging
<1> QED
  BY <1>2, <1>3 DEF SharedPairs

LEMMA SortedCountsShared ==
  ASSUME NEW p \in Seq(Nat), NEW q \in Seq(Nat), NEW a \in H!Sorted(p), NEW b \in H!Sorted(q)
  PROVE  /\ H!MergeCounts(a, b).hash32_rev \in Nat
         /\ H!MergeCounts(a, b).hash32_rev <= H!Shared(p, q)
         /\ Near(p) /\ Near(q) => H!MergeCounts(a, b).hash32_rev = H!Shared(p, q)
<1>1. a \in Seq(Nat) /\ b \in Seq(Nat) /\ Len(a) = Len(p)
  BY SortedArranges DEF IsArranging
<1>2. H!Shared(a, b) = H!Shared(p, q) /\ H!Shared(a, b) = Cardinality(SharedPairs(a, b))
  BY ArrangedShare, SharedIs
<1>3. H!MergeCounts(a, b).hash32_rev \in Nat /\ H!MergeCounts(a, b).hash32_rev <= H!Shared(a, b)
  BY <1>1, MergeCountsShared
<1>4. ASSUME Near(p), Near(q) PROVE H!MergeCounts(a, b).hash32_rev = H!Shared(a, b)
  <2>1. Ascends(a) /\ Ascends(b)
    BY <1>4, SortedAscends
  <2>2. PICK m \in Nat : m = Len(a)
    BY <1>1
  <2>3. PICK V : V = ToSet(a) /\ IsFiniteSet(V) /\ \A i \in 1 .. Len(a) : a[i] \in V
    <3>1. \A i \in 1 .. Len(a) : a[i] \in ToSet(a)
      BY <1>1 DEF ToSet
    <3> QED
      BY <1>1, <3>1, ElementsFinite
  <2>4. m >= Len(a)
    BY <2>2
  <2>5. H!MergeCounts(a, b).hash32_rev = Common(a, b, 1, 1, V, m)
    <3>1. IsFiniteSet(V) /\ \A i \in 1 .. Len(a) : a[i] \in V
      BY <2>3
    <3> HIDE <2>2, <2>3
    <3> QED
      BY <1>1, <2>1, <3>1, <2>4, MergeCountsCommon
  <2>6. ASSUME NEW x PROVE Ahead(a, 1, x) = H!Count(a, x) /\ Ahead(b, 1, x) = H!Count(b, x)
    <3>1. Ahead(a, 1, x) = Occurs(a, x) /\ Ahead(b, 1, x) = Occurs(b, x)
      BY <1>1, AheadFromStart
    <3>2. H!Count(a, x) = Occurs(a, x) /\ H!Count(b, x) = Occurs(b, x)
      BY SharedIs, Zenon
    <3> QED
      BY <3>1, <3>2
  <2>7. InBoth(a, b, 1, 1, V, m) = SharedPairs(a, b)
    BY <2>2, <2>3, <2>6 DEF InBoth, Pairs, SharedPairs
  <2> QED
    BY <1>2, <2>5, <2>7 DEF Common
<1> QED
  BY <1>2, <1>3, <1>4

HashInput(in) ==
  in \in [files : Files \X Files, window : Windows, base : Bases] /\ \A f \in ToSet(in.files) : in.window <= Len(f)

Collection(in, i) == H!Collect(in.files[i], in.window, in.base)

Counted(in, s) ==
  \E p \in H!Sorted(Collection(in, 1)), q \in H!Sorted(Collection(in, 2)) :
    s = [end |-> TRUE, result |-> H!MergeCounts(p, q)]

HashInv == tool = "hash" => HashInput(input) /\ (state = Running \/ Counted(input, state))

LEMMA HashInvariance == Spec => []HashInv
<1>1. Init => HashInv
  <2> SUFFICES ASSUME Init, tool = "hash" PROVE HashInv
    BY DEF HashInv
  <2>1. state = Running /\ HashInit
    BY Zenon DEF Init
  <2> QED
    BY <2>1 DEF HashInv, HashInit, HashInput
<1>2. HashInv /\ [Next]_vars => HashInv'
  <2> SUFFICES ASSUME HashInv, [Next]_vars, tool' = "hash" PROVE HashInv'
    BY DEF HashInv
  <2>1. CASE UNCHANGED vars
    <3>1. tool' = tool /\ input' = input /\ state' = state
      BY <2>1 DEF vars
    <3> QED
      BY <3>1, Zenon DEF HashInv, HashInput, Counted, Collection
  <2>2. CASE Next
    <3>1. tool = "hash" /\ state = Running /\ HashEnd
      BY <2>2, Zenon DEF Next, HashEnd, GroupsEnd, StringsEnd, SampleEnd, MeanEnd, UniqEnd, PathsEnd, Ends
    <3>2. input' = input /\ Counted(input, state')
      BY <3>1, Zenon DEF HashEnd, Ends, Counted, Collection
    <3>3. HashInput(input)
      BY <3>1 DEF HashInv
    <3> QED
      BY <3>2, <3>3, Zenon DEF HashInv, HashInput, Counted, Collection
  <2> QED
    BY <2>1, <2>2
<1> QED
  BY <1>1, <1>2, PTL DEF Spec

Hashed(in, i) ==
  [k \in 1 .. Len(in.files[i]) - in.window + 1 |->
     H!Hash(SubSeq(in.files[i], k, k + in.window - 1), in.base)]

LEMMA InputIs ==
  ASSUME NEW in, HashInput(in), NEW i \in 1 .. 2
  PROVE  \E w \in Nat \ {0}, b \in Nat, d \in Seq(Nat) :
           w = in.window /\ b = in.base /\ d = in.files[i] /\ w <= Len(d)
<1>1. PICK w \in Nat \ {0}, b \in Nat, d \in Seq(Nat) : w = in.window /\ b = in.base /\ d = in.files[i] /\ w <= Len(d)
  <2>1. in.files \in Files \X Files /\ in.window \in Windows /\ in.base \in Bases
    BY DEF HashInput
  <2>2. in.files[i] \in Files /\ in.files[i] \in ToSet(in.files)
    BY <2>1 DEF ToSet
  <2>3. in.window <= Len(in.files[i])
    BY <2>2 DEF HashInput
  <2> QED
    BY <2>1, <2>2, <2>3, HashAssumption
<1> QED
  BY <1>1, Zenon

LEMMA CollectionIsHashed ==
  ASSUME NEW in, HashInput(in), NEW i \in 1 .. 2
  PROVE  Collection(in, i) = Hashed(in, i) /\ Hashed(in, i) \in Seq(Nat)
<1>1. PICK w \in Nat \ {0}, b \in Nat, d \in Seq(Nat) : w = in.window /\ b = in.base /\ d = in.files[i] /\ w <= Len(d)
  BY InputIs
<1>2. PICK arr \in Seq(Nat), m \in Nat : arr = H!Collect(d, w, b) /\ m = Len(d) - w + 1 /\ Collected(arr, d, w, b, m)
  <2>1. Len(d) - w + 1 \in Nat
    BY <1>1
  <2> QED
    BY <1>1, <2>1, CollectHashesWindows
<1>3. arr = [k \in 1 .. m |-> WindowHash(d, w, b, k)]
  <2>1. Len(arr) = m /\ \A k \in 1 .. m : arr[k] = WindowHash(d, w, b, k)
    BY <1>2 DEF Collected
  <2>2. arr = [k \in 1 .. m |-> arr[k]]
    BY <2>1
  <2> QED
    BY <2>1, <2>2
<1>4. Hashed(in, i) = [k \in 1 .. m |-> WindowHash(d, w, b, k)]
  BY <1>1, <1>2, Zenon DEF Hashed, WindowHash
<1>5. Collection(in, i) = arr
  BY <1>1, <1>2, Zenon DEF Collection
<1> QED
  BY <1>3, <1>4, <1>5

WindowsOf(in, i) ==
  [k \in 1 .. Len(in.files[i]) - in.window + 1 |-> SubSeq(in.files[i], k, k + in.window - 1)]

LEMMA WindowsHashed ==
  ASSUME NEW in, HashInput(in), NEW i \in 1 .. 2
  PROVE  /\ WindowsOf(in, i) \in Seq(Seq(Nat))
         /\ Len(WindowsOf(in, i)) = Len(Hashed(in, i)) /\ DOMAIN WindowsOf(in, i) = 1 .. Len(Hashed(in, i))
         /\ Hashed(in, i) = [k \in DOMAIN WindowsOf(in, i) |-> H!Hash(WindowsOf(in, i)[k], in.base)]
<1>1. PICK w \in Nat \ {0}, b \in Nat, d \in Seq(Nat) : w = in.window /\ b = in.base /\ d = in.files[i] /\ w <= Len(d)
  BY InputIs
<1>2. PICK l \in Nat : l = Len(d) /\ w <= l
  BY <1>1
<1>3. PICK m \in Nat : m = l - w + 1 /\ m = Len(d) - w + 1
  <2>1. l \in Nat /\ w \in Nat
    OBVIOUS
  <2>2. l - w + 1 \in Nat
    BY <1>2, <2>1
  <2>3. l - w + 1 = Len(d) - w + 1
    BY <1>2, Zenon
  <2> QED
    BY <2>2, <2>3, Zenon
<1>4. WindowsOf(in, i) = [k \in 1 .. m |-> SubSeq(d, k, k + w - 1)]
  BY <1>1, <1>3, Zenon DEF WindowsOf
<1>5. Hashed(in, i) = [k \in 1 .. m |-> H!Hash(SubSeq(d, k, k + w - 1), b)]
  BY <1>1, <1>3, Zenon DEF Hashed
<1>6. \A k \in 1 .. m : SubSeq(d, k, k + w - 1) \in Seq(Nat)
  <2> SUFFICES ASSUME NEW k \in 1 .. m PROVE SubSeq(d, k, k + w - 1) \in Seq(Nat)
    OBVIOUS
  <2>1. k \in Nat \ {0} /\ k + w - 1 <= l
    <3>1. k \in Nat /\ 1 <= k /\ k <= m /\ w \in Nat
      OBVIOUS
    <3> QED
      BY <1>2, <1>3, <3>1
  <2>2. k + w - 1 <= Len(d)
    BY <1>2, <2>1, Zenon
  <2> QED
    BY <1>1, <2>1, <2>2, BytesOfWindow, Zenon
<1>7. WindowsOf(in, i) \in Seq(Seq(Nat)) /\ Len(WindowsOf(in, i)) = m /\ DOMAIN WindowsOf(in, i) = 1 .. m
  <2>1. PICK bytes : bytes = Seq(Nat)
    OBVIOUS
  <2>2. WindowsOf(in, i) \in [1 .. m -> bytes]
    BY <1>4, <1>6, <2>1, Zenon
  <2>3. WindowsOf(in, i) \in Seq(bytes) /\ Len(WindowsOf(in, i)) = m /\ DOMAIN WindowsOf(in, i) = 1 .. m
    BY <2>2
  <2> QED
    BY <2>1, <2>3
<1>8. Len(Hashed(in, i)) = m
  BY <1>5
<1>9. \A k \in 1 .. m : WindowsOf(in, i)[k] = SubSeq(d, k, k + w - 1)
  BY <1>4
<1>10. [k \in DOMAIN WindowsOf(in, i) |-> H!Hash(WindowsOf(in, i)[k], in.base)]
      = [k \in 1 .. m |-> H!Hash(SubSeq(d, k, k + w - 1), b)]
  BY <1>1, <1>7, <1>9
<1> QED
  BY <1>5, <1>7, <1>8, <1>10

\* What SharedHashes says of hashes p and q of the windows v and w.
SharedIn(p, q, v, w, counted) ==
  LET near(arr) == \A x, y \in ToSet(arr) : x - y < Modulus \div 2
      collide == \E k \in DOMAIN v, l \in DOMAIN w : p[k] = q[l] /\ v[k] # w[l]
  IN /\ counted <= H!Shared(p, q)
     /\ ~collide => counted <= H!Shared(v, w)
     /\ near(p) /\ near(q) => counted = H!Shared(p, q) /\ counted >= H!Shared(v, w)

(***************************************************************************)
(* For any two files, window and base: hash32_rev is never more than the   *)
(* hashes that the files share, each as often as it is in both, and never  *)
(* more than the windows they share if no two different ones have one      *)
(* hash; it is all the shared hashes and at least all the shared windows   *)
(* if no two hashes of a file are 2^31 or more apart.  The rolled hashes   *)
(* are those of the windows, the merge matches each hash once in whatever  *)
(* order it finds them, and misses none where the sort leaves them in      *)
(* order (hash.c:92-107, 150-167, diag-hash.c:25-31, diag-file.c:125-154). *)
(***************************************************************************)
THEOREM SharedHashesCounted == Spec => []SharedHashes
<1>1. HashInv => SharedHashes
  <2> SUFFICES ASSUME HashInv, Result("hash") PROVE SharedHashes
    BY DEF SharedHashes
  <2>1. tool = "hash" /\ state.end
    BY DEF Result
  <2>2. HashInput(input) /\ (state = Running \/ Counted(input, state))
    BY <2>1 DEF HashInv
  <2>3. state # Running
    BY <2>1 DEF Running
  <2>4. PICK p \in Seq(Nat), q \in Seq(Nat) :
          /\ p = Hashed(input, 1) /\ q = Hashed(input, 2)
          /\ Collection(input, 1) = p /\ Collection(input, 2) = q
    <3>1. 1 \in 1 .. 2 /\ 2 \in 1 .. 2
      OBVIOUS
    <3> QED
      BY <2>2, <3>1, CollectionIsHashed
  <2>5. PICK a \in H!Sorted(p), b \in H!Sorted(q) : state = [end |-> TRUE, result |-> H!MergeCounts(a, b)]
    BY <2>2, <2>3, <2>4, Zenon DEF Counted
  <2>6. state.result = H!MergeCounts(a, b)
    BY <2>5
  <2>7. PICK v \in Seq(Seq(Nat)), w \in Seq(Seq(Nat)) :
          /\ v = WindowsOf(input, 1) /\ w = WindowsOf(input, 2)
          /\ DOMAIN v = 1 .. Len(p) /\ DOMAIN w = 1 .. Len(q) /\ Len(v) = Len(p) /\ Len(w) = Len(q)
          /\ p = [k \in DOMAIN v |-> H!Hash(v[k], input.base)]
          /\ q = [k \in DOMAIN w |-> H!Hash(w[k], input.base)]
    <3>1. 1 \in 1 .. 2 /\ 2 \in 1 .. 2
      OBVIOUS
    <3> QED
      BY <2>2, <2>4, <3>1, WindowsHashed
  <2> DEFINE near(arr) == \A x, y \in ToSet(arr) : x - y < Modulus \div 2
             collide == \E k \in DOMAIN v, l \in DOMAIN w : p[k] = q[l] /\ v[k] # w[l]
             counted == state.result.hash32_rev
  <2>8. ASSUME NEW s \in Seq(Nat), near(s) PROVE Near(s)
    <3>1. \A i \in 1 .. Len(s) : s[i] \in ToSet(s)
      BY DEF ToSet
    <3> QED
      BY <2>8, <3>1 DEF Near
  <2>9. counted \in Nat /\ counted <= H!Shared(p, q) /\ (near(p) /\ near(q) => counted = H!Shared(p, q))
    <3> HIDE DEF near
    <3> QED
      BY <2>6, <2>8, SortedCountsShared
  <2>10. H!Shared(p, q) \in Nat /\ H!Shared(v, w) \in Nat
    BY SharedPairsFinite
  <2>11. ASSUME ~collide PROVE H!Shared(p, q) <= H!Shared(v, w)
    <3>1. DOMAIN v = 1 .. Len(p) /\ DOMAIN w = 1 .. Len(q) /\ Len(v) = Len(p) /\ Len(w) = Len(q)
      BY <2>7
    <3>2. \A k \in DOMAIN v, l \in DOMAIN w : p[k] = q[l] => v[k] = w[l]
      BY <2>11, Zenon
    <3>3. \A k \in 1 .. Len(p), l \in 1 .. Len(q) : p[k] = q[l] => v[k] = w[l]
      BY <3>1, <3>2, Zenon
    <3> HIDE DEF collide
    <3> QED
      BY <3>1, <3>3, SharedGrows, Zenon
  <2>12. H!Shared(v, w) <= H!Shared(p, q)
    <3>1. \A k \in 1 .. Len(v), l \in 1 .. Len(w) : v[k] = w[l] => p[k] = q[l]
      BY <2>7
    <3> QED
      BY <2>7, <3>1, SharedGrows
  <2>13. /\ counted <= H!Shared(p, q)
         /\ ~collide => counted <= H!Shared(v, w)
         /\ near(p) /\ near(q) => counted = H!Shared(p, q) /\ counted >= H!Shared(v, w)
    <3> HIDE DEF near, collide, counted
    <3> QED
      BY <2>9, <2>10, <2>11, <2>12
  <2>14. SharedIn(p, q, v, w, counted)
    <3> HIDE DEF counted
    <3> QED
      BY <2>13, Zenon DEF SharedIn
  <2> HIDE DEF near, collide
  <2>15. SharedIn([k \in DOMAIN v |-> H!Hash(v[k], input.base)],
                  [k \in DOMAIN w |-> H!Hash(w[k], input.base)], v, w, state.result.hash32_rev)
    BY <2>7, <2>14
  <2>16. v = WindowsOf(input, 1) /\ w = WindowsOf(input, 2)
    BY <2>7
  <2>17. SharedIn([k \in DOMAIN WindowsOf(input, 1) |-> H!Hash(WindowsOf(input, 1)[k], input.base)],
                  [k \in DOMAIN WindowsOf(input, 2) |-> H!Hash(WindowsOf(input, 2)[k], input.base)],
                  WindowsOf(input, 1), WindowsOf(input, 2), state.result.hash32_rev)
    BY <2>15, <2>16
  <2> QED
    BY <2>17, Zenon DEF SharedHashes, SharedIn, WindowsOf
<1> QED
  BY <1>1, HashInvariance, PTL
=============================================================================
