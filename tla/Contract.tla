------------------------------ MODULE Contract -------------------------------
(***************************************************************************)
(* contract in vcdiff.c, which replaces parts of the data that were met    *)
(* before by copies and finds them by a rolling hash, and expand, which    *)
(* should give the data back.                                              *)
(***************************************************************************)
EXTENDS Hashes

CONSTANTS
  Data,       \* bytes to contract
  Windows,    \* sizes of the window
  Bases       \* bases of the hash

VARIABLE script  \* data, window and base; the progress of contract; its result

\* Positions count from 0.
At(k) == script.data[k + 1]
Size == Len(script.data)

\* arr has the hashes at multiples of the window that were passed.
Init ==
  \E data \in Data, window \in Windows, base \in Bases :
    LET h == Hash(SubSeq(data, 1, window), base)
    IN /\ window <= Len(data)
       /\ script = [pc |-> "lookback", data |-> data, window |-> window, base |-> base,
                    i |-> 0, value |-> h, arr |-> <<h>>, copies |-> <<>>, pcodes |-> <<>>]

\* The window moves from s.i to s.i + 1.
Rolled(s) ==
  LET h == Roll(s.value, s.window, s.base, s.data[s.i + 1], s.data[s.i + s.window + 1])
  IN [s EXCEPT !.i = @ + 1, !.value = h,
               !.arr = IF (s.i + 1) % s.window = 0 THEN Append(@, h) ELSE @]

RolledTo(s, i) ==
  LET rolled[k \in s.i .. i] == IF k = s.i THEN s ELSE Rolled(rolled[k - 1]) IN rolled[i]

\* The first window, at a multiple of its size, with the bytes of the one at i.
MatchAt(s) ==
  LET w == s.window
      at == {k \in 0 .. (s.i \div w) - 1 :
               s.arr[k + 1] = s.value /\ \A n \in 1 .. w : s.data[s.i + n] = s.data[k * w + n]}
  IN IF at = {} THEN -1 ELSE CHOOSE k \in at : \A l \in at : k <= l

\* The match at distance m is extended to both sides: its first position and
\* the one after its last.
Extent(s, m) ==
  LET same(k) == s.data[k - m + 1] = s.data[k + 1]
      heads == {h \in m .. s.i : \A k \in h .. s.i - 1 : same(k)}
      tails == {t \in s.i + s.window .. Len(s.data) : \A k \in s.i + s.window .. t - 1 : same(k)}
  IN [head |-> CHOOSE h \in heads : \A g \in heads : h <= g,
      tail |-> CHOOSE t \in tails : \A u \in tails : u <= t]

\* One turn of the loop: the window moves on, and past a match.
Lookback ==
  LET s == Rolled(script)
      k == MatchAt(s)
      m == s.i - k * s.window
      x == Extent(s, m)
  IN /\ script.pc = "lookback" /\ script.i + 1 < Size - script.window + 1
     /\ script' = IF k < 0 THEN s
                  ELSE [RolledTo(s, x.tail - s.window) EXCEPT
                          !.copies = Append(@, [inst |-> "COPY", at |-> x.head,
                                                size |-> x.tail - x.head, addr |-> x.head - m])]

\* A node of the tree comes after those with the same key.
InOrder(codes) ==
  LET before(i, k) == codes[i].at < codes[k].at \/ (codes[i].at = codes[k].at /\ i < k)
  IN FoldLeft(LAMBDA acc, i : [acc EXCEPT ![1 + Len(SelectSeq([k \in DOMAIN codes |-> k],
                                                              LAMBDA k : before(k, i)))] = codes[i]],
              codes, [i \in DOMAIN codes |-> i])

AddNew(from, to) ==
  [inst |-> "ADD", at |-> from, size |-> to - from, data |-> SubSeq(script.data, from + 1, to)]

\* ADDs fill the gaps between the copies.
Contracted ==
  LET copies == InOrder(script.copies)
      step(acc, p) == [codes |-> IF acc.a < p.at THEN acc.codes \o <<AddNew(acc.a, p.at), p>>
                                 ELSE Append(acc.codes, p),
                       a |-> p.at + p.size]
      filled == FoldLeft(step, [codes |-> <<>>, a |-> 0], copies)
  IN InOrder(IF filled.a < Size THEN Append(filled.codes, AddNew(filled.a, Size)) ELSE filled.codes)

Finish ==
  /\ script.pc = "lookback" /\ script.i + 1 >= Size - script.window + 1
  /\ script' = [script EXCEPT !.pc = "done", !.pcodes = Contracted]

Next == Lookback \/ Finish

\* Copies take place byte by byte, in a memory that is 0 at first.
Expand(pcodes) ==
  LET total == FoldLeft(LAMBDA s, p : s + p.size, 0, pcodes)
      copy(r, p) == FoldLeft(LAMBDA q, i : Append(q, IF p.addr + i <= Len(q) THEN q[p.addr + i] ELSE 0),
                             r, [i \in 1 .. p.size |-> i])
  IN FoldLeft(LAMBDA r, p : IF p.inst = "ADD" THEN r \o p.data ELSE copy(r, p), <<>>, pcodes)
-----------------------------------------------------------------------------
Overlap ==
  LET copies == InOrder(script.copies)
  IN \E i \in 1 .. Len(copies) - 1 : copies[i].at + copies[i].size > copies[i + 1].at

(***************************************************************************)
(* Expanding what was contracted gives the data back exactly if no match   *)
(* was extended back into the one before it.  The windows are found by     *)
(* their rolled hashes, which are those of their bytes, whatever hashes    *)
(* collide (vcdiff.c:956-1065, hash.c:75-107).                             *)
(***************************************************************************)
ExpandsUnlessOverlap ==
  /\ script.value = Hash(SubSeq(script.data, script.i + 1, script.i + script.window), script.base)
  /\ script.pc = "done" => (Expand(script.pcodes) = script.data <=> ~Overlap)
=============================================================================
