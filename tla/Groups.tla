-------------------------------- MODULE Groups -------------------------------
(***************************************************************************)
(* How diag-line and diag-enc group lines whose distance is less than t.   *)
(* diag-line looks at all pairs in turn, diag-enc at the pairs in the      *)
(* order of their distances, from a red-black tree.  Lines are numbered    *)
(* from 1; parent leads from a line to another one of its group, 0 from    *)
(* the root of the group.  A relation of lines is a function on pairs.     *)
(***************************************************************************)
EXTENDS RBTree, Seqs

LOCAL INSTANCE Functions
LOCAL INSTANCE FiniteSets

PairsOf(n) == FlattenSeq([i \in 1 .. n |-> [k \in 1 .. n - i |-> <<i, i + k>>]])

\* Faulty: one step only.
RootOnce(parent, x) == IF parent[x] > 0 THEN parent[x] ELSE x

Root(parent, x) ==
  LET up[y \in DOMAIN parent] == IF parent[y] > 0 THEN up[parent[y]] ELSE y IN up[x]

Unlinked0(n) == [x \in 1 .. n |-> 0]

\* diag-line; the distance is asked for lines in different groups only.
SingleLink(n, distance, t) ==
  FoldLeft(LAMBDA s, c :
             LET px == Root(s.parent, c[1])
                 py == Root(s.parent, c[2])
             IN IF px = py \/ distance[c] >= t THEN s
                ELSE [parent |-> [s.parent EXCEPT ![px] = py], occur |-> s.occur \cup {c[1], c[2]}],
           [parent |-> Unlinked0(n), occur |-> {}], PairsOf(n))

\* diag-enc: the pairs by distance.
AggregateCombinations(n, distance) ==
  FoldLeft(LAMBDA h, c : Insert(h, h.num + 1, distance[c], c), Create("imm"), PairsOf(n))

\* A pair is stored as two unsigned int and read as two words of the size of a
\* pointer.  If pointers are wider the first word holds both numbers, and the
\* second one lies beyond the pair: neither is the number of a line.
ReadPair(pair, wide) == IF wide THEN <<>> ELSE pair

\* In the order of the distances, up to t.  What happens is undefined if there is
\* no pair at all, as for a single line, and for an index that is no line.
ProcessEquivalenceRelations(n, comb, t, wide) ==
  FoldLeft(LAMBDA s, e :
             LET c == ReadPair(e.attr, wide)
                 x == Root(s.parent, c[1])
                 y == Root(s.parent, c[2])
             IN IF s.over \/ e.key >= t THEN [s EXCEPT !.over = TRUE]
                ELSE IF c = <<>> THEN [s EXCEPT !.over = TRUE, !.defined = FALSE]
                ELSE IF x # y THEN [s EXCEPT !.parent[x] = y] ELSE s,
           [parent |-> Unlinked0(n), over |-> FALSE, defined |-> n > 1], Entries(comb))

\* A line, and the lines below it in the order in which they are met.
Members(parent, i) ==
  LET below[j \in DOMAIN parent] ==
        <<j>> \o FlattenSeq([k \in DOMAIN parent |-> IF parent[k] = j THEN below[k] ELSE <<>>])
  IN below[i]

\* The groups that are shown: a set of lines limits them to those it meets.
GroupsShown(parent, occur) ==
  FlattenSeq([i \in DOMAIN parent |->
                IF parent[i] = 0 /\ i \in occur THEN <<Members(parent, i)>> ELSE <<>>])

\* What diag-line shows with and without -1, and the clusters of diag-enc.
LineGroups(n, distance, t, one) ==
  LET s == SingleLink(n, distance, t)
  IN GroupsShown(s.parent, IF one THEN 1 .. n ELSE s.occur)

EncClusters(n, distance, t, wide) ==
  LET s == ProcessEquivalenceRelations(n, AggregateCombinations(n, distance), t, wide)
  IN [defined |-> s.defined, groups |-> GroupsShown(s.parent, 1 .. n)]

-----------------------------------------------------------------------------
\* For the properties: the lines that can be reached from line x.
Reachable(x, n, distance, t) ==
  LET near(y, z) == LET c == IF y < z THEN <<y, z>> ELSE <<z, y>>
                    IN c \in DOMAIN distance /\ distance[c] < t
      within[k \in 0 .. n] ==
        IF k = 0 THEN {x}
        ELSE LET S == within[k - 1] IN S \cup {y \in 1 .. n : \E z \in S : near(y, z)}
  IN within[n]

Components(n, distance, t) == {Reachable(x, n, distance, t) : x \in 1 .. n}

\* The groups are the given sets, with each line once.
AreGroups(groups, sets) ==
  /\ {ToSet(g) : g \in ToSet(groups)} = sets
  /\ \A g \in ToSet(groups) : IsInjective(g)
  /\ IsInjective(groups)
=============================================================================
