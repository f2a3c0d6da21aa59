------------------------------- MODULE Linkage -------------------------------
(***************************************************************************)
(* diag-file: the distances of all pairs of files go into a red-black      *)
(* tree, the nearest pair is merged again and again (singlelinkage.c), and *)
(* the merges are turned into the groups that are printed (diag-file.c).   *)
(* Files are numbered from 0; the merged objects get the numbers after     *)
(* them.                                                                   *)
(***************************************************************************)
EXTENDS RBTree, Seqs, FiniteSets

LOCAL INSTANCE FiniteSetsExt

CONSTANT
  Cases  \* numbers of files, distances they may have, options -I and -F (0: none)

VARIABLE sl  \* struct diag_singlelinkage, the variables of analyze and of main

\* The pairs in the order of the two loops of diag_singlelinkage_analyze.
Couples(size) ==
  FlattenSeq([i \in 1 .. size - 1 |-> [k \in 1 .. size - i |-> <<i - 1, i + k - 1>>]])

Couple(i, j) == [i |-> i, j |-> j]

\* The tree of all pairs, by distance.
Pairs(size, f, cmp) ==
  FoldLeft(LAMBDA h, c : Insert(h, h.num + 1, f[c], Couple(c[1], c[2])),
           Create(cmp), Couples(size))

\* For the properties, live has the files in each object that is not yet
\* merged into another.
Init ==
  \E c \in Cases, cmp \in {"imm", "rev"} :
    \E f \in [ToSet(Couples(c.size)) -> c.distances] :
      sl = [pc |-> "start", size |-> c.size, f |-> f, initial |-> c.initial, final |-> c.final,
            m |-> Create(cmp), aux |-> Create(cmp), cur |-> Nil, nxt |-> Nil,
            merging |-> Couple(0, 0), n |-> c.size, rounds |-> 0, left |-> c.size,
            t |-> <<>>, clusters |-> <<>>, one |-> FALSE, printed |-> {}, status |-> "running",
            live |-> [x \in 0 .. c.size - 1 |-> {x}]]

\* There is nothing to link among fewer than two files.
Start ==
  /\ sl.pc = "start"
  /\ sl' = IF sl.size < 2 THEN [sl EXCEPT !.pc = "done", !.status = "failure"]
           ELSE [sl EXCEPT !.pc = "pick", !.m = Pairs(sl.size, sl.f, sl.m.cmp)]

\* The nearest pair; if it is the last one there is nothing to walk through.
Pick ==
  LET cur == Minimum(sl.m)
      nxt == Successor(sl.m, cur)
  IN /\ sl.pc = "pick"
     /\ sl' = [sl EXCEPT !.pc = IF nxt = Nil THEN "push" ELSE "walk",
                         !.cur = cur, !.nxt = nxt,
                         !.merging = sl.m.node[cur].attr,
                         !.aux = Create(sl.m.cmp)]

\* In which member of the pair p one of the merged objects is, i looked at first.
Member(p) == CHOOSE side \in {"i", "j"} :
               p[side] \in {sl.merging.i, sl.merging.j} /\ (side = "j" => p.i \notin {sl.merging.i, sl.merging.j})

\* Faulty: only the first object of the pair.
TouchesFirst(p) == p.i \in {sl.merging.i, sl.merging.j}

\* Whether the pair p has one of the merged objects.
Touches(p) == {p.i, p.j} \cap {sl.merging.i, sl.merging.j} # {}

FreeAddress(h) == CHOOSE a \in 1 .. Cardinality(DOMAIN h.node) + 1 : a \notin DOMAIN h.node

\* The first pair of an object k with one of the merged ones is kept, for the
\* new object n; the second one, which is farther, is deleted.
Walk ==
  LET tmp == sl.nxt
      p == sl.m.node[tmp].attr
      side == Member(p)
      k == p[IF side = "i" THEN "j" ELSE "i"]
      seen == Search(sl.aux, k)
      nxt == Successor(sl.m, tmp)
  IN /\ sl.pc = "walk"
     /\ sl' = [sl EXCEPT
          !.pc = IF nxt = Nil THEN "push" ELSE "walk",
          !.nxt = nxt,
          !.m = IF ~Touches(p) THEN @
                ELSE IF seen # Nil THEN Delete(@, tmp)
                ELSE [@ EXCEPT !.node[tmp].attr[side] = sl.n],
          !.aux = IF ~Touches(p) THEN @
                  ELSE IF seen # Nil THEN Delete(@, seen)
                  ELSE Insert(@, FreeAddress(@), k, Nil)]

\* The merge is recorded by two couples in front of t.
Push ==
  LET rounds == IF sl.initial > 0 THEN sl.rounds + 1 ELSE sl.rounds
      stopped == sl.initial > 0 /\ sl.initial = rounds
      left == IF sl.final > 0 /\ ~stopped THEN sl.left - 1 ELSE sl.left
      ends == stopped \/ (sl.final > 0 /\ sl.final = left)
      m == IF ends THEN sl.m ELSE Delete(sl.m, sl.cur)
  IN /\ sl.pc = "push"
     /\ sl' = [sl EXCEPT
          !.pc = IF ends \/ m.num = 0 THEN "group" ELSE "pick",
          !.t = <<Couple(sl.merging.j, sl.n), Couple(sl.merging.i, sl.n)>> \o @,
          !.n = @ + 1, !.rounds = rounds, !.left = left, !.m = m,
          !.live = [x \in (DOMAIN @ \cup {sl.n}) \ {sl.merging.i, sl.merging.j} |->
                      IF x = sl.n THEN @[sl.merging.i] \cup @[sl.merging.j] ELSE @[x]]]

\* The couples are taken from the end, oldest first.  Each joins one member to
\* the first group that has the other; where a new group comes in the order of
\* the groups depends on its address.
Group ==
  LET p == sl.t[Len(sl.t)]
      at == {k \in DOMAIN sl.clusters : {p.i, p.j} \cap sl.clusters[k] # {}}
      cut(x, y) == SubSeq(sl.clusters, x, y)
  IN /\ sl.pc = "group" /\ sl.t # <<>>
     /\ \E clusters \in
             IF at # {}
             THEN {[sl.clusters EXCEPT ![Min(at)] = @ \cup {IF p.j \in @ THEN p.i ELSE p.j}]}
             ELSE {cut(1, x - 1) \o <<{p.i, p.j}>> \o cut(x, Len(sl.clusters)) : x \in 1 .. Len(sl.clusters) + 1} :
          sl' = [sl EXCEPT !.t = SubSeq(@, 1, Len(@) - 1), !.clusters = clusters]

\* Faulty: the first merged object is taken for a file.
FilesUpTo(c) == {k \in c : k <= sl.size}

FilesIn(c) == {k \in c : k < sl.size}

\* Groups with one file only are shown if one, the option -1, is given.
PrintGroups ==
  /\ sl.pc = "group" /\ sl.t = <<>>
  /\ \E one \in BOOLEAN :
       sl' = [sl EXCEPT !.pc = "done", !.status = "success", !.one = one,
                !.printed = {FilesIn(c) : c \in {d \in ToSet(sl.clusters) :
                                                   one \/ Cardinality(FilesIn(d)) > 1}}]

Next == Start \/ Pick \/ Walk \/ Push \/ Group \/ PrintGroups
-----------------------------------------------------------------------------
(* Properties.                                                             *)

\* The single-linkage distance of two objects: that of their nearest files,
\* or of the farthest ones in the reversed order.
Distance(x, y) ==
  LET ds == {sl.f[IF a < b THEN <<a, b>> ELSE <<b, a>>] : a \in sl.live[x], b \in sl.live[y]}
  IN IF sl.m.cmp = "rev" THEN Max(ds) ELSE Min(ds)

(***************************************************************************)
(* Before each round the tree has exactly one node for each two objects    *)
(* that can still be merged, with their single-linkage distance: renaming  *)
(* and deleting while walking loses no pair and keeps none twice           *)
(* (singlelinkage.c:96-149).                                               *)
(***************************************************************************)
PairsAreDistances ==
  sl.pc = "pick" =>
    LET objects == DOMAIN sl.live
        pairs == {{p.i, p.j} : p \in {sl.m.node[a].attr : a \in DOMAIN sl.m.node}}
    IN /\ sl.m.ok
       /\ pairs = kSubset(2, objects)
       /\ sl.m.num = Cardinality(pairs) /\ Cardinality(DOMAIN sl.m.node) = sl.m.num
       /\ \A a \in DOMAIN sl.m.node :
            LET node == sl.m.node[a] IN node.key = Distance(node.attr.i, node.attr.j)

(***************************************************************************)
(* Deleting a node may free another one, whose entry moves.  The nodes     *)
(* that analyze holds survive and keep their entries, and in the end every *)
(* object was met twice (singlelinkage.c:94-130, rbtree.c:448).            *)
(***************************************************************************)
WalkIsSafe ==
  /\ sl.pc \in {"walk", "push"} =>
       sl.cur \in DOMAIN sl.m.node /\ sl.m.node[sl.cur].attr = sl.merging
  /\ sl.pc = "walk" => sl.nxt \in DOMAIN sl.m.node
  /\ sl.pc = "push" => sl.aux.num = 0
  /\ sl.m.ok /\ sl.aux.ok

(***************************************************************************)
(* No printed group has files of two objects, no file is printed twice,    *)
(* and with -1 every file that was merged with another is printed.  That   *)
(* merged files are in one group is not claimed (diag-file.c:297-346).     *)
(***************************************************************************)
GroupsSound ==
  sl.status = "success" =>
    /\ \A g \in sl.printed : \E x \in DOMAIN sl.live : g \subseteq sl.live[x]
    /\ \A g1, g2 \in sl.printed : g1 = g2 \/ g1 \cap g2 = {}
    /\ sl.one => \A x \in DOMAIN sl.live :
         Cardinality(sl.live[x]) > 1 => sl.live[x] \subseteq UNION sl.printed
=============================================================================
