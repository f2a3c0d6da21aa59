------------------------------- MODULE RBTree --------------------------------
(***************************************************************************)
(* The red-black tree of rbtree.c, as operators on a heap of nodes.  A     *)
(* tree h has its root, the comparison it was created with, its number of  *)
(* nodes, and the nodes allocated for it by address; ok turns FALSE when   *)
(* an assertion of the code fails.  Cases that the code writes once for    *)
(* the left and once for the right are written once, with a side.          *)
(***************************************************************************)
EXTENDS Integers, Sequences

Nil == 0

Flip(side) == IF side = "left" THEN "right" ELSE "left"

\* The two orders in use: that of the integers, and its reverse.
Compare(h, x, y) ==
  LET c == IF x > y THEN 1 ELSE IF x < y THEN -1 ELSE 0
  IN IF h.cmp = "rev" THEN -c ELSE c

Create(cmp) == [root |-> Nil, cmp |-> cmp, num |-> 0, node |-> <<>>, ok |-> TRUE]

IsRed(h, n) == n # Nil /\ h.node[n].color = "r"
IsBlack(h, n) == n # Nil /\ h.node[n].color = "b"
\* What the code asks of a child that may be missing: not red.
NotRed(h, n) == ~IsRed(h, n)

Put(h, n, field, value) ==
  IF n = Nil THEN h ELSE [h EXCEPT !.node[n][field] = value]

Asserting(cond, h, next) == IF cond THEN next ELSE [h EXCEPT !.ok = FALSE]

Parent(h, n) == h.node[n].parent
SideOf(h, n) == IF n = h.node[Parent(h, n)].left THEN "left" ELSE "right"
Sibling(h, n) == h.node[Parent(h, n)][Flip(SideOf(h, n))]

Replace(h, n, by) ==
  LET p == Parent(h, n)
  IN Put(IF p = Nil THEN [h EXCEPT !.root = by] ELSE Put(h, p, SideOf(h, n), by),
         by, "parent", p)

\* The child of b on the other side takes the place of b, and b goes down.
Rotate(h, b, side) ==
  LET d == h.node[b][Flip(side)]
      c == h.node[d][side]
      r == Put(Put(Replace(h, b, d), d, side, b), b, "parent", d)
  IN Asserting(d # Nil, h, Put(Put(r, b, Flip(side), c), c, "parent", b))

Descend(h, n, side) ==
  LET down[m \in DOMAIN h.node] == IF h.node[m][side] = Nil THEN m ELSE down[h.node[m][side]]
  IN down[n]

Climb(h, n, side) ==
  LET up[m \in DOMAIN h.node] == IF Parent(h, m) = Nil THEN Nil
                                 ELSE IF SideOf(h, m) = side THEN Parent(h, m)
                                 ELSE up[Parent(h, m)]
  IN up[n]

\* The in-order predecessor is on the left, the successor on the right.
Neighbour(h, n, side) ==
  IF h.node[n][side] # Nil THEN Descend(h, h.node[n][side], Flip(side))
  ELSE Climb(h, n, Flip(side))

Minimum(h) == IF h.root = Nil THEN Nil ELSE Descend(h, h.root, "left")
Maximum(h) == IF h.root = Nil THEN Nil ELSE Descend(h, h.root, "right")
Successor(h, n) == Neighbour(h, n, "right")

-----------------------------------------------------------------------------
(* Insertion: the new node is red; two reds in a row are resolved upwards. *)

\* Faulty: only insert5.
InsertRotateOnce(h, n) ==
  LET p == Parent(h, n)
      g == Parent(h, p)
  IN Rotate(Put(Put(h, p, "color", "b"), g, "color", "r"), g, Flip(SideOf(h, p)))

\* insert4 and insert5, where the uncle is black.
InsertRotate(h, n) ==
  LET p == Parent(h, n)
      bent == SideOf(h, n) # SideOf(h, p)
      h1 == IF bent THEN Rotate(h, p, SideOf(h, p)) ELSE h
      top == IF bent THEN n ELSE p
      g == Parent(h1, top)
  IN Rotate(Put(Put(h1, top, "color", "b"), g, "color", "r"), g, Flip(SideOf(h1, top)))

\* insert1 to insert3 for the node n: the tree then, and the node for which
\* they are called again, Nil for none.
InsertTurn(h, n) ==
  LET p == Parent(h, n)
      g == Parent(h, p)
      u == Sibling(h, p)
      ends(t) == [tree |-> t, n |-> Nil]
  IN CASE p = Nil -> ends([Put(h, n, "color", "b") EXCEPT !.root = n])
       [] IsBlack(h, p) -> ends(h)
       [] IsRed(h, p) /\ g = Nil -> ends([h EXCEPT !.ok = FALSE])
       [] IsRed(h, p) /\ g # Nil /\ IsRed(h, u) ->
            [tree |-> Put(Put(Put(h, p, "color", "b"), u, "color", "b"), g, "color", "r"), n |-> g]
       [] OTHER -> ends(InsertRotate(h, n))

\* There are fewer calls than nodes on a path.
InsertFix(h, n) ==
  LET turn[k \in 0 .. h.num + 1] ==
        IF k = 0 THEN [tree |-> h, n |-> n]
        ELSE LET s == turn[k - 1] IN IF s.n = Nil THEN s ELSE InsertTurn(s.tree, s.n)
  IN turn[h.num + 1].tree

\* Equal keys go to the right: <<parent, side>> of the new leaf.
Place(h, n, key) ==
  LET side(m) == IF Compare(h, key, h.node[m].key) < 0 THEN "left" ELSE "right"
      place[m \in DOMAIN h.node] ==
        IF h.node[m][side(m)] = Nil THEN <<m, side(m)>> ELSE place[h.node[m][side(m)]]
  IN place[n]

NewNode(h, a, key, attr) ==
  [h EXCEPT !.node = [x \in DOMAIN h.node \cup {a} |->
     IF x = a THEN [key |-> key, attr |-> attr, color |-> "", parent |-> Nil,
                    left |-> Nil, right |-> Nil]
     ELSE h.node[x]]]

\* A node for key and attr is allocated at the free address a and inserted.
Insert(h, a, key, attr) ==
  LET new == NewNode(h, a, key, attr)
      at == Place(h, h.root, key)
      linked == Put(Put(Put(new, at[1], at[2], a), a, "color", "r"), a, "parent", at[1])
  IN IF h.root = Nil
     THEN [Put(new, a, "color", "b") EXCEPT !.root = a, !.num = 1]
     ELSE [InsertFix(linked, a) EXCEPT !.num = @ + 1]

-----------------------------------------------------------------------------
(* Deletion.                                                               *)

\* delete6
DeleteRotate(h, n) ==
  LET s == Sibling(h, n)
      p == Parent(h, n)
      side == SideOf(h, n)
      h1 == Put(Put(h, s, "color", h.node[p].color), p, "color", "b")
  IN IF s = Nil THEN h1
     ELSE Rotate(Put(h1, h.node[s][Flip(side)], "color", "b"), p, side)

\* delete5
DeleteStraighten(h, n) ==
  LET s == Sibling(h, n)
      side == SideOf(h, n)
      near == h.node[s][side]
      far == h.node[s][Flip(side)]
  IN IF IsBlack(h, s) /\ NotRed(h, far) /\ IsRed(h, near)
     THEN Rotate(Put(Put(h, s, "color", "r"), near, "color", "b"), s, Flip(side))
     ELSE h

\* delete1 to delete4 for the node n, which is black and whose side lacks a
\* black node: the tree then, and the node for which they are called again.
DeleteTurn(h, n) ==
  LET p == Parent(h, n)
      side == SideOf(h, n)
      h1 == IF IsRed(h, Sibling(h, n))
            THEN Rotate(Put(Put(h, p, "color", "r"), Sibling(h, n), "color", "b"), p, side)
            ELSE h
      s == Sibling(h1, n)
      plain == IsBlack(h1, s) /\ NotRed(h1, h1.node[s].left) /\ NotRed(h1, h1.node[s].right)
      q == Parent(h1, n)
      ends(t) == [tree |-> t, n |-> Nil]
  IN CASE ~IsBlack(h, n) -> ends([h EXCEPT !.ok = FALSE])
       [] p = Nil -> ends(h)
       [] plain /\ IsBlack(h1, q) -> [tree |-> Put(h1, s, "color", "r"), n |-> q]
       [] plain /\ IsRed(h1, q) -> ends(Put(Put(h1, s, "color", "r"), q, "color", "b"))
       [] OTHER -> ends(DeleteRotate(DeleteStraighten(h1, n), n))

DeleteFix(h, n) ==
  LET turn[k \in 0 .. h.num] ==
        IF k = 0 THEN [tree |-> h, n |-> n]
        ELSE LET s == turn[k - 1] IN IF s.n = Nil THEN s ELSE DeleteTurn(s.tree, s.n)
  IN turn[h.num].tree

\* Faulty: the predecessor is removed with its entry.
UnlinkTurnWithoutCopy(h, n) ==
  IF h.node[n].left # Nil /\ h.node[n].right # Nil
  THEN [heap |-> h, node |-> Neighbour(h, n, "left")]
  ELSE [heap |-> h, node |-> n]

\* A node with two children takes over the entry of its predecessor, which is
\* removed in its stead.
UnlinkTurn(h, n) ==
  LET q == Neighbour(h, n, "left")
  IN IF h.node[n].left # Nil /\ h.node[n].right # Nil
     THEN [heap |-> Put(Put(h, n, "key", h.node[q].key), n, "attr", h.node[q].attr), node |-> q]
     ELSE [heap |-> h, node |-> n]

Unlinked(h, node) ==
  LET turn[k \in 0 .. h.num] ==
        IF k = 0 THEN [heap |-> h, node |-> node]
        ELSE LET s == turn[k - 1] IN UnlinkTurn(s.heap, s.node)
  IN turn[h.num]

\* c takes the place of n, which it was the only child of, if any.
Spliced(h, n, c) ==
  LET r == Replace(h, n, c)
  IN IF IsRed(r, n) \/ c = Nil THEN r
     ELSE IF IsRed(r, c) THEN Put(r, c, "color", "b")
     ELSE DeleteFix(r, c)

Freed(h, n) ==
  [h EXCEPT !.num = @ - 1, !.node = [x \in DOMAIN h.node \ {n} |-> h.node[x]]]

DeleteNode(h, n) ==
  LET child == IF h.node[n].left # Nil THEN h.node[n].left ELSE h.node[n].right
  IN Freed(Spliced(h, n, child), n)

Delete(h, node) == LET u == Unlinked(h, node) IN DeleteNode(u.heap, u.node)

-----------------------------------------------------------------------------
(* Queries.                                                                *)

\* The node found, Nil for DIAG_FAILURE.
Search(h, key) ==
  LET from[n \in DOMAIN h.node \cup {Nil}] ==
        IF n = Nil THEN Nil
        ELSE LET c == Compare(h, key, h.node[n].key)
             IN IF c = 0 THEN n ELSE from[h.node[n][IF c < 0 THEN "left" ELSE "right"]]
  IN from[h.root]

\* What for_each passes to its callback, in this order.
Entries(h) ==
  LET from[n \in DOMAIN h.node \cup {Nil}] ==
        IF n = Nil THEN <<>>
        ELSE <<[key |-> h.node[n].key, attr |-> h.node[n].attr]>> \o from[Successor(h, n)]
  IN from[Minimum(h)]
=============================================================================
