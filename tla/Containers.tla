----------------------------- MODULE Containers ------------------------------
(***************************************************************************)
(* The containers of the library under every sequence of legal calls: the  *)
(* red-black tree of rbtree.c, two deques, a vector, a set.  A behaviour   *)
(* exercises one of them.  Addresses are names: after each call the nodes  *)
(* of a tree are numbered anew in its order, and those of the deques by    *)
(* the deque they are in and the place there.                              *)
(***************************************************************************)
EXTENDS RBTree, FiniteSets

LOCAL INSTANCE SequencesExt
LOCAL INSTANCE Functions

CONSTANTS
  Keys, Attrs,  \* what trees hold; the other containers hold keys
  MaxLength     \* bound: the entries in a container

VARIABLES
  kind,     \* the container in use
  tree,     \* struct diag_rbtree
  deleted,  \* whether an entry was ever deleted from it
  elem,     \* the elements of the deques by address
  deque,    \* the two struct diag_deque
  vec,      \* struct diag_vector
  set,      \* the array of struct diag_set
  content,  \* what a walk through the container (the first deque) yields
  other,    \* what a walk through the second deque yields
  call      \* the last call, with its arguments

vars == <<kind, tree, deleted, elem, deque, vec, set, content, other, call>>

-----------------------------------------------------------------------------
(* Trees.                                                                  *)

RECURSIVE NodesFrom(_, _)
NodesFrom(h, n) == IF n = Nil THEN <<>> ELSE <<n>> \o NodesFrom(h, Successor(h, n))

\* The tree with its nodes numbered in order.
Renumbered(h) ==
  LET order == NodesFrom(h, Minimum(h))
      new == [n \in ToSet(order) \cup {Nil} |->
                IF n = Nil THEN Nil ELSE CHOOSE i \in DOMAIN order : order[i] = n]
  IN [h EXCEPT !.root = new[@],
        !.node = [i \in DOMAIN order |->
                    [h.node[order[i]] EXCEPT !.parent = new[@], !.left = new[@], !.right = new[@]]]]

TreeInsert(key, attr) ==
  /\ kind = "tree" /\ tree.num < MaxLength
  /\ call' = <<"insert", key, attr>>
  /\ tree' = Renumbered(Insert(tree, tree.num + 1, key, attr))
  /\ UNCHANGED <<kind, deleted, elem, deque, vec, set>>

TreeDelete(n) ==
  /\ kind = "tree"
  /\ call' = <<"delete", n>>
  /\ tree' = Renumbered(Delete(tree, n))
  /\ deleted' = TRUE
  /\ UNCHANGED <<kind, elem, deque, vec, set>>

-----------------------------------------------------------------------------
(* Deques: first and last are the ends, length is kept.                    *)

EmptyDeque == [first |-> Nil, last |-> Nil, length |-> 0]

RECURSIVE Linked(_, _)
Linked(es, a) == IF a = Nil THEN <<>> ELSE <<a>> \o Linked(es, es[a].next)

\* The elements and the deques with the elements numbered in order.
Numbered(es, ds) ==
  LET order == Linked(es, ds[1].first) \o Linked(es, ds[2].first)
      new(a) == IF a = Nil THEN Nil ELSE CHOOSE i \in DOMAIN order : order[i] = a
  IN /\ elem' = [i \in DOMAIN order |->
                   [es[order[i]] EXCEPT !.prev = new(@), !.next = new(@)]]
     /\ deque' = [d \in 1 .. 2 |-> [ds[d] EXCEPT !.first = new(@), !.last = new(@)]]

\* Names of the ends and links for shift, unshift (TRUE) and pop, push.
Ends(front) == IF front THEN [end1 |-> "first", end2 |-> "last", link1 |-> "prev", link2 |-> "next"]
                        ELSE [end1 |-> "last", end2 |-> "first", link1 |-> "next", link2 |-> "prev"]

DequeAdd(front, attr) ==
  LET e == Ends(front)
      a == Len(elem) + 1
      d == deque[1]
      tmp == d[e.end1]
      new == [x \in {"attr", "prev", "next"} |->
                CASE x = "attr" -> attr [] x = e.link1 -> Nil [] x = e.link2 -> tmp]
      es == Append(elem, new)
      ends == [d EXCEPT ![e.end1] = a, !.length = @ + 1]
  IN /\ kind = "deque" /\ Len(elem) < MaxLength
     /\ call' = <<IF front THEN "unshift" ELSE "push", attr>>
     /\ IF d.length = 0 THEN Numbered(es, [deque EXCEPT ![1] = [ends EXCEPT ![e.end2] = a]])
        ELSE Numbered([es EXCEPT ![tmp][e.link1] = a], [deque EXCEPT ![1] = ends])
     /\ UNCHANGED <<kind, tree, deleted, vec, set>>

\* The element that is removed belongs to the caller, who frees it.
DequeRemove(front) ==
  LET e == Ends(front)
      d == deque[1]
      tmp == elem[d[e.end1]][e.link2]
      shorter == [d EXCEPT !.length = @ - 1]
  IN /\ kind = "deque" /\ d.length > 0
     /\ call' = <<IF front THEN "shift" ELSE "pop">>
     /\ IF d.length = 1
        THEN Numbered(elem, [deque EXCEPT ![1] = [shorter EXCEPT !.first = Nil, !.last = Nil]])
        ELSE Numbered([elem EXCEPT ![tmp][e.link1] = Nil],
                      [deque EXCEPT ![1] = [shorter EXCEPT ![e.end1] = tmp]])
     /\ UNCHANGED <<kind, tree, deleted, vec, set>>

DequeAppend ==
  LET h == deque[1]
      t == deque[2]
      joined == [elem EXCEPT ![h.last].next = t.first, ![t.first].prev = h.last]
  IN /\ kind = "deque"
     /\ call' = <<"append">>
     /\ CASE t.length = 0 -> UNCHANGED <<elem, deque>>
          [] t.length > 0 /\ h.length = 0 -> Numbered(elem, <<t, EmptyDeque>>)
          [] OTHER -> Numbered(joined, <<[h EXCEPT !.length = @ + t.length, !.last = t.last], EmptyDeque>>)
     /\ UNCHANGED <<kind, tree, deleted, vec, set>>

\* The caller takes up the other deque.
DequeSwap ==
  /\ kind = "deque"
  /\ call' = <<"swap">>
  /\ Numbered(elem, <<deque[2], deque[1]>>)
  /\ UNCHANGED <<kind, tree, deleted, vec, set>>

-----------------------------------------------------------------------------
(* Vectors: only the first length of the capacity elements mean anything.  *)

RECURSIVE Capacity(_, _)
Capacity(c, length) == IF c < length THEN Capacity(2 * c, length) ELSE c

VectorCreate(length) ==
  [length |-> length, elements |-> [k \in 1 .. Capacity(1, length) |-> 0]]

VectorPush(v, e) ==
  LET c == Len(v.elements)
      room == IF v.length = c THEN v.elements \o [k \in 1 .. c |-> 0] ELSE v.elements
  IN [length |-> v.length + 1, elements |-> [room EXCEPT ![v.length + 1] = e]]

VectorPop(v) == [v EXCEPT !.length = @ - 1]
VectorSet(v, k, e) == [v EXCEPT !.elements[k] = e]
VectorFill(v, e) == [v EXCEPT !.elements = [k \in DOMAIN @ |-> IF k <= v.length THEN e ELSE @[k]]]

VectorCopyFrom(v, start) ==
  LET w == VectorCreate(v.length - start)
  IN [w EXCEPT !.elements = [k \in DOMAIN @ |-> IF k <= w.length THEN v.elements[start + k] ELSE @[k]]]

VectorCall ==
  /\ kind = "vector"
  /\ \/ /\ vec.length < MaxLength
        /\ \E e \in Keys : call' = <<"push", e>> /\ vec' = VectorPush(vec, e)
     \/ vec.length > 0 /\ call' = <<"pop">> /\ vec' = VectorPop(vec)
     \/ \E k \in 1 .. vec.length, e \in Keys :
          call' = <<"set", k, e>> /\ vec' = VectorSet(vec, k, e)
     \/ \E e \in Keys : call' = <<"fill", e>> /\ vec' = VectorFill(vec, e)
     \/ \E start \in 0 .. vec.length :
          call' = <<"copy", start>> /\ vec' = VectorCopyFrom(vec, start)
  /\ UNCHANGED <<kind, tree, deleted, elem, deque, set>>

-----------------------------------------------------------------------------
(* Sets: an array that binary search must find sorted.                     *)

\* bsearch: where x is in a sorted array, 0 if it is not there.
BSearch(arr, x) ==
  LET at == {i \in DOMAIN arr : arr[i] = x} IN IF at = {} THEN 0 ELSE CHOOSE i \in at : TRUE

SetInsert(arr, x) ==
  IF BSearch(arr, x) # 0 THEN arr ELSE SortSeq(Append(arr, x), <)

SetErase(arr, x) ==
  IF BSearch(arr, x) = 0 THEN arr ELSE RemoveAt(arr, BSearch(arr, x))

SetCall ==
  /\ kind = "set"
  /\ \E x \in Keys :
       \/ call' = <<"insert", x>> /\ set' = SetInsert(set, x)
       \/ call' = <<"erase", x>> /\ set' = SetErase(set, x)
  /\ UNCHANGED <<kind, tree, deleted, elem, deque, vec>>

-----------------------------------------------------------------------------
DequeContent(es, d) ==
  LET order == Linked(es, d.first) IN [i \in DOMAIN order |-> es[order[i]].attr]

Content(h, es, ds, v, arr) ==
  CASE kind = "tree" -> Entries(h)
    [] kind = "deque" -> DequeContent(es, ds[1])
    [] kind = "vector" -> SubSeq(v.elements, 1, v.length)
    [] kind = "set" -> arr

Init ==
  /\ kind \in {"tree", "deque", "vector", "set"}
  /\ tree \in {Create("imm"), Create("rev")}
  /\ deleted = FALSE
  /\ elem = <<>> /\ deque = <<EmptyDeque, EmptyDeque>>
  /\ vec = VectorCreate(0)
  /\ set = <<>>
  /\ content = <<>> /\ other = <<>>
  /\ call = <<"create">>

Call ==
  \/ \E key \in Keys, attr \in Attrs : TreeInsert(key, attr)
  \/ \E n \in DOMAIN tree.node : TreeDelete(n)
  \/ \E front \in BOOLEAN, attr \in Keys : DequeAdd(front, attr)
  \/ \E front \in BOOLEAN : DequeRemove(front)
  \/ DequeAppend
  \/ DequeSwap
  \/ VectorCall
  \/ SetCall

Next ==
  /\ Call
  /\ content' = Content(tree', elem', deque', vec', set')
  /\ other' = DequeContent(elem', deque'[2])

Spec == Init /\ [][Next]_vars

-----------------------------------------------------------------------------
(* Properties.                                                             *)

Promise == INSTANCE Store WITH cmp <- tree.cmp

\* Every container does what it promises for the call and the arguments it was
\* given: a tree keeps its entries in order, the oldest first among equal ones,
\* and a deletion, which moves the entry of another node, takes away exactly the
\* one asked for; each end of a deque is the one that the call is about, the
\* vector grows, and a set gains or loses the element named (rbtree.c:240-461,
\* deque.c:38-138, vector.c, set.c).
Implements == Promise!Spec

SearchFinds ==
  /\ \A key \in Keys :
       LET n == Search(tree, key)
       IN IF n = Nil THEN \A m \in DOMAIN tree.node : tree.node[m].key # key
          ELSE tree.node[n].key = key
  /\ tree.num = Len(tree.node)

NoTwoReds ==
  /\ tree.root # Nil => IsBlack(tree, tree.root)
  /\ \A n \in DOMAIN tree.node :
       IsRed(tree, n) => NotRed(tree, tree.node[n].left) /\ NotRed(tree, tree.node[n].right)

RECURSIVE BlackHeights(_, _)
BlackHeights(h, n) ==
  IF n = Nil THEN {0}
  ELSE {b + (IF IsBlack(h, n) THEN 1 ELSE 0) :
          b \in BlackHeights(h, h.node[n].left) \cup BlackHeights(h, h.node[n].right)}

SameBlackHeight == Cardinality(BlackHeights(tree, tree.root)) = 1

RedBlack == tree.ok /\ NoTwoReds /\ (~deleted => SameBlackHeight)

DequesLinked ==
  \A d \in 1 .. 2 :
    LET order == Linked(elem, deque[d].first)
    IN /\ deque[d].length = Len(order)
       /\ deque[d].last = (IF order = <<>> THEN Nil ELSE Last(order))
       /\ \A i \in DOMAIN order : elem[order[i]].prev = (IF i = 1 THEN Nil ELSE order[i - 1])

(***************************************************************************)
(* A search finds an entry with the key if there is one.  No assertion     *)
(* fails and no red node is the root or has a red child, also after        *)
(* deletions that do not rebalance; as long as nothing was deleted all     *)
(* paths have the same number of black nodes, so that the height is        *)
(* logarithmic (rbtree.c:113-195, 240-347, 433-461).  Going backwards      *)
(* through a deque meets the same elements, and the length that decides    *)
(* which links are written is right (deque.c:38-138).                      *)
(***************************************************************************)
StructureSound == SearchFinds /\ RedBlack /\ DequesLinked
=============================================================================
