-------------------------------- MODULE Store --------------------------------
(***************************************************************************)
(* What the containers promise to their users: a red-black tree is a list  *)
(* of entries in the order of the tree in which an entry comes after those *)
(* that are equal to it, a set is a sorted list without duplicates, a      *)
(* vector is a list that grows at its end, and of two deques one can be    *)
(* appended to the other.  The call and its arguments are part of the      *)
(* state: what happens to the content is what was asked for.               *)
(***************************************************************************)
EXTENDS Integers, Sequences

LOCAL INSTANCE SequencesExt

CONSTANTS Keys, Attrs, MaxLength

VARIABLES kind, cmp, content, other, call

vars == <<kind, cmp, content, other, call>>

Room == Len(content) < MaxLength

\* x comes before y in the tree's order.
Before(x, y) == IF cmp = "rev" THEN x > y ELSE x < y

Init ==
  /\ kind \in {"tree", "deque", "vector", "set"}
  /\ cmp \in {"imm", "rev"}
  /\ content = <<>> /\ other = <<>>
  /\ call = <<"create">>

InsertEntry(key, attr) ==
  LET i == SelectInSeq(content, LAMBDA e : Before(key, e.key))
  IN content' = InsertAt(content, IF i = 0 THEN Len(content) + 1 ELSE i,
                         [key |-> key, attr |-> attr])

Tree ==
  /\ kind = "tree"
  /\ \/ Room /\ \E key \in Keys, attr \in Attrs :
          call' = <<"insert", key, attr>> /\ InsertEntry(key, attr)
     \/ \E i \in DOMAIN content : call' = <<"delete", i>> /\ content' = RemoveAt(content, i)
  /\ UNCHANGED <<kind, cmp, other>>

Deque ==
  /\ kind = "deque"
  /\ \/ \E k \in Keys :
          /\ \/ call' = <<"push", k>> /\ content' = Append(content, k)
             \/ call' = <<"unshift", k>> /\ content' = <<k>> \o content
          /\ UNCHANGED other
     \/ /\ content # <<>>
        /\ \/ call' = <<"shift">> /\ content' = Tail(content)
           \/ call' = <<"pop">> /\ content' = Front(content)
        /\ UNCHANGED other
     \/ call' = <<"swap">> /\ content' = other /\ other' = content
     \/ call' = <<"append">> /\ content' = content \o other /\ other' = <<>>
  /\ UNCHANGED <<kind, cmp>>

Vector ==
  /\ kind = "vector"
  /\ \/ \E k \in Keys : call' = <<"push", k>> /\ content' = Append(content, k)
     \/ content # <<>> /\ call' = <<"pop">> /\ content' = Front(content)
     \/ \E i \in DOMAIN content, k \in Keys :
          call' = <<"set", i, k>> /\ content' = [content EXCEPT ![i] = k]
     \/ \E k \in Keys : call' = <<"fill", k>> /\ content' = [i \in DOMAIN content |-> k]
     \/ \E i \in 0 .. Len(content) :
          call' = <<"copy", i>> /\ content' = SubSeq(content, i + 1, Len(content))
  /\ UNCHANGED <<kind, cmp, other>>

Set ==
  /\ kind = "set"
  /\ \E x \in Keys :
       \/ call' = <<"insert", x>> /\ content' = SetToSortSeq(ToSet(content) \cup {x}, <)
       \/ call' = <<"erase", x>> /\ content' = SetToSortSeq(ToSet(content) \ {x}, <)
  /\ UNCHANGED <<kind, cmp, other>>

Next == Tree \/ Deque \/ Vector \/ Set

Spec == Init /\ [][Next]_vars
=============================================================================
