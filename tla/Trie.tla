--------------------------------- MODULE Trie --------------------------------
(***************************************************************************)
(* The double array of trie.c into which words are inserted one by one.    *)
(* Where state s goes to with code c is base[s] + c, if the check of that  *)
(* slot is s.  State 0 is the root, and CODE_NONE, which is 0 as well,     *)
(* marks what is not used.                                                 *)
(***************************************************************************)
EXTENDS Integers, Sequences, Seqs, FiniteSets

LOCAL INSTANCE FiniteSetsExt

CONSTANTS
  Words,     \* words of bytes
  MaxWords   \* bound: insertions

VARIABLE trie  \* the slots, the words inserted, and what relocations did

CodeNone == 0
CodeEof == 1
Code(b) == b + 2
CodeMax == Max({CodeEof} \cup UNION {{Code(b) : b \in ToSet(w)} : w \in Words})

Size(bc) == Max(DOMAIN bc) + 1

ExtendIfNecessary(bc, s) ==
  [x \in 0 .. Max({s, Size(bc) - 1}) |->
     IF x \in DOMAIN bc THEN bc[x] ELSE [base |-> CodeNone, check |-> CodeNone]]

SetCheck(bc, s, c) == [bc EXCEPT ![s].check = c]

Goes(bc, s, c) ==
  LET t == bc[s].base + c IN t \in DOMAIN bc /\ bc[t].check = s

\* The codes with which s goes anywhere.
Transitions(bc, s) ==
  SelectSeq([c \in 1 .. CodeMax |-> c], LAMBDA c : Goes(bc, s, c))

\* Faulty: the states after the children of s do not learn that these have moved.
RelocateChildren(bc, s, b) ==
  LET move(a, c) ==
        SetCheck([SetCheck(ExtendIfNecessary(a, b + c), b + c, s) EXCEPT
                    ![b + c].base = bc[bc[s].base + c].base],
                 bc[s].base + c, CodeNone)
  IN [FoldLeft(move, bc, Transitions(bc, s)) EXCEPT ![s].base = b]

\* The children of s move to b, and the states after them learn of it; what
\* there was is read before anything moves.
Relocate(bc, s, b) ==
  LET move(a, c) ==
        LET dst == bc[s].base + c
            moved == [SetCheck(ExtendIfNecessary(a, b + c), b + c, s) EXCEPT ![b + c].base = bc[dst].base]
            told == FoldLeft(LAMBDA x, g : SetCheck(x, bc[dst].base + g, b + c), moved, Transitions(bc, dst))
        IN SetCheck(told, dst, CodeNone)
  IN [FoldLeft(move, bc, Transitions(bc, s)) EXCEPT ![s].base = b]

\* The first base that seems to have room for c.
NewBase(bc, c) ==
  CHOOSE b \in 0 .. Size(bc) - c :
    LET fits(k) == k + c = Size(bc) \/ (bc[k].base = CodeNone /\ bc[k + c] = [base |-> CodeNone, check |-> CodeNone])
    IN fits(b) /\ \A k \in 0 .. b - 1 : ~fits(k)

\* For the property: whether a slot is unused; those after the root have the
\* same check as those that are not.
Unused(s, t) ==
  t \notin DOMAIN s.bc
  \/ (s.bc[t].check = CodeNone /\ t \notin {0} \cup {s.bc[0].base + c : c \in s.tops})

\* From state s.at with code c, by a relocation if the slot is taken.  The last
\* write may be beyond the array, which is as long as the relocation made it.
AddTransition(s, c) ==
  LET bc == ExtendIfNecessary(s.bc, Max({s.at, s.bc[s.at].base + c}))
      taken == bc[bc[s.at].base + c].check # CodeNone
      b == IF taken THEN NewBase(bc, c) ELSE bc[s.at].base
      new == IF taken THEN Relocate(bc, s.at, b) ELSE bc
      targets == {b + k : k \in {c} \cup (IF taken THEN ToSet(Transitions(bc, s.at)) ELSE {})}
  IN [s EXCEPT !.bc = IF b + c \in DOMAIN new THEN SetCheck(new, b + c, s.at) ELSE new,
               !.at = b + c,
               !.tops = IF s.at = 0 THEN @ \cup {c} ELSE @,
               !.outside = @ \/ b + c \notin DOMAIN new,
               !.collided = @ \/ \E t \in targets : ~Unused([s EXCEPT !.bc = bc], t)]

\* The state that the word leads to, and how many of its bytes it takes.
Walked(bc, word) ==
  LET walk[k \in 0 .. Len(word)] ==
        IF k = 0 THEN [at |-> 0, i |-> 0]
        ELSE LET w == walk[k - 1]
             IN IF w.i = k - 1 /\ Goes(bc, w.at, Code(word[k]))
                THEN [at |-> bc[w.at].base + Code(word[k]), i |-> k] ELSE w
  IN walk[Len(word)]

Traverse(bc, word) ==
  LET w == Walked(bc, word) IN w.i = Len(word) /\ Goes(bc, w.at, CodeEof)

CodesOf(word) == Append([i \in DOMAIN word |-> Code(word[i])], CodeEof)

\* After a collision or a write beyond the array there is nothing to say.
Insert(word) ==
  LET w == Walked(trie.bc, word)
      new == FoldLeft(LAMBDA s, c : IF s.outside THEN s ELSE AddTransition(s, c),
                      [trie EXCEPT !.at = w.at, !.tops = IF w.i = 0 THEN @ ELSE @ \cup {Code(word[1])}],
                      SubSeq(CodesOf(word), w.i + 1, Len(word) + 1))
  IN /\ ~trie.outside /\ ~trie.collided /\ Cardinality(trie.words \cup {word}) <= MaxWords
     /\ trie' = [(IF Traverse(trie.bc, word) THEN trie ELSE new) EXCEPT
                   !.words = @ \cup {word}, !.at = 0]

Init ==
  trie = [bc |-> [x \in {0} |-> [base |-> CodeNone, check |-> CodeNone]],
          at |-> 0, words |-> {}, tops |-> {}, outside |-> FALSE, collided |-> FALSE]

Next == \E word \in Words : Insert(word)

-----------------------------------------------------------------------------
(***************************************************************************)
(* As long as no relocation has met a slot that is in use, or the end of   *)
(* the array, exactly the words that were inserted are found.  The empty   *)
(* word is also found if it was not, since the slots that are not used     *)
(* look like those after the root (trie.c:139-161, 181-215).               *)
(***************************************************************************)
FindsInserted ==
  ~trie.outside /\ ~trie.collided =>
    \A word \in Words :
      /\ word \in trie.words => Traverse(trie.bc, word)
      /\ Traverse(trie.bc, word) /\ word # <<>> => word \in trie.words
=============================================================================
