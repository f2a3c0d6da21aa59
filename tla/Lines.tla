-------------------------------- MODULE Lines --------------------------------
(***************************************************************************)
(* diag_line_read of line.c under a caller that reads lines until it gets  *)
(* none, as all tools do that read lines.  The port below it may return    *)
(* less than there is, or an error.                                        *)
(***************************************************************************)
EXTENDS Integers, Sequences

CONSTANTS
  Char, NL,   \* characters, and the one that ends a line
  BufSize,    \* the size of the buffer
  MaxLen      \* bound: the longest input

\* What the reader takes for granted: its buffer has room, and a newline is a
\* character.
LineSizes == BufSize \in Nat \ {0} /\ NL \in Char /\ MaxLen \in Nat

VARIABLE context  \* struct diag_line_context with its port, and the caller

\* Reads are those of a port.
Port == INSTANCE Port WITH
  Byte <- Char, Junk <- 0, BufLen <- BufSize, Room <- 0, ShortReads <- TRUE, ShortWrites <- FALSE,
  op <- 0, kind <- 0, content <- 0, i_pos <- 0, buf <- 0, ret <- 0, pos <- 0, r <- 0, pc <- 0

\* buf is the buffer from head to sentinel, line what was read of the next
\* line; one that is not allocated is empty.
Init ==
  \E kind \in {"fd", "fp"}, len \in 0 .. MaxLen : \E content \in [1 .. len -> Char] :
    context = [kind |-> kind, content |-> content, i_pos |-> 0, buf |-> <<>>,
               line |-> <<>>, lines |-> <<>>, end |-> "none"]

\* Faulty: the line is not reset.
ReturnedTwice(c, line, buf) == [c EXCEPT !.lines = Append(@, line), !.line = line, !.buf = buf]

Returned(c, line, buf) == [c EXCEPT !.lines = Append(@, line), !.line = <<>>, !.buf = buf]

\* The buffer is filled again; at the end of the input the last line need not
\* have a newline.
Fill ==
  /\ context.end = "none" /\ context.buf = <<>>
  /\ \E t \in Port!ReadBytes(context.kind, Len(context.content) - context.i_pos, BufSize) :
       LET read == SubSeq(context.content, context.i_pos + 1, context.i_pos + t.count)
           c == [context EXCEPT !.i_pos = @ + t.count]
       IN context' = IF t.ret = -1 THEN [c EXCEPT !.end = "error", !.line = <<>>]
                     ELSE IF t.count > 0 THEN [c EXCEPT !.buf = read]
                     ELSE IF context.line = <<>> THEN [c EXCEPT !.end = "eof"]
                     ELSE Returned(c, context.line, <<>>)

Newlines(s) == {i \in DOMAIN s : s[i] = NL}

\* A line ends, or all there is in the buffer belongs to it.
Scan ==
  LET buf == context.buf
      line == context.line
  IN /\ buf # <<>>
     /\ \/ /\ Newlines(buf) = {}
           /\ context' = [context EXCEPT !.line = line \o buf, !.buf = <<>>]
        \/ \E h \in Newlines(buf) :
             /\ \A i \in Newlines(buf) : h <= i
             /\ context' = Returned(context, line \o SubSeq(buf, 1, h - 1), SubSeq(buf, h + 1, Len(buf)))

Next == Fill \/ Scan

Spec == Init /\ [][Next]_context
-----------------------------------------------------------------------------
\* Places where a line of a text may end: before it, at a newline, behind it.
Ends(text) == {0, Len(text) + 1} \cup Newlines(text)

\* The k-th of these lines is what there is between the ends e[k - 1] and e[k],
\* on one line; what comes after the last newline is a line if there is anything.
AreLines(lines, e, text) ==
  /\ e[0] = 0
  /\ \A k \in 1 .. Len(lines) :
       /\ e[k - 1] < e[k]
       /\ lines[k] = SubSeq(text, e[k - 1] + 1, e[k] - 1)
       /\ \A i \in e[k - 1] + 1 .. e[k] - 1 : text[i] # NL
       /\ e[k] > Len(text) => lines[k] # <<>>

(***************************************************************************)
(* However the reads cut the input, the lines are those of the input, all  *)
(* of them if it was read to its end.  After an error the caller has some  *)
(* of the first lines, none of them in part (line.c:51-107).               *)
(***************************************************************************)
LinesRead ==
  \E e \in [0 .. Len(context.lines) -> Ends(context.content)] :
    /\ AreLines(context.lines, e, context.content)
    /\ context.end = "eof" => e[Len(context.lines)] >= Len(context.content)
=============================================================================
