-------------------------------- MODULE Port ---------------------------------
(***************************************************************************)
(* diag_port_copy and diag_port_diff (port.c): copy one port into another, *)
(* or compare two, block by block, over what read_bytes and write_bytes do *)
(* on a descriptor, on a stdio stream and on a region of memory.           *)
(*                                                                         *)
(* The ports are fresh, as they are wherever the program does this.  A     *)
(* behaviour is one call of one of the two functions.                      *)
(***************************************************************************)
EXTENDS Integers, Sequences

CONSTANTS
  Byte,
  Junk,        \* what memory fresh from malloc holds
  BufLen,      \* BUFFER_LENGTH
  Room,        \* the size of the memory behind an output port of kind "bm"
  MaxLen,      \* bound: the longest content
  ShortReads,  \* TRUE: read() may return less than what is asked for and left
  ShortWrites  \* TRUE: write() may accept less than what it is given

ASSUME PortAssumption ==
  /\ Junk \notin Byte
  /\ BufLen \in Nat \ {0}
  /\ Room \in Nat
  /\ MaxLen \in Nat
  /\ ShortReads \in BOOLEAN
  /\ ShortWrites \in BOOLEAN

VARIABLES
  op,       \* "copy" or "diff"
  kind,     \* the kinds of the two ports; only files opened by name, which
            \* are streams, are ever compared
  content,  \* what the ports have to give; for the output of a copy, what it
            \* has taken
  i_pos,    \* how much has been read from them
  buf,      \* the blocks read from them
  ret,      \* what the reads have returned
  pos,      \* where the blocks being compared began; for the input of a copy,
            \* the length copied
  r,        \* the result
  pc

vars == <<op, kind, content, i_pos, buf, ret, pos, r, pc>>

Kind     == {"fd", "fp", "bm"}
Contents == UNION {[1..k -> Byte] : k \in 0..MaxLen}

TypeOK ==
  /\ op \in {"copy", "diff"}
  /\ kind \in [1..2 -> Kind]
  /\ content \in [1..2 -> Seq(Byte)]
  /\ i_pos \in [1..2 -> Nat]
  /\ buf \in [1..2 -> [1..BufLen -> Byte \cup {Junk}]]
  /\ ret \in [1..2 -> {-1, 0, 1}]
  /\ pos \in [1..2 -> Nat]
  /\ r \in Nat \cup {-1}
  /\ pc \in {"read1", "read2", "compare", "write", "rest", "done"}

Init ==
  /\ \/ op = "copy" /\ kind \in [1..2 -> Kind] /\ content \in Contents \X {<<>>}
     \/ op = "diff" /\ kind = <<"fp", "fp">> /\ content \in Contents \X Contents
  /\ i_pos = [k \in 1..2 |-> 0]
  /\ buf = [k \in 1..2 |-> [b \in 1..BufLen |-> Junk]]
  /\ ret = [k \in 1..2 |-> 0]
  /\ pos = [k \in 1..2 |-> 0]
  /\ r = 0
  /\ pc = "read1"

Result(x) == r' = x /\ pc' = "done"

-----------------------------------------------------------------------------
\* A transfer of count bytes by a call that returns ret.
Transfer(count, x) == [count |-> count, ret |-> x]

(***************************************************************************)
(* read_bytes of size bytes on a port with left bytes to come.             *)
(***************************************************************************)
AllThereIs(left, size) ==
  IF left < size THEN Transfer(left, 0) ELSE Transfer(size, 1)

\* A short count of read() is reported just as the end of the file is.
ReadBytesFd(left, size) ==
  LET all == AllThereIs(left, size)
  IN  {all, Transfer(0, -1)}
      \cup {Transfer(c, 0) : c \in IF ShortReads THEN 1..(all.count - 1) ELSE {}}

ReadBytesFp(left, size) ==
  LET all == AllThereIs(left, size)
  IN  {all} \cup {Transfer(c, -1) : c \in (0..all.count) \ {size}}

ReadBytesBm(left, size) == {AllThereIs(left, size)}

ReadBytes(knd, left, size) ==
  CASE knd = "fd" -> ReadBytesFd(left, size)
    [] knd = "fp" -> ReadBytesFp(left, size)
    [] knd = "bm" -> ReadBytesBm(left, size)

(***************************************************************************)
(* write_bytes of size bytes on a port with room for so many; only memory  *)
(* has a limit, and takes all or nothing.                                  *)
(***************************************************************************)
WriteBytesFd(size) ==
  {Transfer(size, 1), Transfer(0, -1)}
  \cup {Transfer(c, 0) : c \in IF ShortWrites THEN 1..(size - 1) ELSE {}}

WriteBytesFp(size) ==
  {Transfer(size, 1)} \cup {Transfer(c, -1) : c \in 0..(size - 1)}

WriteBytesBm(room, size) ==
  {IF size <= room THEN Transfer(size, 1) ELSE Transfer(0, 0)}

WriteBytes(knd, room, size) ==
  CASE knd = "fd" -> WriteBytesFd(size)
    [] knd = "fp" -> WriteBytesFp(size)
    [] knd = "bm" -> WriteBytesBm(room, size)

\* The buffer of port k after the next count bytes are read into it.
Filled(k, count) ==
  [b \in 1..BufLen |-> IF b <= count THEN content[k][i_pos[k] + b] ELSE buf[k][b]]

\* A read of a block from port k that returns x.
Read(k, x) ==
  /\ \E t \in ReadBytes(kind[k], Len(content[k]) - i_pos[k], BufLen) :
       /\ t.ret = x
       /\ i_pos' = [i_pos EXCEPT ![k] = @ + t.count]
       /\ buf' = [buf EXCEPT ![k] = Filled(k, t.count)]
       /\ ret' = [ret EXCEPT ![k] = x]
  /\ UNCHANGED <<op, kind, content, pos>>

ReadFails ==
  /\ \/ pc = "read1" /\ Read(1, -1)
     \/ pc = "read2" /\ Read(2, -1)
  /\ Result(-1)

-----------------------------------------------------------------------------
(***************************************************************************)
(* diag_port_copy.  A full block is written in the loop, the rest after it.*)
(***************************************************************************)
\* Faulty: only one block.
CopyReadOnce ==
  /\ op = "copy"
  /\ pc = "read1"
  /\ \E x \in {0, 1} : Read(1, x)
  /\ pc' = "rest"
  /\ UNCHANGED r

\* Faulty: the rest is not written.
CopyReadBlocks ==
  /\ op = "copy"
  /\ pc = "read1"
  /\ \/ Read(1, 1) /\ pc' = "write" /\ UNCHANGED r
     \/ Read(1, 0) /\ Result(pos[1])

CopyRead ==
  /\ op = "copy"
  /\ pc = "read1"
  /\ \/ Read(1, 1) /\ pc' = "write"
     \/ Read(1, 0) /\ pc' = "rest"
  /\ UNCHANGED r

\* The first len bytes of the buffer go out; a count short of it is no error.
Write(len, next) ==
  /\ \E t \in WriteBytes(kind[2], Room - Len(content[2]), len) :
       /\ content' = [content EXCEPT ![2] = @ \o SubSeq(buf[1], 1, t.count)]
       /\ IF t.ret < 0
            THEN Result(-1) /\ UNCHANGED pos
            ELSE /\ pos' = [pos EXCEPT ![1] = @ + len]
                 /\ IF next = "done" THEN Result(pos'[1]) ELSE pc' = next /\ UNCHANGED r
  /\ UNCHANGED <<op, kind, i_pos, buf, ret>>

WriteBlock == pc = "write" /\ Write(BufLen, "read1")

WriteRest ==
  /\ pc = "rest"
  /\ i_pos[1] > pos[1]
  /\ Write(i_pos[1] - pos[1], "done")

NoRest ==
  /\ pc = "rest"
  /\ i_pos[1] = pos[1]
  /\ Result(pos[1])
  /\ UNCHANGED <<op, kind, content, i_pos, buf, ret, pos>>

-----------------------------------------------------------------------------
(***************************************************************************)
(* diag_port_diff.                                                         *)
(***************************************************************************)
DiffRead ==
  /\ op = "diff"
  /\ \E x \in {0, 1} :
       \/ pc = "read1" /\ Read(1, x) /\ pc' = "read2"
       \/ pc = "read2" /\ Read(2, x) /\ pc' = "compare"
  /\ UNCHANGED r

\* memcmp finds no difference in the first len bytes of the buffers.
SameBytes(len) == SubSeq(buf[1], 1, len) = SubSeq(buf[2], 1, len)

\* The lengths of the blocks that were read last.
BlockLen(k) == i_pos[k] - pos[k]

\* Two full blocks that agree: on to the next ones.
NextBlock ==
  /\ pc = "compare"
  /\ ret = <<1, 1>>
  /\ SameBytes(BufLen)
  /\ pos' = i_pos
  /\ pc' = "read1"
  /\ UNCHANGED <<op, kind, content, i_pos, buf, ret, r>>

\* Faulty: only bytes are compared, not lengths.
DifferentBytes ==
  \/ ret[1] # ret[2]
  \/ ret = <<1, 1>> /\ ~SameBytes(BufLen)
  \/ ret = <<0, 0>> /\ ~SameBytes(BlockLen(1))

Different ==
  \/ ret[1] # ret[2]
  \/ ret = <<1, 1>> /\ ~SameBytes(BufLen)
  \/ ret = <<0, 0>> /\ (BlockLen(1) # BlockLen(2) \/ ~SameBytes(BlockLen(1)))

Difference ==
  /\ pc = "compare"
  /\ Different
  /\ Result(1)
  /\ UNCHANGED <<op, kind, content, i_pos, buf, ret, pos>>

\* Both ports are at their ends.
Same ==
  /\ pc = "compare"
  /\ ret = <<0, 0>>
  /\ ~Different
  /\ Result(0)
  /\ UNCHANGED <<op, kind, content, i_pos, buf, ret, pos>>

Terminated == pc = "done" /\ UNCHANGED vars

Next ==
  \/ CopyRead \/ WriteBlock \/ WriteRest \/ NoRest
  \/ DiffRead \/ NextBlock \/ Difference \/ Same
  \/ ReadFails \/ Terminated

Spec == Init /\ [][Next]_vars

-----------------------------------------------------------------------------
(***************************************************************************)
(* What a successful copy has read it has written, byte for byte and in    *)
(* order, whatever the blocks and wherever they are cut, and its result is *)
(* the length: nothing that an earlier block has left in the buffer, or    *)
(* malloc, gets out (port.c:384-391).  This supposes that the output takes *)
(* all it is given.                                                        *)
(***************************************************************************)
CopiesWhatWasRead ==
  op = "copy" /\ pc = "done" /\ r >= 0
    /\ ~ShortWrites /\ (kind[2] = "bm" => Room >= Len(content[1])) =>
      content[2] = SubSeq(content[1], 1, i_pos[1]) /\ r = i_pos[1]

(***************************************************************************)
(* From memory or a stream a successful copy takes all there is, also if   *)
(* the length is a multiple of the block's (port.c:369-391).               *)
(***************************************************************************)
ReadsToTheEnd ==
  op = "copy" /\ pc = "done" /\ r >= 0 /\ kind[1] # "fd" =>
    i_pos[1] = Len(content[1])

(***************************************************************************)
(* The result tells equal contents from different ones, wherever the first *)
(* difference is and whichever content ends first, also at the boundary of *)
(* a block, and an error is never a verdict (port.c:414-451).              *)
(***************************************************************************)
DiffCorrect ==
  op = "diff" /\ pc = "done" /\ r # -1 => (r = 0 <=> content[1] = content[2])
=============================================================================
