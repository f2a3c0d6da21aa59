------------------------------ MODULE PortProofs ------------------------------
(***************************************************************************)
(* A copy puts out what it has read, and a comparison gives the right      *)
(* verdict, for every set of bytes, every length of the buffer and every   *)
(* size of the memory behind the output.                                   *)
(***************************************************************************)
EXTENDS Port, SequenceTheorems, TLAPS

-----------------------------------------------------------------------------
(***************************************************************************)
(* Sequences and their pieces.                                             *)
(***************************************************************************)
LEMMA Prefix ==
  ASSUME NEW S, NEW s, NEW n \in Nat, \A b \in 1..n : s[b] \in S
  PROVE  /\ SubSeq(s, 1, n) \in Seq(S)
         /\ Len(SubSeq(s, 1, n)) = n
         /\ \A b \in 1..n : SubSeq(s, 1, n)[b] = s[b]
BY SubSeqProperties

\* Two blocks have the same first n bytes iff they agree at each of them.
LEMMA PrefixesEqual ==
  ASSUME NEW S, NEW s, NEW t, NEW n \in Nat,
         \A b \in 1..n : s[b] \in S /\ t[b] \in S
  PROVE  SubSeq(s, 1, n) = SubSeq(t, 1, n) <=> \A b \in 1..n : s[b] = t[b]
<1>1. /\ SubSeq(s, 1, n) \in Seq(S) /\ Len(SubSeq(s, 1, n)) = n
      /\ \A b \in 1..n : SubSeq(s, 1, n)[b] = s[b]
  BY Prefix
<1>2. /\ SubSeq(t, 1, n) \in Seq(S) /\ Len(SubSeq(t, 1, n)) = n
      /\ \A b \in 1..n : SubSeq(t, 1, n)[b] = t[b]
  BY Prefix
<1>3. ASSUME \A b \in 1..n : s[b] = t[b]
      PROVE  SubSeq(s, 1, n) = SubSeq(t, 1, n)
  <2>1. \A b \in 1..Len(SubSeq(s, 1, n)) : SubSeq(s, 1, n)[b] = SubSeq(t, 1, n)[b]
    BY <1>1, <1>2, <1>3
  <2> QED
    BY <1>1, <1>2, <2>1, SeqEqual
<1> QED
  BY <1>1, <1>2, <1>3

\* The first n elements of a block that has what follows the first p elements
\* of a sequence continue them.
LEMMA BlockContinues ==
  ASSUME NEW S, NEW s \in Seq(S), NEW block, NEW p \in Nat, NEW n \in Nat,
         p + n <= Len(s),
         \A b \in 1..n : block[b] = s[p + b]
  PROVE  /\ SubSeq(block, 1, n) \in Seq(S)
         /\ SubSeq(s, 1, p) \o SubSeq(block, 1, n) = SubSeq(s, 1, p + n)
<1> DEFINE piece == SubSeq(block, 1, n)
           head  == SubSeq(s, 1, p)
           all   == SubSeq(s, 1, p + n)
<1>1. Len(s) \in Nat /\ \A b \in 1..(p + n) : s[b] \in S
  <2>1. Len(s) \in Nat
    BY LenProperties
  <2>2. \A b \in 1..(p + n) : b \in 1..Len(s)
    BY <2>1
  <2> QED
    BY <2>1, <2>2, ElementOfSeq
<1>2. piece \in Seq(S) /\ Len(piece) = n /\ \A b \in 1..n : piece[b] = s[p + b]
  <2>1. \A b \in 1..n : p + b \in 1..(p + n)
    OBVIOUS
  <2>2. \A b \in 1..n : block[b] \in S
    BY <1>1, <2>1
  <2> QED
    BY <2>2, Prefix
<1>3. head \in Seq(S) /\ Len(head) = p /\ \A b \in 1..p : head[b] = s[b]
  <2>1. \A b \in 1..p : b \in 1..(p + n)
    OBVIOUS
  <2> QED
    BY <1>1, <2>1, Prefix
<1>4. all \in Seq(S) /\ Len(all) = p + n /\ \A b \in 1..(p + n) : all[b] = s[b]
  BY <1>1, Prefix
<1>5. /\ head \o piece \in Seq(S)
      /\ Len(head \o piece) = p + n
      /\ \A b \in 1..(p + n) :
           (head \o piece)[b] = IF b <= p THEN head[b] ELSE piece[b - p]
  BY <1>2, <1>3, ConcatProperties
<1> HIDE DEF piece, head, all
<1>6. \A b \in 1..(p + n) : (head \o piece)[b] = all[b]
  <2> SUFFICES ASSUME NEW b \in 1..(p + n) PROVE (head \o piece)[b] = all[b]
    OBVIOUS
  <2>1. CASE b <= p
    <3>1. b \in 1..p
      BY <2>1
    <3> QED
      BY <1>3, <1>4, <1>5, <2>1, <3>1
  <2>2. CASE ~(b <= p)
    <3>1. b - p \in 1..n /\ p + (b - p) = b
      BY <2>2
    <3> QED
      BY <1>2, <1>4, <1>5, <2>2, <3>1
  <2> QED
    BY <2>1, <2>2
<1>7. head \o piece = all
  BY <1>4, <1>5, <1>6, SeqEqual
<1> QED
  BY <1>2, <1>7 DEF piece, head, all

-----------------------------------------------------------------------------
(***************************************************************************)
(* What a read and a write say of what they have transferred.              *)
(***************************************************************************)
LEMMA ReadSays ==
  ASSUME NEW knd \in Kind, NEW left \in Nat, NEW t \in ReadBytes(knd, left, BufLen)
  PROVE  /\ t.count \in 0..left
         /\ t.count <= BufLen
         /\ t.ret \in {-1, 0, 1}
         /\ t.ret = 1 => t.count = BufLen
         /\ t.ret = 0 /\ knd # "fd" => t.count = left /\ left < BufLen
<1> USE PortAssumption DEF AllThereIs, Transfer
<1>1. CASE knd = "fd"
  BY <1>1 DEF ReadBytes, ReadBytesFd
<1>2. CASE knd = "fp"
  BY <1>2 DEF ReadBytes, ReadBytesFp
<1>3. CASE knd = "bm"
  BY <1>3 DEF ReadBytes, ReadBytesBm
<1> QED
  BY <1>1, <1>2, <1>3 DEF Kind

LEMMA WriteSays ==
  ASSUME NEW knd \in Kind, NEW room \in Int, NEW size \in Nat,
         NEW t \in WriteBytes(knd, room, size)
  PROVE  /\ t.count \in 0..size
         /\ t.ret \in {-1, 0, 1}
         /\ ~ShortWrites /\ (knd = "bm" => size <= room) /\ t.ret >= 0 => t.count = size
<1> USE PortAssumption DEF Transfer
<1>1. CASE knd = "fd"
  BY <1>1 DEF WriteBytes, WriteBytesFd
<1>2. CASE knd = "fp"
  BY <1>2 DEF WriteBytes, WriteBytesFp
<1>3. CASE knd = "bm"
  BY <1>3 DEF WriteBytes, WriteBytesBm
<1> QED
  BY <1>1, <1>2, <1>3 DEF Kind

-----------------------------------------------------------------------------
(***************************************************************************)
(* The inductive invariant.  Nothing is read beyond the end, and from a    *)
(* read to the next one the buffer holds the piece of the content between  *)
(* the two positions; a read that says so has filled the buffer, or has    *)
(* come to the end.                                                        *)
(***************************************************************************)
InRange == \A k \in 1..2 : i_pos[k] <= Len(content[k])

Block(k) ==
  /\ pos[k] <= i_pos[k]
  /\ BlockLen(k) <= BufLen
  /\ \A b \in 1..BlockLen(k) : buf[k][b] = content[k][pos[k] + b]

AfterRead(k, x) ==
  /\ Block(k)
  /\ ret[k] = x
  /\ x = 1 => BlockLen(k) = BufLen
  /\ x = 0 /\ kind[k] # "fd" => i_pos[k] = Len(content[k]) /\ BlockLen(k) < BufLen

\* The output takes all it is given.
TakesAll == ~ShortWrites /\ (kind[2] = "bm" => Room >= Len(content[1]))

\* What has been copied is what the blocks before the current one have.
Copying ==
  op = "copy" /\ pc # "done" =>
    /\ pc \in {"read1", "write", "rest"}
    /\ pc = "read1" => i_pos[1] = pos[1]
    /\ pc = "write" => AfterRead(1, 1)
    /\ pc = "rest" => AfterRead(1, 0)
    /\ TakesAll => content[2] = SubSeq(content[1], 1, pos[1])

\* The two contents agree before the current blocks.
Agree == \A b \in 1..pos[1] : content[1][b] = content[2][b]

Diffing ==
  op = "diff" /\ pc # "done" =>
    /\ pc \in {"read1", "read2", "compare"}
    /\ kind = <<"fp", "fp">>
    /\ pos[1] = pos[2]
    /\ Agree
    /\ pc = "read1" => i_pos = pos
    /\ pc = "read2" => i_pos[2] = pos[2] /\ \E x \in {0, 1} : AfterRead(1, x)
    /\ pc = "compare" => \A k \in 1..2 : \E x \in {0, 1} : AfterRead(k, x)

IInv ==
  /\ TypeOK
  /\ InRange
  /\ Copying
  /\ Diffing
  /\ CopiesWhatWasRead
  /\ ReadsToTheEnd
  /\ DiffCorrect

LEMMA InitHolds == Init => IInv
<1> SUFFICES ASSUME Init PROVE IInv
  OBVIOUS
<1> USE PortAssumption DEF Init
<1>1. Contents \subseteq Seq(Byte) /\ <<>> \in Seq(Byte) /\ Len(<<>>) = 0
  BY SeqDef, EmptySeq DEF Contents
<1>2. PICK c1 \in Seq(Byte), c2 \in Seq(Byte) :
        content = <<c1, c2>> /\ (op = "copy" => c2 = <<>>)
  <2>1. CASE op = "copy"
    <3>1. content \in Contents \X {<<>>}
      BY <2>1
    <3>2. PICK c \in Contents : content = <<c, <<>>>>
      BY <3>1
    <3> QED
      BY <1>1, <3>2
  <2>2. CASE op = "diff"
    <3>1. content \in Contents \X Contents
      BY <2>2
    <3>2. PICK c \in Contents, d \in Contents : content = <<c, d>>
      BY <3>1
    <3> QED
      BY <1>1, <2>2, <3>2
  <2> QED
    BY <2>1, <2>2
<1>3. content[1] = c1 /\ content[2] = c2 /\ content \in [1..2 -> Seq(Byte)]
  BY <1>2
<1>4. Len(c1) \in Nat /\ Len(c2) \in Nat
  BY LenProperties
<1>5. TypeOK
  <2>1. kind \in [1..2 -> Kind]
    BY DEF Kind
  <2> QED
    BY <1>3, <2>1 DEF TypeOK
<1>6. InRange
  BY <1>3, <1>4 DEF InRange
<1>7. Copying
  BY <1>2, <1>3, SubSeqEmpty DEF Copying
<1>8. Diffing
  BY DEF Diffing, Agree
<1> QED
  BY <1>5, <1>6, <1>7, <1>8 DEF IInv, CopiesWhatWasRead, ReadsToTheEnd, DiffCorrect

-----------------------------------------------------------------------------
\* A read from where the last block ended leaves a block, and the other port
\* alone.
LEMMA ReadBlock ==
  ASSUME TypeOK, InRange, NEW k \in 1..2, NEW x \in {-1, 0, 1}, Read(k, x)
  PROVE  /\ i_pos' \in [1..2 -> Nat]
         /\ buf' \in [1..2 -> [1..BufLen -> Byte \cup {Junk}]]
         /\ ret' \in [1..2 -> {-1, 0, 1}]
         /\ UNCHANGED <<op, kind, content, pos>>
         /\ InRange'
         /\ i_pos[k] = pos[k] => AfterRead(k, x)'
         /\ \A j \in (1..2) \ {k} :
              i_pos'[j] = i_pos[j] /\ buf'[j] = buf[j] /\ ret'[j] = ret[j]
<1> DEFINE left == Len(content[k]) - i_pos[k]
<1>1. /\ content[k] \in Seq(Byte) /\ Len(content[k]) \in Nat
      /\ i_pos[k] \in Nat /\ left \in Nat
  <2>1. content[k] \in Seq(Byte) /\ i_pos[k] \in Nat
    BY DEF TypeOK
  <2>2. Len(content[k]) \in Nat
    BY <2>1, LenProperties
  <2> QED
    BY <2>1, <2>2 DEF InRange
<1>2. PICK t \in ReadBytes(kind[k], left, BufLen) :
        /\ t.ret = x
        /\ i_pos' = [i_pos EXCEPT ![k] = @ + t.count]
        /\ buf' = [buf EXCEPT ![k] = Filled(k, t.count)]
        /\ ret' = [ret EXCEPT ![k] = x]
  BY DEF Read
<1>3. op' = op /\ kind' = kind /\ content' = content /\ pos' = pos
  BY DEF Read
<1>4. /\ t.count \in 0..left
      /\ t.count <= BufLen
      /\ t.ret = 1 => t.count = BufLen
      /\ t.ret = 0 /\ kind[k] # "fd" => t.count = left /\ left < BufLen
  <2>1. kind[k] \in Kind
    BY DEF TypeOK
  <2> QED
    BY <1>1, <2>1, ReadSays
<1>5. /\ t.count \in Nat
      /\ i_pos[k] + t.count \in Nat
      /\ i_pos[k] + t.count <= Len(content[k])
  BY <1>1, <1>4
<1> HIDE DEF left
<1>6. \A b \in 1..t.count : content[k][i_pos[k] + b] \in Byte
  <2> SUFFICES ASSUME NEW b \in 1..t.count PROVE content[k][i_pos[k] + b] \in Byte
    OBVIOUS
  <2>1. i_pos[k] + b \in 1..Len(content[k])
    BY <1>1, <1>5
  <2> QED
    BY <1>1, <2>1, ElementOfSeq
<1>7. Filled(k, t.count) \in [1..BufLen -> Byte \cup {Junk}]
  <2> SUFFICES ASSUME NEW b \in 1..BufLen
               PROVE  (IF b <= t.count THEN content[k][i_pos[k] + b] ELSE buf[k][b])
                        \in Byte \cup {Junk}
    BY DEF Filled
  <2>1. CASE b <= t.count
    <3>1. b \in 1..t.count
      BY <1>5, <2>1, PortAssumption
    <3> QED
      BY <1>6, <2>1, <3>1
  <2>2. CASE ~(b <= t.count)
    <3>1. buf[k] \in [1..BufLen -> Byte \cup {Junk}]
      BY DEF TypeOK
    <3>2. buf[k][b] \in Byte \cup {Junk}
      BY <3>1
    <3> QED
      BY <2>2, <3>2
  <2> QED
    BY <2>1, <2>2
<1>8. i_pos' \in [1..2 -> Nat] /\ i_pos'[k] = i_pos[k] + t.count
  BY <1>2, <1>5 DEF TypeOK
<1>9. buf' \in [1..2 -> [1..BufLen -> Byte \cup {Junk}]] /\ buf'[k] = Filled(k, t.count)
  BY <1>2, <1>7 DEF TypeOK
<1>10. ret' \in [1..2 -> {-1, 0, 1}] /\ ret'[k] = x
  BY <1>2 DEF TypeOK
<1>11. \A j \in (1..2) \ {k} :
         i_pos'[j] = i_pos[j] /\ buf'[j] = buf[j] /\ ret'[j] = ret[j]
  BY <1>2 DEF TypeOK
<1>12. InRange'
  <2>1. i_pos'[k] <= Len(content'[k])
    BY <1>3, <1>5, <1>8
  <2> QED
    BY <1>3, <1>11, <2>1 DEF InRange
<1>13. ASSUME i_pos[k] = pos[k]
       PROVE  AfterRead(k, x)'
  <2>1. BlockLen(k)' = t.count
    BY <1>1, <1>3, <1>5, <1>8, <1>13 DEF BlockLen
  <2>2. \A b \in 1..t.count : buf'[k][b] = content'[k][pos'[k] + b]
    <3> SUFFICES ASSUME NEW b \in 1..t.count
                 PROVE  buf'[k][b] = content[k][i_pos[k] + b]
      BY <1>3, <1>13
    <3>1. b \in 1..BufLen /\ b <= t.count
      BY <1>4, <1>5, PortAssumption
    <3> QED
      BY <1>9, <3>1 DEF Filled
  <2>3. Block(k)'
    BY <1>1, <1>3, <1>4, <1>5, <1>8, <1>13, <2>1, <2>2 DEF Block
  <2>4. x = 0 /\ kind'[k] # "fd" => i_pos'[k] = Len(content'[k]) /\ t.count < BufLen
    BY <1>1, <1>2, <1>3, <1>4, <1>8 DEF left
  <2> QED
    BY <1>2, <1>4, <1>10, <2>1, <2>3, <2>4 DEF AfterRead
<1> QED
  BY <1>3, <1>8, <1>9, <1>10, <1>11, <1>12, <1>13

LEMMA ReadFailsStep == IInv /\ ReadFails => IInv'
<1> SUFFICES ASSUME IInv, ReadFails PROVE IInv'
  OBVIOUS
<1> USE DEF IInv
<1>1. PICK k \in 1..2 : Read(k, -1)
  BY DEF ReadFails
<1>2. r' = -1 /\ pc' = "done"
  BY DEF ReadFails, Result
<1>3. /\ i_pos' \in [1..2 -> Nat]
      /\ buf' \in [1..2 -> [1..BufLen -> Byte \cup {Junk}]]
      /\ ret' \in [1..2 -> {-1, 0, 1}]
      /\ UNCHANGED <<op, kind, content, pos>>
      /\ InRange'
  BY <1>1, ReadBlock
<1>4. TypeOK'
  BY <1>2, <1>3 DEF TypeOK
<1>5. Copying' /\ Diffing'
  BY <1>2 DEF Copying, Diffing
<1>6. CopiesWhatWasRead' /\ ReadsToTheEnd' /\ DiffCorrect'
  BY <1>2 DEF CopiesWhatWasRead, ReadsToTheEnd, DiffCorrect
<1> QED
  BY <1>3, <1>4, <1>5, <1>6

-----------------------------------------------------------------------------
LEMMA CopyReadStep == IInv /\ CopyRead => IInv'
<1> SUFFICES ASSUME IInv, CopyRead PROVE IInv'
  OBVIOUS
<1> USE DEF IInv
<1>1. op = "copy" /\ pc = "read1" /\ r' = r
  BY DEF CopyRead
<1>2. PICK x \in {0, 1} : Read(1, x) /\ pc' = IF x = 1 THEN "write" ELSE "rest"
  BY DEF CopyRead
<1>3. i_pos[1] = pos[1]
  BY <1>1 DEF Copying
<1>4. /\ i_pos' \in [1..2 -> Nat]
      /\ buf' \in [1..2 -> [1..BufLen -> Byte \cup {Junk}]]
      /\ ret' \in [1..2 -> {-1, 0, 1}]
      /\ UNCHANGED <<op, kind, content, pos>>
      /\ InRange'
      /\ AfterRead(1, x)'
  BY <1>2, <1>3, ReadBlock
<1>5. TypeOK'
  BY <1>1, <1>2, <1>4 DEF TypeOK
<1>6. Copying'
  <2>1. TakesAll' => content'[2] = SubSeq(content'[1], 1, pos'[1])
    BY <1>1, <1>4 DEF Copying, TakesAll
  <2>2. CASE x = 0
    BY <1>2, <1>4, <2>1, <2>2 DEF Copying
  <2>3. CASE x = 1
    BY <1>2, <1>4, <2>1, <2>3 DEF Copying
  <2> QED
    BY <2>2, <2>3
<1>7. Diffing' /\ DiffCorrect'
  BY <1>1, <1>4 DEF Diffing, DiffCorrect
<1>8. CopiesWhatWasRead' /\ ReadsToTheEnd'
  BY <1>2 DEF CopiesWhatWasRead, ReadsToTheEnd
<1> QED
  BY <1>4, <1>5, <1>6, <1>7, <1>8

\* A block goes out, in the loop or after it.
LEMMA WriteStep ==
  ASSUME IInv, op = "copy",
         NEW x \in {0, 1}, AfterRead(1, x),
         pc = IF x = 1 THEN "write" ELSE "rest",
         Write(BlockLen(1), IF x = 1 THEN "read1" ELSE "done")
  PROVE  IInv'
<1> DEFINE len  == BlockLen(1)
           next == IF x = 1 THEN "read1" ELSE "done"
<1>0. TypeOK /\ InRange /\ Copying
  BY DEF IInv
<1>1. /\ content[1] \in Seq(Byte) /\ Len(content[1]) \in Nat
      /\ content[2] \in Seq(Byte) /\ Len(content[2]) \in Nat
  <2>1. content[1] \in Seq(Byte) /\ content[2] \in Seq(Byte)
    BY <1>0 DEF TypeOK
  <2> QED
    BY <2>1, LenProperties
<1>2. /\ pos[1] \in Nat /\ len \in Nat
      /\ pos[1] + len = i_pos[1]
      /\ i_pos[1] <= Len(content[1])
  BY <1>0 DEF TypeOK, InRange, AfterRead, Block, BlockLen
<1>3. PICK t \in WriteBytes(kind[2], Room - Len(content[2]), len) :
        /\ content' = [content EXCEPT ![2] = @ \o SubSeq(buf[1], 1, t.count)]
        /\ IF t.ret < 0
             THEN Result(-1) /\ UNCHANGED pos
             ELSE /\ pos' = [pos EXCEPT ![1] = @ + len]
                  /\ IF next = "done" THEN Result(pos'[1]) ELSE pc' = next /\ UNCHANGED r
  BY DEF Write
<1>4. op' = op /\ kind' = kind /\ i_pos' = i_pos /\ buf' = buf /\ ret' = ret
  BY DEF Write
<1>5. /\ t.count \in 0..len
      /\ t.ret \in {-1, 0, 1}
      /\ ~ShortWrites /\ (kind[2] = "bm" => len <= Room - Len(content[2])) /\ t.ret >= 0
           => t.count = len
  <2>1. kind[2] \in Kind /\ Room - Len(content[2]) \in Int
    BY <1>1, <1>0, PortAssumption DEF TypeOK
  <2> QED
    BY <1>2, <2>1, WriteSays
<1> HIDE DEF len, next
<1>6. \A n \in 0..len :
        /\ SubSeq(buf[1], 1, n) \in Seq(Byte)
        /\ SubSeq(content[1], 1, pos[1]) \o SubSeq(buf[1], 1, n)
             = SubSeq(content[1], 1, pos[1] + n)
  <2> SUFFICES ASSUME NEW n \in 0..len
               PROVE  /\ SubSeq(buf[1], 1, n) \in Seq(Byte)
                      /\ SubSeq(content[1], 1, pos[1]) \o SubSeq(buf[1], 1, n)
                           = SubSeq(content[1], 1, pos[1] + n)
    OBVIOUS
  <2>1. n \in Nat /\ pos[1] + n <= Len(content[1])
    BY <1>1, <1>2
  <2>2. \A b \in 1..len : buf[1][b] = content[1][pos[1] + b]
    BY DEF AfterRead, Block, len
  <2>3. \A b \in 1..n : buf[1][b] = content[1][pos[1] + b]
    BY <1>2, <2>2
  <2> DEFINE s     == content[1]
             block == buf[1]
             p     == pos[1]
  <2>4. s \in Seq(Byte) /\ p \in Nat /\ n \in Nat /\ p + n <= Len(s)
    BY <1>1, <1>2, <2>1
  <2>5. \A b \in 1..n : block[b] = s[p + b]
    BY <2>3
  <2> HIDE DEF s, block, p
  <2>6. /\ SubSeq(block, 1, n) \in Seq(Byte)
        /\ SubSeq(s, 1, p) \o SubSeq(block, 1, n) = SubSeq(s, 1, p + n)
    BY <2>4, <2>5, BlockContinues
  <2> QED
    BY <2>6 DEF s, block, p
<1>7. /\ content' \in [1..2 -> Seq(Byte)]
      /\ content'[1] = content[1]
      /\ content'[2] = content[2] \o SubSeq(buf[1], 1, t.count)
      /\ content'[2] \in Seq(Byte)
      /\ Len(content'[2]) >= Len(content[2]) /\ Len(content'[2]) \in Nat
  <2>1. SubSeq(buf[1], 1, t.count) \in Seq(Byte)
    BY <1>5, <1>6
  <2>2. /\ content[2] \o SubSeq(buf[1], 1, t.count) \in Seq(Byte)
        /\ Len(content[2] \o SubSeq(buf[1], 1, t.count))
             = Len(content[2]) + Len(SubSeq(buf[1], 1, t.count))
    BY <1>1, <2>1, ConcatProperties
  <2>3. Len(SubSeq(buf[1], 1, t.count)) \in Nat
    BY <2>1, LenProperties
  <2>4. /\ content' \in [1..2 -> Seq(Byte)]
        /\ content'[1] = content[1]
        /\ content'[2] = content[2] \o SubSeq(buf[1], 1, t.count)
    <3>1. content' = [content EXCEPT ![2] = @ \o SubSeq(buf[1], 1, t.count)]
      BY <1>3
    <3>2. content \in [1..2 -> Seq(Byte)]
      BY <1>0 DEF TypeOK
    <3> DEFINE out == content[2] \o SubSeq(buf[1], 1, t.count)
    <3>3. out \in Seq(Byte) /\ content' = [content EXCEPT ![2] = out]
      BY <2>2, <3>1
    <3> HIDE DEF out
    <3>4. content' \in [1..2 -> Seq(Byte)] /\ content'[1] = content[1] /\ content'[2] = out
      BY <3>2, <3>3
    <3> QED
      BY <3>4 DEF out
  <2> QED
    BY <1>1, <2>2, <2>3, <2>4
<1>8. InRange'
  BY <1>1, <1>4, <1>7, <1>0 DEF InRange, TypeOK
<1>9. CASE t.ret < 0
  <2>1. r' = -1 /\ pc' = "done" /\ pos' = pos
    BY <1>3, <1>9 DEF Result
  <2>2. TypeOK'
    BY <1>4, <1>7, <1>0, <2>1 DEF TypeOK
  <2>3. Copying' /\ Diffing' /\ CopiesWhatWasRead' /\ ReadsToTheEnd' /\ DiffCorrect'
    BY <2>1 DEF Copying, Diffing, CopiesWhatWasRead, ReadsToTheEnd, DiffCorrect
  <2> QED
    BY <1>8, <2>2, <2>3 DEF IInv
<1>10. CASE ~(t.ret < 0)
  <2>1. /\ pos' \in [1..2 -> Nat]
        /\ pos'[1] = i_pos[1]
    BY <1>2, <1>3, <1>10, <1>0 DEF TypeOK
  <2>2. IF x = 0 THEN r' = pos'[1] /\ pc' = "done" ELSE pc' = "read1" /\ r' = r
    BY <1>3, <1>10 DEF Result, next
  <2>3. TypeOK'
    <3>1. pos'[1] \in Nat
      BY <2>1
    <3>2. r' \in Nat \cup {-1} /\ pc' \in {"read1", "done"}
      BY <1>0, <2>2, <3>1 DEF TypeOK
    <3> QED
      BY <1>4, <1>7, <1>0, <2>1, <3>2 DEF TypeOK
  <2>4. TakesAll' => content'[2] = SubSeq(content'[1], 1, pos'[1])
    <3> SUFFICES ASSUME TakesAll'
                 PROVE  content'[2] = SubSeq(content[1], 1, i_pos[1])
      BY <1>7, <2>1
    <3>1. TakesAll
      BY <1>4, <1>7 DEF TakesAll
    <3>2. content[2] = SubSeq(content[1], 1, pos[1])
      BY <1>0, <3>1 DEF Copying
    <3>3. Len(content[2]) = pos[1]
      <4>1. \A b \in 1..pos[1] : b \in 1..Len(content[1])
        BY <1>1, <1>2
      <4> QED
        BY <1>1, <1>2, <3>2, <4>1, ElementOfSeq, Prefix
    <3>4. kind[2] = "bm" => len <= Room - Len(content[2])
      BY <1>1, <1>2, <3>1, <3>3, PortAssumption DEF TakesAll
    <3>5. t.count = len
      BY <1>5, <1>10, <3>1, <3>4 DEF TakesAll
    <3>6. len \in 0..len
      BY <1>2
    <3> QED
      BY <1>2, <1>6, <1>7, <3>2, <3>5, <3>6
  <2>5. Diffing' /\ DiffCorrect'
    BY <1>4 DEF Diffing, DiffCorrect
  <2>6. CASE x = 0
    <3>1. r' = i_pos'[1] /\ pc' = "done"
      BY <1>4, <2>1, <2>2, <2>6
    <3>2. Copying'
      BY <3>1 DEF Copying
    <3>3. CopiesWhatWasRead'
      BY <1>4, <2>1, <2>4, <3>1 DEF CopiesWhatWasRead, TakesAll
    <3>4. ReadsToTheEnd'
      BY <1>4, <1>7, <2>6 DEF ReadsToTheEnd, AfterRead
    <3> QED
      BY <1>8, <2>3, <2>5, <3>2, <3>3, <3>4 DEF IInv
  <2>7. CASE x = 1
    <3>1. pc' = "read1"
      BY <2>2, <2>7
    <3>2. Copying'
      BY <1>4, <2>1, <2>4, <3>1 DEF Copying
    <3>3. CopiesWhatWasRead' /\ ReadsToTheEnd'
      BY <3>1 DEF CopiesWhatWasRead, ReadsToTheEnd
    <3> QED
      BY <1>8, <2>3, <2>5, <3>2, <3>3 DEF IInv
  <2> QED
    BY <2>6, <2>7
<1> QED
  BY <1>9, <1>10

LEMMA WriteBlockStep == IInv /\ WriteBlock => IInv'
<1> SUFFICES ASSUME IInv, WriteBlock PROVE IInv'
  OBVIOUS
<1>1. pc = "write" /\ Write(BufLen, "read1")
  BY DEF WriteBlock
<1>2. op = "copy"
  BY <1>1 DEF IInv, TypeOK, Diffing
<1>3. AfterRead(1, 1)
  BY <1>1, <1>2 DEF IInv, Copying
<1>4. BlockLen(1) = BufLen
  BY <1>3 DEF AfterRead
<1> QED
  BY <1>1, <1>2, <1>3, <1>4, WriteStep

LEMMA WriteRestStep == IInv /\ WriteRest => IInv'
<1> SUFFICES ASSUME IInv, WriteRest PROVE IInv'
  OBVIOUS
<1>1. pc = "rest" /\ Write(BlockLen(1), "done")
  BY DEF WriteRest, BlockLen
<1>2. op = "copy"
  BY <1>1 DEF IInv, TypeOK, Diffing
<1>3. AfterRead(1, 0)
  BY <1>1, <1>2 DEF IInv, Copying
<1> QED
  BY <1>1, <1>2, <1>3, WriteStep

LEMMA NoRestStep == IInv /\ NoRest => IInv'
<1> SUFFICES ASSUME IInv, NoRest PROVE IInv'
  OBVIOUS
<1> USE DEF IInv
<1>1. /\ pc = "rest" /\ pc' = "done"
      /\ i_pos[1] = pos[1] /\ r' = i_pos[1]
      /\ op' = op /\ kind' = kind /\ content' = content
      /\ i_pos' = i_pos /\ buf' = buf /\ ret' = ret /\ pos' = pos
  BY DEF NoRest, Result
<1>2. op = "copy"
  BY <1>1 DEF TypeOK, Diffing
<1>3. AfterRead(1, 0) /\ (TakesAll => content[2] = SubSeq(content[1], 1, i_pos[1]))
  BY <1>1, <1>2 DEF Copying
<1>4. TypeOK'
  BY <1>1 DEF TypeOK
<1>5. InRange'
  BY <1>1 DEF InRange
<1>6. Copying' /\ Diffing' /\ DiffCorrect'
  BY <1>1, <1>2 DEF Copying, Diffing, DiffCorrect
<1>7. CopiesWhatWasRead' /\ ReadsToTheEnd'
  BY <1>1, <1>3 DEF CopiesWhatWasRead, ReadsToTheEnd, TakesAll, AfterRead
<1> QED
  BY <1>4, <1>5, <1>6, <1>7

-----------------------------------------------------------------------------
LEMMA DiffReadStep == IInv /\ DiffRead => IInv'
<1> SUFFICES ASSUME IInv, DiffRead PROVE IInv'
  OBVIOUS
<1> USE DEF IInv
<1>1. /\ op = "diff" /\ pc # "done" /\ r' = r
      /\ kind = <<"fp", "fp">> /\ pos[1] = pos[2] /\ Agree
  BY DEF DiffRead, Diffing
<1>2. PICK k \in 1..2, x \in {0, 1} :
        /\ Read(k, x)
        /\ k = 1 => pc = "read1" /\ pc' = "read2"
        /\ k = 2 => pc = "read2" /\ pc' = "compare"
  BY DEF DiffRead
<1>3. i_pos[k] = pos[k]
  BY <1>1, <1>2 DEF Diffing
<1>4. /\ i_pos' \in [1..2 -> Nat]
      /\ buf' \in [1..2 -> [1..BufLen -> Byte \cup {Junk}]]
      /\ ret' \in [1..2 -> {-1, 0, 1}]
      /\ op' = op /\ kind' = kind /\ content' = content /\ pos' = pos
      /\ InRange'
      /\ AfterRead(k, x)'
      /\ \A j \in (1..2) \ {k} :
           i_pos'[j] = i_pos[j] /\ buf'[j] = buf[j] /\ ret'[j] = ret[j]
  BY <1>2, <1>3, ReadBlock
<1>5. pc' \in {"read2", "compare"}
  BY <1>2
<1>6. TypeOK'
  BY <1>1, <1>4, <1>5 DEF TypeOK
<1>7. /\ Copying' /\ CopiesWhatWasRead' /\ ReadsToTheEnd' /\ DiffCorrect'
  BY <1>1, <1>4, <1>5 DEF Copying, CopiesWhatWasRead, ReadsToTheEnd, DiffCorrect
<1>8. kind' = <<"fp", "fp">> /\ pos'[1] = pos'[2] /\ Agree'
  BY <1>1, <1>4 DEF Agree
<1>9. CASE k = 1
  <2>1. pc' = "read2" /\ pc = "read1"
    BY <1>2, <1>9
  <2>2. i_pos'[2] = pos'[2]
    BY <1>1, <1>4, <1>9, <2>1 DEF Diffing
  <2>3. Diffing'
    BY <1>4, <1>8, <1>9, <2>1, <2>2 DEF Diffing
  <2> QED
    BY <1>4, <1>6, <1>7, <2>3
<1>10. CASE k = 2
  <2>1. pc' = "compare" /\ pc = "read2"
    BY <1>2, <1>10
  <2>2. PICK y \in {0, 1} : AfterRead(1, y)
    BY <1>1, <2>1 DEF Diffing
  <2>3. i_pos'[1] = i_pos[1] /\ buf'[1] = buf[1] /\ ret'[1] = ret[1]
    BY <1>4, <1>10
  <2>4. AfterRead(1, y)'
    BY <1>4, <2>2, <2>3 DEF AfterRead, Block, BlockLen
  <2>5. \A j \in 1..2 : \E z \in {0, 1} : AfterRead(j, z)'
    BY <1>4, <1>10, <2>4
  <2>6. Diffing'
    BY <1>8, <2>1, <2>5 DEF Diffing
  <2> QED
    BY <1>4, <1>6, <1>7, <2>6
<1> QED
  BY <1>9, <1>10

\* The contents agree to the ends of two blocks of the same length that do.
LEMMA BlocksAgree ==
  ASSUME TypeOK, InRange, Agree, pos[1] = pos[2],
         Block(1), Block(2), BlockLen(1) = BlockLen(2)
  PROVE  /\ i_pos[1] = i_pos[2]
         /\ SameBytes(BlockLen(1)) <=>
              \A b \in 1..i_pos[1] : content[1][b] = content[2][b]
<1> DEFINE len == BlockLen(1)
           p   == pos[1]
<1>1. /\ p \in Nat /\ len \in Nat
      /\ i_pos[1] = p + len /\ i_pos[2] = p + len
  BY DEF TypeOK, Block, BlockLen
<1>2. \A b \in 1..len : buf[1][b] = content[1][p + b] /\ buf[2][b] = content[2][p + b]
  BY DEF Block
<1>3. \A b \in 1..p : content[1][b] = content[2][b]
  BY DEF Agree
<1>4. \A b \in 1..len : buf[1][b] \in Byte \cup {Junk} /\ buf[2][b] \in Byte \cup {Junk}
  <2>1. \A b \in 1..len : b \in 1..BufLen
    BY <1>1, PortAssumption DEF Block
  <2>2. /\ buf[1] \in [1..BufLen -> Byte \cup {Junk}]
        /\ buf[2] \in [1..BufLen -> Byte \cup {Junk}]
    BY DEF TypeOK
  <2> QED
    BY <2>1, <2>2
<1>5. SameBytes(len) <=> \A b \in 1..len : buf[1][b] = buf[2][b]
  BY <1>1, <1>4, PrefixesEqual DEF SameBytes
<1> HIDE DEF len, p
<1>6. (\A b \in 1..len : buf[1][b] = buf[2][b])
        <=> \A b \in 1..(p + len) : content[1][b] = content[2][b]
  <2>1. ASSUME \A b \in 1..len : buf[1][b] = buf[2][b],
               NEW b \in 1..(p + len)
        PROVE  content[1][b] = content[2][b]
    <3>1. CASE b <= p
      <4>1. b \in 1..p
        BY <1>1, <3>1
      <4> QED
        BY <1>3, <4>1
    <3>2. CASE ~(b <= p)
      <4>1. b - p \in 1..len /\ p + (b - p) = b
        BY <1>1, <3>2
      <4> QED
        BY <1>2, <2>1, <4>1
    <3> QED
      BY <3>1, <3>2
  <2>2. ASSUME \A b \in 1..(p + len) : content[1][b] = content[2][b],
               NEW b \in 1..len
        PROVE  buf[1][b] = buf[2][b]
    <3>1. p + b \in 1..(p + len)
      BY <1>1
    <3> QED
      BY <1>2, <2>2, <3>1
  <2> QED
    BY <2>1, <2>2
<1> QED
  BY <1>1, <1>5, <1>6 DEF len

LEMMA NextBlockStep == IInv /\ NextBlock => IInv'
<1> SUFFICES ASSUME IInv, NextBlock PROVE IInv'
  OBVIOUS
<1> USE DEF IInv
<1>1. /\ pc = "compare" /\ pc' = "read1" /\ pos' = i_pos
      /\ ret[1] = 1 /\ ret[2] = 1 /\ SameBytes(BufLen)
      /\ op' = op /\ kind' = kind /\ content' = content
      /\ i_pos' = i_pos /\ buf' = buf /\ ret' = ret /\ r' = r
  BY DEF NextBlock
<1>2. op = "diff"
  BY <1>1 DEF TypeOK, Copying
<1>3. kind = <<"fp", "fp">> /\ pos[1] = pos[2] /\ Agree
  BY <1>1, <1>2 DEF Diffing
<1>4. \A k \in 1..2 : AfterRead(k, 1)
  <2> SUFFICES ASSUME NEW k \in 1..2 PROVE AfterRead(k, 1)
    OBVIOUS
  <2>1. PICK x \in {0, 1} : AfterRead(k, x)
    BY <1>1, <1>2 DEF Diffing
  <2>2. ret[k] = 1
    BY <1>1
  <2> QED
    BY <2>1, <2>2 DEF AfterRead
<1>5. Block(1) /\ Block(2) /\ BlockLen(1) = BufLen /\ BlockLen(2) = BufLen
  BY <1>4 DEF AfterRead
<1>6. i_pos[1] = i_pos[2] /\ \A b \in 1..i_pos[1] : content[1][b] = content[2][b]
  BY <1>1, <1>3, <1>5, BlocksAgree
<1>7. Agree'
  BY <1>1, <1>6 DEF Agree
<1>8. Diffing'
  BY <1>1, <1>3, <1>6, <1>7 DEF Diffing
<1>9. TypeOK'
  BY <1>1 DEF TypeOK
<1>10. InRange'
  BY <1>1 DEF InRange
<1>11. Copying' /\ CopiesWhatWasRead' /\ ReadsToTheEnd' /\ DiffCorrect'
  BY <1>1, <1>2 DEF Copying, CopiesWhatWasRead, ReadsToTheEnd, DiffCorrect
<1> QED
  BY <1>8, <1>9, <1>10, <1>11

\* A difference in the blocks is one of the contents; without one, in the last
\* blocks, there is none.
LEMMA VerdictIsRight ==
  ASSUME IInv, op = "diff", pc = "compare"
  PROVE  /\ Different => content[1] # content[2]
         /\ ret = <<0, 0>> /\ ~Different => content[1] = content[2]
<1>1. /\ TypeOK /\ InRange
      /\ kind = <<"fp", "fp">> /\ pos[1] = pos[2] /\ Agree
      /\ \A k \in 1..2 : \E x \in {0, 1} : AfterRead(k, x)
  BY DEF IInv, Diffing
<1>2. \A k \in 1..2 : ret[k] \in {0, 1} /\ AfterRead(k, ret[k])
  BY <1>1 DEF AfterRead
<1>3. ret = <<ret[1], ret[2]>>
  BY <1>1 DEF TypeOK
<1>4. /\ content[1] \in Seq(Byte) /\ Len(content[1]) \in Nat
      /\ content[2] \in Seq(Byte) /\ Len(content[2]) \in Nat
  <2>1. content[1] \in Seq(Byte) /\ content[2] \in Seq(Byte)
    BY <1>1 DEF TypeOK
  <2> QED
    BY <2>1, LenProperties
<1>5. /\ i_pos[1] \in Nat /\ i_pos[2] \in Nat /\ pos[1] \in Nat
      /\ i_pos[1] <= Len(content[1]) /\ i_pos[2] <= Len(content[2])
  BY <1>1 DEF TypeOK, InRange
<1>6. Block(1) /\ Block(2)
  BY <1>2 DEF AfterRead
<1>7. ASSUME NEW k \in 1..2, ret[k] = 1
      PROVE  BlockLen(k) = BufLen
  BY <1>2, <1>7 DEF AfterRead
<1>8. ASSUME NEW k \in 1..2, ret[k] = 0
      PROVE  i_pos[k] = Len(content[k]) /\ BlockLen(k) < BufLen
  <2>1. kind[k] # "fd"
    BY <1>1
  <2> QED
    BY <1>2, <1>8, <2>1 DEF AfterRead
<1>9. CASE ret[1] # ret[2]
  <2>1. Different
    BY <1>9 DEF Different
  <2>2. CASE ret[1] = 1
    <3>1. i_pos[2] = Len(content[2]) /\ BlockLen(2) < BufLen /\ BlockLen(1) = BufLen
      BY <1>2, <1>7, <1>8, <1>9, <2>2
    <3>2. Len(content[1]) # Len(content[2])
      BY <1>1, <1>4, <1>5, <3>1, PortAssumption DEF BlockLen
    <3> QED
      BY <2>1, <3>2
  <2>3. CASE ret[1] = 0
    <3>1. i_pos[1] = Len(content[1]) /\ BlockLen(1) < BufLen /\ BlockLen(2) = BufLen
      BY <1>2, <1>7, <1>8, <1>9, <2>3
    <3>2. Len(content[1]) # Len(content[2])
      BY <1>1, <1>4, <1>5, <3>1, PortAssumption DEF BlockLen
    <3> QED
      BY <2>1, <3>2
  <2> QED
    BY <1>2, <2>2, <2>3
<1>10. CASE ret[1] = 1 /\ ret[2] = 1
  <2>1. BlockLen(1) = BufLen /\ BlockLen(2) = BufLen
    BY <1>7, <1>10
  <2>2. Different <=> ~SameBytes(BufLen)
    BY <1>3, <1>10 DEF Different
  <2>3. SameBytes(BufLen) <=> \A b \in 1..i_pos[1] : content[1][b] = content[2][b]
    BY <1>1, <1>6, <2>1, BlocksAgree
  <2> QED
    BY <1>10, <2>2, <2>3
<1>11. CASE ret[1] = 0 /\ ret[2] = 0
  <2>1. i_pos[1] = Len(content[1]) /\ i_pos[2] = Len(content[2])
    BY <1>8, <1>11
  <2>2. Different <=> BlockLen(1) # BlockLen(2) \/ ~SameBytes(BlockLen(1))
    BY <1>3, <1>11 DEF Different
  <2>3. CASE BlockLen(1) # BlockLen(2)
    <3>1. Len(content[1]) # Len(content[2])
      BY <1>1, <1>5, <2>1, <2>3 DEF BlockLen
    <3> QED
      BY <2>2, <2>3, <3>1
  <2>4. CASE BlockLen(1) = BlockLen(2)
    <3>1. /\ i_pos[1] = i_pos[2]
          /\ SameBytes(BlockLen(1)) <=>
               \A b \in 1..i_pos[1] : content[1][b] = content[2][b]
      BY <1>1, <1>6, <2>4, BlocksAgree
    <3>2. (\A b \in 1..i_pos[1] : content[1][b] = content[2][b])
            => content[1] = content[2]
      <4> SUFFICES ASSUME \A b \in 1..i_pos[1] : content[1][b] = content[2][b]
                   PROVE  content[1] = content[2]
        OBVIOUS
      <4> DEFINE s == content[1]
                 t == content[2]
      <4>1. s \in Seq(Byte) /\ t \in Seq(Byte) /\ Len(s) = Len(t)
        BY <1>4, <2>1, <3>1
      <4>2. \A b \in 1..Len(s) : s[b] = t[b]
        BY <2>1
      <4> HIDE DEF s, t
      <4>3. s = t
        BY <4>1, <4>2, SeqEqual
      <4> QED
        BY <4>3 DEF s, t
    <3> QED
      BY <2>2, <2>4, <3>1, <3>2
  <2> QED
    BY <2>3, <2>4
<1> QED
  BY <1>2, <1>9, <1>10, <1>11

LEMMA VerdictStep == IInv /\ (Difference \/ Same) => IInv'
<1> SUFFICES ASSUME IInv, Difference \/ Same PROVE IInv'
  OBVIOUS
<1> USE DEF IInv
<1>1. /\ pc = "compare" /\ pc' = "done" /\ r' \in {0, 1}
      /\ r' = 1 => Different
      /\ r' = 0 => ret = <<0, 0>> /\ ~Different
      /\ op' = op /\ kind' = kind /\ content' = content
      /\ i_pos' = i_pos /\ buf' = buf /\ ret' = ret /\ pos' = pos
  BY DEF Difference, Same, Result
<1>2. op = "diff"
  BY <1>1 DEF TypeOK, Copying
<1>3. r' = 0 <=> content[1] = content[2]
  BY <1>1, <1>2, VerdictIsRight
<1>4. TypeOK'
  BY <1>1 DEF TypeOK
<1>5. InRange'
  BY <1>1 DEF InRange
<1>6. Copying' /\ Diffing' /\ CopiesWhatWasRead' /\ ReadsToTheEnd'
  BY <1>1, <1>2 DEF Copying, Diffing, CopiesWhatWasRead, ReadsToTheEnd
<1>7. DiffCorrect'
  BY <1>1, <1>3 DEF DiffCorrect
<1> QED
  BY <1>4, <1>5, <1>6, <1>7

-----------------------------------------------------------------------------
LEMMA NextHolds == IInv /\ [Next]_vars => IInv'
<1> SUFFICES ASSUME IInv, [Next]_vars PROVE IInv'
  OBVIOUS
<1>1. CASE UNCHANGED vars
  BY <1>1 DEF vars, IInv, TypeOK, InRange, Copying, Diffing, TakesAll, Agree,
              AfterRead, Block, BlockLen, CopiesWhatWasRead, ReadsToTheEnd, DiffCorrect
<1>2. CASE CopyRead
  BY <1>2, CopyReadStep
<1>3. CASE WriteBlock
  BY <1>3, WriteBlockStep
<1>4. CASE WriteRest
  BY <1>4, WriteRestStep
<1>5. CASE NoRest
  BY <1>5, NoRestStep
<1>6. CASE DiffRead
  BY <1>6, DiffReadStep
<1>7. CASE NextBlock
  BY <1>7, NextBlockStep
<1>8. CASE Difference \/ Same
  BY <1>8, VerdictStep
<1>9. CASE ReadFails
  BY <1>9, ReadFailsStep
<1> QED
  BY <1>1, <1>2, <1>3, <1>4, <1>5, <1>6, <1>7, <1>8, <1>9 DEF Next, Terminated

LEMMA Invariance == Spec => []IInv
BY InitHolds, NextHolds, PTL DEF Spec

-----------------------------------------------------------------------------
(***************************************************************************)
(* The bytes that are copied are those that were read, for every length of *)
(* the buffer, and nothing that malloc left in it ever gets out: TypeOK    *)
(* has no Junk in the output (diag_port_copy, port.c:362-396).             *)
(***************************************************************************)
THEOREM PortCopiesWhatWasRead == Spec => [](TypeOK /\ CopiesWhatWasRead)
<1>1. IInv => TypeOK /\ CopiesWhatWasRead
  BY DEF IInv
<1> QED
  BY <1>1, Invariance, PTL

(***************************************************************************)
(* A successful copy of memory or of a stream takes all there is, for      *)
(* every length of it and of the buffer (diag_port_copy, port.c:362-396).  *)
(***************************************************************************)
THEOREM PortReadsToTheEnd == Spec => []ReadsToTheEnd
<1>1. IInv => ReadsToTheEnd
  BY DEF IInv
<1> QED
  BY <1>1, Invariance, PTL

(***************************************************************************)
(* The verdict of a comparison of two streams is right for every length of *)
(* the two contents and of the buffer (diag_port_diff, port.c:398-456).    *)
(***************************************************************************)
THEOREM PortDiffCorrect == Spec => []DiffCorrect
<1>1. IInv => DiffCorrect
  BY DEF IInv
<1> QED
  BY <1>1, Invariance, PTL
=============================================================================
