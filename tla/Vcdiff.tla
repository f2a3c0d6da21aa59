-------------------------------- MODULE Vcdiff -------------------------------
(***************************************************************************)
(* The VCDIFF decoder of vcdiff.c as diag-dec uses it, on files that an    *)
(* encoder has written: window by window it is read, then decoded code by  *)
(* code, each of them one or two instructions.  The encoder, which knows   *)
(* what it encodes, is the reference; it follows RFC 3284, to which the    *)
(* manual refers.                                                          *)
(***************************************************************************)
EXTENDS Integers, Sequences, Seqs

LOCAL INSTANCE TLC
LOCAL INSTANCE FiniteSetsExt

CONSTANTS
  Source,      \* the source file
  Segments,    \* the segments that windows refer to: <<kind, position, length>>
  Codes,       \* the codes the encoder uses, by their place in the file
  Sizes,       \* the sizes it gives where the code has none
  RunSizes,    \* the same for the instruction RUN
  Addrs,       \* the addresses it copies from
  MaxCut       \* bound: codes in a file that is cut within a window

VARIABLES
  encoder,  \* what was written so far, and what it encodes
  vm        \* struct diag_vcdiff_context and struct diag_vcdiff_vm

SNear == 4
SSame == 3

(***************************************************************************)
(* The default code table, line by line.                                   *)
(***************************************************************************)
Inst(inst, size, mode) == [inst |-> inst, size |-> size, mode |-> mode]
Noop == Inst("NOOP", 0, 0)

CodeTable(idx) ==
  LET line(first, width) == (idx - first) \div width
      column(first, width) == (idx - first) % width
  IN CASE idx = 0 -> <<Inst("RUN", 0, 0), Noop>>
       [] idx \in 1 .. 18 -> <<Inst("ADD", idx - 1, 0), Noop>>
       [] idx \in 19 .. 162 ->
            <<Inst("COPY", IF column(19, 16) = 0 THEN 0 ELSE 3 + (column(19, 16)), line(19, 16)), Noop>>
       [] idx \in 163 .. 234 ->
            <<Inst("ADD", 1 + (column(163, 12) \div 3), 0),
              Inst("COPY", 4 + (column(163, 12) % 3), line(163, 12))>>
       [] idx \in 235 .. 246 -> <<Inst("ADD", 1 + column(235, 4), 0), Inst("COPY", 4, 6 + line(235, 4))>>
       [] idx \in 247 .. 255 -> <<Inst("COPY", 4, idx - 247), Inst("ADD", 1, 0)>>

-----------------------------------------------------------------------------
(* The encoder.                                                            *)

Bytes(n) == IF n < 128 THEN <<n>> ELSE <<128 + (n \div 128), n % 128>>

\* The target written so far is the segment of later windows that refer to it.
SegmentOf(kind, target) == IF kind = 1 THEN Source ELSE target

Window(seg, target) ==
  [kind |-> seg[1], pos |-> seg[2], segment |-> SubSeq(SegmentOf(seg[1], target), seg[2] + 1, seg[2] + seg[3]),
   target |-> <<>>, data |-> <<>>, inst |-> <<>>, addr |-> <<>>, used |-> <<>>, codes |-> 0]

\* The segments there are, kind 0 for none.
Available(target) ==
  {<<0, 0, 0>>} \cup {s \in Segments : s[2] + s[3] <= Len(SegmentOf(s[1], target))}

\* Addresses of a window are kept in four slots in turn, and by their value.
LastOf(used, S) == IF S = {} THEN 0 ELSE used[Max(S)]
NearSlot(used, m) == LastOf(used, {k \in DOMAIN used : (k - 1) % SNear = m})
SameSlot(used, i) == LastOf(used, {k \in DOMAIN used : used[k] % (SSame * 256) = i})

\* How addr can be written in the given mode, if it can.
Addresses(addr, here, used, mode) ==
  CASE mode = 0 -> {Bytes(addr)}
    [] mode = 1 -> {Bytes(here - addr)}
    [] mode \in 2 .. SNear + 1 ->
         LET d == addr - NearSlot(used, mode - 2) IN IF d >= 0 THEN {Bytes(d)} ELSE {}
    [] OTHER -> {<<b>> : b \in {x \in {addr % 256} : SameSlot(used, (mode - SNear - 2) * 256 + x) = addr}}

\* A byte that was not in the target before.
Fresh(w, size) == [k \in 1 .. size |-> 10 + Len(encoder.target) + Len(w.target) + k]

(***************************************************************************)
(* The windows after one more instruction; a COPY goes byte by byte, so    *)
(* that it may repeat what it has just written.  plain stays true as long  *)
(* as the decoder should be right: it gets wrong what depends on the       *)
(* position in a later window or after a segment, on addresses that were   *)
(* used in another window, on target bytes in a window with a segment, on  *)
(* the order of an overlapping copy, and it does not end for RUNs of more  *)
(* than 255 bytes.                                                         *)
(***************************************************************************)
Encoded(w, i, size) ==
  LET u == w.segment \o w.target
      here == Len(u)
      copied(addr) == [k \in 1 .. size |-> u[addr + 1 + ((k - 1) % (here - addr))]]
      plain(addr) ==
        /\ addr + size <= IF w.kind = 0 THEN here ELSE Len(w.segment)
        /\ i.mode = 1 => w.kind = 0 /\ encoder.target = <<>>
        /\ i.mode > 1 => encoder.copies = 0
  IN CASE i.inst = "NOOP" -> {[w |-> w, plain |-> TRUE]}
       [] i.inst = "ADD" ->
            {[w |-> [w EXCEPT !.data = @ \o Fresh(w, size), !.target = @ \o Fresh(w, size)], plain |-> TRUE]}
       [] i.inst = "RUN" ->
            {[w |-> [w EXCEPT !.data = @ \o Fresh(w, 1),
                              !.target = @ \o [k \in 1 .. size |-> Fresh(w, 1)[1]]],
              plain |-> size < 256]}
       [] i.inst = "COPY" ->
            UNION {{[w |-> [w EXCEPT !.addr = @ \o a, !.used = Append(@, addr),
                                     !.target = @ \o copied(addr)],
                     plain |-> plain(addr)] : a \in Addresses(addr, here, w.used, i.mode)}
                   : addr \in Addrs \cap (0 .. here - 1)}

EncodeCode ==
  LET w == encoder.window
  IN /\ vm.pc = "encode" /\ encoder.codes + w.codes < Len(Codes)
     /\ \E idx \in Codes[encoder.codes + w.codes + 1] :
          LET code == CodeTable(idx)
              explicit == code[1].size = 0
              sizes == IF ~explicit THEN {code[1].size}
                       ELSE IF code[1].inst = "RUN" THEN RunSizes ELSE Sizes
          IN \E size \in sizes : \E e1 \in Encoded(w, code[1], size) :
               \E e2 \in Encoded(e1.w, code[2], code[2].size) :
                 encoder' = [encoder EXCEPT
                   !.window = [e2.w EXCEPT !.codes = @ + 1,
                                 !.inst = @ \o <<idx>> \o (IF explicit THEN Bytes(size) ELSE <<>>)],
                   !.plain = @ /\ e1.plain /\ e2.plain]
     /\ UNCHANGED vm

WindowBytes(w) ==
  LET rest == Bytes(Len(w.target)) \o <<0>> \o Bytes(Len(w.data)) \o Bytes(Len(w.inst))
              \o Bytes(Len(w.addr)) \o w.data \o w.inst \o w.addr
  IN <<w.kind>> \o (IF w.kind = 0 THEN <<>> ELSE Bytes(Len(w.segment)) \o Bytes(w.pos))
     \o Bytes(Len(rest)) \o rest

Closed ==
  [encoder EXCEPT !.file = @ \o WindowBytes(encoder.window),
                  !.target = @ \o encoder.window.target,
                  !.codes = @ + encoder.window.codes,
                  !.copies = @ + Len(encoder.window.used),
                  !.targets = @ @@ (Len(encoder.file) + Len(WindowBytes(encoder.window))
                                      :> encoder.target \o encoder.window.target)]

EncodeWindow ==
  /\ vm.pc = "encode" /\ encoder.window.codes > 0
  /\ Closed.codes < Len(Codes)
  /\ \E seg \in Available(Closed.target) :
       encoder' = [Closed EXCEPT !.window = Window(seg, Closed.target)]
  /\ UNCHANGED vm

\* The file is complete, cut between two windows, or cut anywhere.
EncodeEnd ==
  /\ vm.pc = "encode" /\ encoder.window.codes > 0
  /\ \E n \in IF Closed.codes <= MaxCut THEN 0 .. Len(Closed.file) ELSE DOMAIN Closed.targets :
       /\ encoder' = [Closed EXCEPT !.length = n]
       /\ vm' = [vm EXCEPT !.pc = "header", !.port = SubSeq(Closed.file, 1, n)]

-----------------------------------------------------------------------------
(* Reading.                                                                *)

Refused == vm' = [vm EXCEPT !.pc = "done", !.status = "refused", !.target = <<>>]

\* Up to the first byte without the highest bit.
IntegerRead(buf) ==
  LET ends == {i \in DOMAIN buf : buf[i] < 128 /\ \A j \in 1 .. i - 1 : buf[j] >= 128}
      value[i \in 0 .. Len(buf)] == IF i = 0 THEN 0 ELSE value[i - 1] * 128 + (buf[i] % 128)
  IN IF ends = {} THEN [ok |-> FALSE, value |-> 0, rest |-> <<>>]
     ELSE LET last == CHOOSE i \in ends : TRUE
          IN [ok |-> TRUE, value |-> value[last], rest |-> SubSeq(buf, last + 1, Len(buf))]

\* count integers in a row.
IntegersRead(buf, count) ==
  LET read[k \in 0 .. count] ==
        IF k = 0 THEN [ok |-> TRUE, value |-> <<>>, rest |-> buf]
        ELSE LET is == read[k - 1]
                 i == IntegerRead(is.rest)
             IN [ok |-> is.ok /\ i.ok, value |-> Append(is.value, i.value), rest |-> i.rest]
  IN read[count]

\* length, s_window, indicator, three lengths, three sections.
DeltaRead(buf) ==
  LET sizes == IntegersRead(buf, 2)
      lengths == IntegersRead(SubSeq(sizes.rest, 2, Len(sizes.rest)), 3)
      n == lengths.value
      sections == lengths.rest
      ok == sizes.ok /\ sizes.rest # <<>> /\ lengths.ok /\ n[1] + n[2] + n[3] <= Len(sections)
  IN IF ~ok THEN [ok |-> FALSE]
     ELSE [ok |-> TRUE,
           s_window |-> sizes.value[2],
           data |-> SubSeq(sections, 1, n[1]),
           inst |-> SubSeq(sections, n[1] + 1, n[1] + n[2]),
           addr |-> SubSeq(sections, n[1] + n[2] + 1, n[1] + n[2] + n[3]),
           rest |-> SubSeq(sections, n[1] + n[2] + n[3] + 1, Len(sections))]

\* From standard input read() may return less of a section than there is; it
\* is not called again.  Empty sections are not read at all, and fread(), which
\* reads a file given by its path, returns less only at the end.
ShortRead(ok, delta) ==
  /\ ok /\ delta.data \o delta.inst \o delta.addr # <<>>
  /\ vm' = [vm EXCEPT !.pc = "done", !.status = "refused", !.read = "short"]

Magic == <<214, 195, 196>>

\* Magic, version, indicator; neither a second compressor nor a code table.
ReadHeader ==
  /\ vm.pc = "header"
  /\ IF Len(vm.port) >= 5 /\ SubSeq(vm.port, 1, 4) = Append(Magic, 0)
     THEN vm' = [vm EXCEPT !.pc = "windows", !.port = SubSeq(@, 6, Len(@))]
     ELSE Refused
  /\ UNCHANGED encoder

\* A read fails.
ReadFails ==
  /\ vm.pc \in {"header", "windows"}
  /\ vm' = [vm EXCEPT !.pc = "done", !.status = "refused", !.read = "error"]
  /\ UNCHANGED encoder

\* At most one bit of the indicator is set.
ReadWindow ==
  LET b == Head(vm.port)
      segment == IF b \in {1, 2} THEN IntegersRead(Tail(vm.port), 2)
                 ELSE [ok |-> TRUE, value |-> <<0, 0>>, rest |-> Tail(vm.port)]
      delta == DeltaRead(segment.rest)
      ok == b \in {0, 1, 2, 4, 8, 16, 32, 64, 128} /\ segment.ok /\ delta.ok
  IN /\ vm.pc = "windows" /\ vm.port # <<>>
     /\ \/ ok /\ vm' = [vm EXCEPT !.port = delta.rest,
                         !.windows = Append(@, [kind |-> b, length |-> segment.value[1],
                                                pos |-> segment.value[2], delta |-> delta])]
        \/ ~ok /\ Refused
        \/ ShortRead(ok, delta)
     /\ UNCHANGED encoder

-----------------------------------------------------------------------------
(* Decoding.                                                               *)

EmptyCache == [near |-> [m \in 0 .. SNear - 1 |-> 0], slot |-> 0, same |-> [i \in {} |-> 0]]

\* Faulty: the slot stays the same.
CacheUpdateInPlace(cache, addr) ==
  LET s == addr % (SSame * 256)
  IN [cache EXCEPT !.near[cache.slot] = addr,
        !.same = [i \in DOMAIN @ \cup {s} |-> IF i = s THEN addr ELSE cache.same[i]]]

\* same has the slots that were set; the others are 0.
CacheUpdate(cache, addr) ==
  LET s == addr % (SSame * 256)
  IN [near |-> [cache.near EXCEPT ![cache.slot] = addr],
      slot |-> (cache.slot + 1) % SNear,
      same |-> [i \in DOMAIN cache.same \cup {s} |-> IF i = s THEN addr ELSE cache.same[i]]]

\* There are no more windows to read: memory for all of them, one cache.
Decode ==
  /\ vm.pc = "windows" /\ vm.port = <<>>
  /\ vm' = [vm EXCEPT !.pc = "window", !.cache = EmptyCache,
              !.target = [k \in 1 .. FoldLeft(LAMBDA s, w : s + w.delta.s_window, 0, vm.windows) |-> 0]]
  /\ UNCHANGED encoder

\* Where the copies of a window come from: space, start, length.
SourceOf(w) ==
  CASE w.kind = 1 -> [space |-> "source", start |-> w.pos, length |-> w.length, limit |-> Len(Source)]
    [] w.kind = 2 -> [space |-> "target", start |-> w.pos, length |-> w.length, limit |-> Len(vm.target)]
    [] OTHER -> [space |-> "target", start |-> vm.here, length |-> w.delta.s_window, limit |-> Len(vm.target)]

DecodeWindow ==
  LET w == Head(vm.windows)
      src == SourceOf(w)
  IN /\ vm.pc = "window" /\ vm.windows # <<>>
     /\ IF src.start + src.length > src.limit THEN Refused
        ELSE vm' = [vm EXCEPT !.pc = "code", !.windows = Tail(@), !.src = src,
                      !.data = w.delta.data, !.inst = w.delta.inst, !.addr = w.delta.addr]
     /\ UNCHANGED encoder

\* The address of a COPY; negative ones stand for those beyond 2^31.
AddrDecode(v, mode) ==
  LET i == IntegerRead(v.addr)
      slot == (mode - 2 - SNear) * 256 + Head(v.addr)
  IN CASE mode = 0 -> i
       [] mode = 1 -> [i EXCEPT !.value = v.here - @]
       [] mode \in 2 .. SNear + 1 -> [i EXCEPT !.value = @ + v.cache.near[mode - 2]]
       [] OTHER -> IF v.addr = <<>> THEN i
                   ELSE [ok |-> slot < SSame * 256, rest |-> Tail(v.addr),
                         value |-> IF slot \in DOMAIN v.cache.same THEN v.cache.same[slot] ELSE 0]

Moved(v, bytes) ==
  [v EXCEPT !.here = @ + Len(bytes),
            !.target = [k \in DOMAIN @ |-> IF k \in v.here + 1 .. v.here + Len(bytes)
                                           THEN bytes[k - v.here] ELSE @[k]]]

Failed(v) == [v EXCEPT !.status = "refused"]

Add(v, size) ==
  IF Len(v.data) < size THEN Failed(v)
  ELSE Moved([v EXCEPT !.data = SubSeq(@, size + 1, Len(@))], SubSeq(v.data, 1, size))

\* The counter of the loop has eight bits.
Run(v, size) ==
  IF v.data = <<>> THEN Failed(v)
  ELSE IF size > 255 THEN [v EXCEPT !.status = "loops"]
  ELSE Moved([v EXCEPT !.data = Tail(@)], [k \in 1 .. size |-> Head(v.data)])

Copy(v, size, mode) ==
  LET a == AddrDecode(v, mode)
      from == v.src.start + a.value
      memory == IF v.src.space = "source" THEN Source ELSE v.target
  IN IF ~a.ok \/ a.value < 0 \/ a.value + size > v.src.length THEN Failed(v)
     ELSE Moved([v EXCEPT !.addr = a.rest, !.cache = CacheUpdate(@, a.value)],
                SubSeq(memory, from + 1, from + size))

Decoded(v, i, size) ==
  CASE i.inst = "NOOP" \/ v.status # "running" -> v
    [] i.inst # "NOOP" /\ v.here + size > Len(v.target) -> Failed(v)
    [] i.inst = "ADD" -> Add(v, size)
    [] i.inst = "RUN" -> Run(v, size)
    [] i.inst = "COPY" -> Copy(v, size, i.mode)

\* In the default table only single instructions have their size apart.
DecodeCode ==
  LET code == CodeTable(Head(vm.inst))
      explicit == code[1].size = 0 /\ code[1].inst # "NOOP"
      size == IF explicit THEN IntegerRead(Tail(vm.inst))
              ELSE [ok |-> TRUE, value |-> code[1].size, rest |-> Tail(vm.inst)]
      v == Decoded(Decoded([vm EXCEPT !.inst = size.rest], code[1], size.value), code[2], code[2].size)
  IN /\ vm.pc = "code" /\ vm.inst # <<>>
     /\ IF ~size.ok \/ v.status = "refused" THEN Refused
        ELSE vm' = [v EXCEPT !.pc = IF v.status = "loops" THEN "done" ELSE @]
     /\ UNCHANGED encoder

WindowEnds ==
  /\ vm.pc = "code" /\ vm.inst = <<>>
  /\ vm' = [vm EXCEPT !.pc = "window"]
  /\ UNCHANGED encoder

DecodeEnds ==
  /\ vm.pc = "window" /\ vm.windows = <<>>
  /\ vm' = [vm EXCEPT !.pc = "done", !.status = "decoded"]
  /\ UNCHANGED encoder

Init ==
  /\ \E seg \in Available(<<>>) :
       encoder = [file |-> Magic \o <<0, 0>>, target |-> <<>>, window |-> Window(seg, <<>>),
                  codes |-> 0, copies |-> 0, targets |-> (5 :> <<>>), length |-> 0,
                  plain |-> TRUE]
  /\ vm = [pc |-> "encode", port |-> <<>>, windows |-> <<>>, here |-> 0, target |-> <<>>,
           src |-> [space |-> "source", start |-> 0, length |-> 0, limit |-> 0],
           data |-> <<>>, inst |-> <<>>, addr |-> <<>>, cache |-> EmptyCache, status |-> "running",
           read |-> "full"]

Next ==
  \/ EncodeCode \/ EncodeWindow \/ EncodeEnd
  \/ ReadHeader \/ ReadWindow \/ ReadFails \/ Decode
  \/ DecodeWindow \/ DecodeCode \/ WindowEnds \/ DecodeEnds
-----------------------------------------------------------------------------
(***************************************************************************)
(* A complete file that stays within what the decoder supports (plain)     *)
(* gives the target that was encoded, through all address modes, the cache *)
(* and the double instructions of the table; one that was cut between two  *)
(* windows gives what the windows before the cut encode.  A file that was  *)
(* cut elsewhere, plain or not, is refused, never decoded to something     *)
(* else.  So is a complete one when a read comes short or fails, and for   *)
(* no other reason as long as it is plain (vcdiff.c:92-94, 487-575,        *)
(* 690-852).                                                               *)
(*                                                                         *)
(* Not claimed for files that are not plain: RUNs of 256 bytes or more,    *)
(* addresses that refer to the cache of another window, mode HERE after    *)
(* another window or a segment, target bytes in a window with a segment,   *)
(* and copies beyond what is written.                                      *)
(***************************************************************************)
Decodes ==
  vm.pc = "done" =>
    IF encoder.length \notin DOMAIN encoder.targets \/ vm.read # "full" THEN vm.status = "refused"
    ELSE encoder.plain => /\ vm.status = "decoded"
                          /\ vm.target = encoder.targets[encoder.length]
=============================================================================
