-------------------------------- MODULE Tools --------------------------------
(***************************************************************************)
(* The tools that work on files and lines without running a command, and   *)
(* what they use.  A behaviour is one run of one of them: those with loops *)
(* worth following step by step are modules of their own, the others take  *)
(* an input and have a result.                                             *)
(***************************************************************************)
EXTENDS Integers, Sequences, Seqs, FiniteSets

LOCAL INSTANCE TLC

CONSTANTS
  Cases,                                             \* diag-file
  Source, Segments, Codes, Sizes, RunSizes, Addrs, MaxCut,  \* diag-dec
  Data, Files, Windows, Bases, Modulus,              \* contract, diag-hash
  Char, NL, BufSize, MaxLen,                         \* reading lines
  NearCases, Thresholds,   \* numbers of lines and distances they may have, -t
  Texts,                   \* contents of files and lines
  Samples, Exponents,      \* numbers, -e
  Columned, Columns,       \* lines with columns, -c
  Blocks, Counts,          \* contents of files, -c of diag-uniq
  FileSystems, Arguments,  \* directories, paths given to diag-file
  Words, MaxWords          \* the words in a trie, and how many of them

ASSUME ModulusAssumption == Modulus \in Nat \ {0} /\ Modulus % 2 = 0
ASSUME TextsAssumption == Texts \subseteq Seq(Nat) /\ Thresholds \subseteq Nat
ASSUME HashAssumption ==
  Files \subseteq Seq(Nat) /\ Windows \subseteq Nat \ {0} /\ Bases \subseteq Nat \ {0}
ASSUME BlocksAssumption == Blocks \subseteq Seq(Nat) /\ Counts \subseteq Nat \ {0}

VARIABLES
  tool,   \* what runs
  input,  \* its input, and how that came about
  state   \* its variables, its result in the end

vars == <<tool, input, state>>

File == INSTANCE Linkage WITH sl <- state
Dec == INSTANCE Vcdiff WITH encoder <- input, vm <- state
Enc == INSTANCE Contract WITH script <- state
Line == INSTANCE Lines WITH context <- state
Tr == INSTANCE Trie WITH trie <- state
H == INSTANCE Hashes
G == INSTANCE Groups
T == INSTANCE Strings
S == INSTANCE Stats
P == INSTANCE Paths

ASSUME LinesAssumption == Line!LineSizes

Running == [end |-> FALSE]
Ends(result) == state' = [end |-> TRUE, result |-> result] /\ UNCHANGED <<tool, input>>

\* Two files, a window and a base.
HashInit ==
  /\ input \in [files : Files \X Files, window : Windows, base : Bases]
  /\ \A f \in ToSet(input.files) : input.window <= Len(f)
\* diag-hash -s on both, diag-file on what that writes.
HashEnd ==
  LET hashes(i) == H!Collect(input.files[i], input.window, input.base)
  IN \E p \in H!Sorted(hashes(1)), q \in H!Sorted(hashes(2)) : Ends(H!MergeCounts(p, q))

GroupsInit ==
  \E c \in NearCases : input \in [n : {c.n}, distance : [ToSet(G!PairsOf(c.n)) -> c.distances],
                                  t : Thresholds, one : BOOLEAN, wide : BOOLEAN]
GroupsEnd ==
  Ends([line |-> G!LineGroups(input.n, input.distance, input.t, input.one),
        enc |-> G!EncClusters(input.n, input.distance, input.t, input.wide)])

StringsInit == input \in [x : Texts, y : Texts, e : Thresholds]
StringsEnd ==
  Ends([hamming |-> T!HammingChars(input.x, input.y), levenshtein |-> T!LevenshteinChars(input.x, input.y),
        ehamming |-> T!EHammingChars(input.x, input.y, input.e),
        elevenshtein |-> T!ELevenshteinChars(input.x, input.y, input.e),
        file |-> T!Hamming(input.x, input.y), fileLevenshtein |-> T!Levenshtein(input.x, input.y),
        deltas |-> T!DeltaHammingChars(input.x, input.y), lcs |-> T!LcsCompute(input.x, input.y)])

SampleInit == input \in [lines : Samples, exponent : Exponents]
SampleEnd == Ends([medi |-> S!Medi(input.lines), mode |-> S!Mode(input.lines, input.exponent)])

MeanInit == input \in [lines : Columned, columns : Columns]
MeanEnd == Ends(S!Mean(input.lines, input.columns))

UniqInit == input \in [data : Blocks, count : Counts]
UniqEnd == Ends(S!Uniq(input.data, input.count))

PathsInit == input \in [fs : FileSystems, paths : Arguments]
PathsEnd == Ends(P!DiagPaths(input.fs, input.paths))

Init ==
  \/ tool = "file" /\ input = <<>> /\ File!Init
  \/ tool = "dec" /\ Dec!Init
  \/ tool = "contract" /\ input = <<>> /\ Enc!Init
  \/ tool = "lines" /\ input = <<>> /\ Line!Init
  \/ tool = "trie" /\ input = <<>> /\ Tr!Init
  \/ /\ state = Running
     /\ \/ tool = "hash" /\ HashInit
        \/ tool = "groups" /\ GroupsInit
        \/ tool = "strings" /\ StringsInit
        \/ tool = "sample" /\ SampleInit
        \/ tool = "mean" /\ MeanInit
        \/ tool = "uniq" /\ UniqInit
        \/ tool = "paths" /\ PathsInit

Next ==
  \/ tool = "file" /\ File!Next /\ UNCHANGED <<tool, input>>
  \/ tool = "dec" /\ Dec!Next /\ UNCHANGED tool
  \/ tool = "contract" /\ Enc!Next /\ UNCHANGED <<tool, input>>
  \/ tool = "lines" /\ Line!Next /\ UNCHANGED <<tool, input>>
  \/ tool = "trie" /\ Tr!Next /\ UNCHANGED <<tool, input>>
  \/ /\ state = Running
     /\ \/ tool = "hash" /\ HashEnd
        \/ tool = "groups" /\ GroupsEnd
        \/ tool = "strings" /\ StringsEnd
        \/ tool = "sample" /\ SampleEnd
        \/ tool = "mean" /\ MeanEnd
        \/ tool = "uniq" /\ UniqEnd
        \/ tool = "paths" /\ PathsEnd

Spec == Init /\ [][Next]_vars

-----------------------------------------------------------------------------
(* Properties.                                                             *)

Result(t) == tool = t /\ state.end

\* diag-file: each round finds exactly the pairs that can be merged, with
\* their distances, by nodes that the deletions before did not free
\* (singlelinkage.c:59-149).
LinkageSound == tool = "file" => File!PairsAreDistances /\ File!WalkIsSafe

\* diag-file: what is printed are disjoint parts of the clusters.
GroupsSound == tool = "file" => File!GroupsSound

\* diag-dec: what an encoder wrote is decoded (see Vcdiff for the exceptions).
Decodes == tool = "dec" => Dec!Decodes

\* The encoder of the library: its scripts expand to the data, unless two
\* copies overlap.
ExpandsUnlessOverlap == tool = "contract" => Enc!ExpandsUnlessOverlap

\* All tools that read lines get those of the input.
LinesRead == tool = "lines" => Line!LinesRead

(***************************************************************************)
(* What diag-file -m hash32_rev says of two files that diag-hash -s wrote. *)
(* Whatever the hashes are, it is not more than the hashes that the files  *)
(* share, each as often as it is in both, and not more than the windows    *)
(* that they share if no two different windows of them have one hash.  It  *)
(* is all the hashes they share, and at least all the windows, if no two   *)
(* hashes of a file are 2^31 or more apart: beyond that the comparison of  *)
(* diag-hash is no order, and the merge misses hashes (diag-hash.c:25-31,  *)
(* diag-file.c:125-154).                                                   *)
(***************************************************************************)
SharedHashes ==
  Result("hash") =>
    LET windows(i) == [k \in 1 .. Len(input.files[i]) - input.window + 1 |->
                         SubSeq(input.files[i], k, k + input.window - 1)]
        v == windows(1)
        w == windows(2)
        p == [k \in DOMAIN v |-> H!Hash(v[k], input.base)]
        q == [k \in DOMAIN w |-> H!Hash(w[k], input.base)]
        near(arr) == \A x, y \in ToSet(arr) : x - y < Modulus \div 2
        collide == \E k \in DOMAIN v, l \in DOMAIN w : p[k] = q[l] /\ v[k] # w[l]
        counted == state.result.hash32_rev
    IN /\ counted <= H!Shared(p, q)
       /\ ~collide => counted <= H!Shared(v, w)
       /\ near(p) /\ near(q) => counted = H!Shared(p, q) /\ counted >= H!Shared(v, w)

(***************************************************************************)
(* diag-line finds the single-linkage groups of the lines: two lines are   *)
(* in one group exactly if a chain of near lines joins them, each line is  *)
(* shown once, and without -1 exactly the lines that are near to some      *)
(* other.  diag-enc, which goes through the pairs by distance, finds the   *)
(* same groups in a build whose pointers are as wide as unsigned int; with *)
(* wider ones, as in builds of 64 bits, only if no two lines are near: the *)
(* first near pair gives indices beyond its table, as a file of one line   *)
(* gives no pair (diag-line.c:97-124, diag-enc.c:90-143).                  *)
(***************************************************************************)
SameGroups ==
  Result("groups") =>
    LET groups == G!Components(input.n, input.distance, input.t)
        near == \E g \in groups : Cardinality(g) > 1
        enc == state.result.enc
    IN /\ G!AreGroups(state.result.line, {g \in groups : input.one \/ Cardinality(g) > 1})
       /\ enc.defined <=> input.n > 1 /\ ~(input.wide /\ near)
       /\ enc.defined => G!AreGroups(enc.groups, groups)

(***************************************************************************)
(* The table of two rows, with common ends trimmed and the strings         *)
(* swapped, gives the edit distance; the metrics with a limit agree with   *)
(* those without one.  The levenshtein of diag-file is right for files of  *)
(* the same size only (levenshtein.c:16-84, hamming.c, diag-file.c:47-88). *)
(***************************************************************************)
MetricsExact ==
  Result("strings") =>
    LET r == state.result
        d == T!EditDistance(input.x, input.y, 1)
    IN /\ r.levenshtein = d
       /\ r.file = r.hamming
       /\ r.ehamming = IF r.hamming < input.e THEN r.hamming ELSE -1
       /\ r.elevenshtein = IF d < input.e THEN d ELSE -1
       /\ Len(input.x) = Len(input.y) => r.fileLevenshtein = d

\* The deltas lead from one string to the other, and so does the script of
\* lcs.c, with as few steps as possible.
EditScripts ==
  Result("strings") =>
    LET r == state.result
    IN /\ T!ApplyDeltas(input.x, r.deltas) = input.y
       /\ T!Leads(input.x, input.y, r.lcs.ses)
       /\ r.lcs.distance = T!EditDistance(input.x, input.y, 2)
       /\ Len(SelectSeq(r.lcs.ses, LAMBDA k : k # 0)) = r.lcs.distance

SampleExact ==
  Result("sample") =>
    LET lines == input.lines
        data == SortSeq(S!Numbers(lines), <)
        n == Len(data)
        size(v) == Len(SelectSeq(data, LAMBDA x : S!ClassOf(x, input.exponent) = S!ClassOf(v, input.exponent)))
        modes == {v \in ToSet(data) : \A w \in ToSet(data) : size(w) <= size(v)}
        mode == state.result.mode
    IN IF S!NoInput(lines) THEN state.result = [medi |-> S!Failure, mode |-> S!Failure]
       ELSE /\ state.result.medi = <<data[(n + 1) \div 2] + data[(n \div 2) + 1]>>
            /\ ToSet(mode) \subseteq modes
            /\ {S!ClassOf(v, input.exponent) : v \in ToSet(mode)} = {S!ClassOf(v, input.exponent) : v \in modes}
            /\ \A i \in 1 .. Len(mode) - 1 : S!ClassOf(mode[i], input.exponent) < S!ClassOf(mode[i + 1], input.exponent)

MeanComplete ==
  Result("mean") =>
    LET fields(line) == S!Fields(line)
        enough == input.lines # <<>> /\ \A line \in ToSet(input.lines) : Len(fields(line)) >= input.columns
    IN /\ enough => state.result = [i \in 1 .. input.columns |->
                      FoldLeft(LAMBDA s, line : s + fields(line)[i], 0, input.lines)]
       /\ ~enough /\ state.result # S!Failure =>
            \E line \in ToSet(input.lines) : Len(fields(line)) < input.columns /\ S!Rest(line) # <<>>

(***************************************************************************)
(* The median is the element, or the mean of the two, in the middle of the *)
(* sorted sample, with equal elements and whatever qselect moves; the mode *)
(* has one number for each of the largest classes, in their order          *)
(* (qselect.c:12-80, diag-medi.c:96-120, diag-mode.c:31-163).  The mean of *)
(* columns succeeds if every line has enough numbers, with their sums; if  *)
(* it succeeds otherwise, a line has something behind its last number,     *)
(* which is then taken for zeros (diag-mean.c:69-107).                     *)
(***************************************************************************)
StatsExact == SampleExact /\ MeanComplete

\* The words in a trie, as far as its relocations leave them alone.
FindsInserted == tool = "trie" => Tr!FindsInserted

(***************************************************************************)
(* The files that diag-file works on are all there are among the arguments *)
(* and below them, as often as they are given, those that are less deep    *)
(* before the others; if anything could not be read there are none         *)
(* (filesystem.c:57-161, 186-196).                                         *)
(***************************************************************************)
PathsComplete ==
  Result("paths") =>
    LET fs == input.fs
        paths == input.paths
        opened == UNION {{d[1] : d \in P!Opened(fs, path)} : path \in ToSet(paths)}
        failing == ToSet(paths) \cap fs.missing # {} \/ opened \cap (fs.closed \cup fs.stale) # {}
        found(e) == Len(SelectSeq(paths, LAMBDA path : <<e.attr, e.key>> \in P!Found(fs, path)))
        total == FoldLeft(LAMBDA k, path : k + Cardinality(P!Found(fs, path)), 0, paths)
        es == state.result
    IN /\ failing => es = <<>>
       /\ ~failing => /\ Len(es) = total
                     /\ \A e \in ToSet(es) : H!Count(es, e) = found(e)
                     /\ \A i \in 1 .. Len(es) - 1 : es[i].key <= es[i + 1].key

(***************************************************************************)
(* diag-uniq leaves out each block that equals the one before it: the      *)
(* others come in their order, with nothing between them.  Behind them are *)
(* as many bytes as the file has after its last whole block, but wrong     *)
(* ones (diag-uniq.c:72-103).                                              *)
(***************************************************************************)
UniqFilters ==
  Result("uniq") =>
    LET count == input.count
        block(i) == SubSeq(input.data, (i - 1) * count + 1, i * count)
        kept == {i \in 1 .. Len(input.data) \div count : i = 1 \/ block(i) # block(i - 1)}
        before(i) == Cardinality({k \in kept : k < i})
    IN /\ Len(state.result) = Cardinality(kept) * count + (Len(input.data) % count)
       /\ \A i \in kept :
            SubSeq(state.result, before(i) * count + 1, (before(i) + 1) * count) = block(i)
=============================================================================
