----------------------------- MODULE CycleProofs -----------------------------
(***************************************************************************)
(* diag-cycle finds the loop of the command's orbit, for all contents,     *)
(* hashes, commands and process ids, if no command is stopped and process  *)
(* ids are fresh.                                                          *)
(***************************************************************************)
EXTENDS Cycle, ProgramProofs

-----------------------------------------------------------------------------
(***************************************************************************)
(* The inductive invariant.  The vector has one file for each iterate, of  *)
(* which the last is the input of the run under way, or the output of the  *)
(* run just done; a run writes to none of them.  Every file that was made  *)
(* is to be removed in the end, or it belongs to the run under way.  In a  *)
(* scan the iterates that were passed differ from the output.              *)
(***************************************************************************)
Searching == pc \in {"run", "wait", "lookup", "scan"}

TypeOK ==
  /\ ProgramTypeOK
  /\ source \in Data /\ start \in Data
  /\ fromStdin \in BOOLEAN /\ leave_output \in BOOLEAN
  /\ pc \in {"begin", "run", "wait", "lookup", "scan", "done"}
  /\ v \in Seq(Path)
  /\ q \subseteq Created
  /\ tree \in [HashValue -> Seq(Nat)]
  /\ n \in Nat /\ dqe \in Nat
  /\ pc \in {"wait", "lookup", "scan"} => pid \in Pid

Beginning ==
  pc = "begin" =>
    /\ n = 0
    /\ fs[In(0)] \in {Absent, start}
    /\ \A h \in HashValue : tree[h] = <<>>

VectorInStep ==
  Searching =>
    /\ Len(v) = IF pc = "wait" THEN n ELSE n + 1
    /\ Len(v) > 0
    /\ v[1] = IF fromStdin THEN Tmp ELSE In(0)
    /\ \A k \in 2..Len(v) : v[k] \in {"out"} \X Pid
    /\ \A k \in 1..Len(v) : fs[v[k]] \in Data
    /\ pc = "wait" => \A k \in 1..Len(v) : v[k] # Out(pid)
    /\ pc \in {"lookup", "scan"} => v[n + 1] = Out(pid)

OnlyChild ==
  /\ \A p \in Pid : child[p].st # "none" =>
       pc = "wait" /\ p = pid /\ child[p].in = v[n] /\ RunOf(p)
  /\ pc = "wait" => child[pid].st # "none"

NoneForgotten ==
  \A f \in Created : Exists(f) =>
    /\ pc # "begin"
    /\ Searching => f \in q \/ (pc = "wait" /\ f \in {Out(pid), Err(pid)})

Passed ==
  pc = "scan" =>
    /\ dqe \in 1..(Len(tree[OutHash]) + 1)
    /\ \A i \in 1..(dqe - 1) : fs[Iterate(tree[OutHash][i])] # fs[Out(pid)]

IInv ==
  /\ TypeOK /\ Beginning /\ VectorInStep /\ OnlyChild /\ NoneForgotten /\ Passed
  /\ IteratesKept /\ IndexComplete /\ LoopFound /\ FilesInTheEnd

LEMMA HashType == \A d \in Data : Hash[d] \in HashValue
  BY DEF HashValue

LEMMA InitHolds == Init => IInv
<1> SUFFICES ASSUME Init PROVE IInv
  OBVIOUS
<1> DEFINE given(there) ==
      [i \in Inputs |-> IF fromStdin \/ ~there THEN Absent ELSE source]
<1>1. start \in Data
  BY TransferredType DEF Init
<1>2. /\ ProgramTypeOK
      /\ \A p \in Pid : child[p].st = "none"
      /\ \A f \in Created : ~Exists(f)
      /\ fs[In(0)] \in {Absent, start}
  <2>1. PICK there \in BOOLEAN : ProgramInit(given(there))
    BY DEF Init
  <2>2. /\ \A i \in Inputs : given(there)[i] \in Data \cup {Absent}
        /\ given(there)[0] \in {Absent, start}
    BY CycleAssumption DEF Init
  <2> HIDE DEF given
  <2> QED
    BY <2>1, <2>2, ProgramInitType, CycleAssumption
<1>3. TypeOK
  BY <1>1, <1>2 DEF Init, TypeOK
<1>4. Beginning /\ VectorInStep /\ OnlyChild /\ NoneForgotten /\ Passed
  BY <1>2 DEF Init, Beginning, VectorInStep, OnlyChild, NoneForgotten, Passed, Searching
<1>5. IteratesKept /\ IndexComplete /\ LoopFound /\ FilesInTheEnd
  BY DEF Init, IteratesKept, IndexComplete, LoopFound, FilesInTheEnd
<1> QED
  BY <1>3, <1>4, <1>5 DEF IInv

-----------------------------------------------------------------------------
(***************************************************************************)
(* The input, hashed, is iterate 0.                                        *)
(***************************************************************************)
LEMMA BeginStep ==
  ASSUME IInv, pc = "begin", NEW file \in Path,
         file = IF fromStdin THEN Tmp ELSE In(0),
         fs' \in [Path -> Data \cup {Absent}], fs'[file] = start,
         q' \subseteq Created, \A f \in Created : Exists(f)' => f \in q',
         Begin(file),
         UNCHANGED <<command, child, options, n, pid, dqe, r, printed>>
  PROVE  IInv'
<1> USE DEF IInv, options
<1>1. /\ v' = <<file>> /\ pc' = "run" /\ n = 0 /\ start \in Data
      /\ v' \in Seq(Path) /\ Len(v') = 1 /\ v'[1] = file
      /\ \A h \in HashValue : tree[h] = <<>>
  BY DEF Begin, Beginning, TypeOK
<1>2. Hash[start] \in HashValue /\ tree' = [tree EXCEPT ![Hash[start]] = <<0>>]
  BY <1>1, HashType DEF Begin
<1>3. \A h \in HashValue : tree'[h] = IF h = Hash[start] THEN <<0>> ELSE <<>>
  BY <1>1, <1>2 DEF TypeOK
<1>4. TypeOK'
  BY <1>1, <1>2, <1>3 DEF TypeOK, ProgramTypeOK
<1>5. VectorInStep'
  BY <1>1 DEF VectorInStep, Searching
<1>6. Beginning' /\ OnlyChild' /\ NoneForgotten' /\ Passed'
  BY <1>1 DEF Beginning, OnlyChild, NoneForgotten, Passed
<1>7. IteratesKept'
  BY <1>1 DEF IteratesKept, Compared
<1>8. IndexComplete'
  BY <1>1, <1>3 DEF IndexComplete, Compared
<1>9. LoopFound' /\ FilesInTheEnd'
  BY <1>1 DEF LoopFound, FilesInTheEnd
<1> QED
  BY <1>4, <1>5, <1>6, <1>7, <1>8, <1>9

LEMMA UseInputStep == IInv /\ UseInput => IInv'
<1> SUFFICES ASSUME IInv, UseInput PROVE IInv'
  OBVIOUS
<1>1. In(0) \in Path
  BY Names, CycleAssumption
<1>2. /\ pc = "begin" /\ fs' = fs /\ fs[In(0)] = start /\ q' = q
      /\ ProgramTypeOK /\ q \subseteq Created /\ ~fromStdin
      /\ \A f \in Created : ~Exists(f)
  BY DEF UseInput, IInv, Beginning, TypeOK, NoneForgotten, Exists
<1> QED
  BY <1>1, <1>2, BeginStep DEF UseInput, ProgramTypeOK, Exists

LEMMA CopyStdinStep == IInv /\ CopyStdin => IInv'
<1> SUFFICES ASSUME IInv, CopyStdin PROVE IInv'
  OBVIOUS
<1>1. Tmp \in Path /\ Tmp \in Created
  BY Names
<1>2. /\ pc = "begin" /\ fs' = [fs EXCEPT ![Tmp] = start] /\ q' = {Tmp}
      /\ ProgramTypeOK /\ fromStdin /\ start \in Data
      /\ \A f \in Created : ~Exists(f)
  BY DEF CopyStdin, IInv, TypeOK, NoneForgotten
<1>3. /\ fs' \in [Path -> Data \cup {Absent}] /\ fs'[Tmp] = start
      /\ \A f \in Created : Exists(f)' => f \in q'
  BY <1>1, <1>2, Names DEF ProgramTypeOK, Exists
<1> QED
  BY <1>1, <1>2, <1>3, BeginStep DEF CopyStdin

-----------------------------------------------------------------------------
\* The awaited child is the only one, its run is over, and 0 means success.
LEMMA AwaitedRun ==
  ASSUME IInv, pc = "wait", Waitable(pid), Reap(pid)
  PROVE  /\ child' \in [Pid -> ChildRecord]
         /\ \A p \in Pid : child'[p].st = "none"
         /\ pid \in Pid
         /\ WaitStatus(pid) = 0 =>
              fs[v[n]] \in Data /\ fs[Out(pid)] = command[fs[v[n]]]
<1> USE DEF IInv, TypeOK
<1>1. pid \in Pid /\ child[pid].in = v[n] /\ RunOf(pid)
  BY DEF OnlyChild
<1>2. /\ Ended(pid)
      /\ WaitStatus(pid) = 0 => fs[v[n]] \in Data /\ fs[Out(pid)] = command[fs[v[n]]]
  BY <1>1, WaitedFor
<1>3. /\ child' \in [Pid -> ChildRecord]
      /\ child'[pid].st = "none" /\ \A p \in Pid \ {pid} : child'[p] = child[p]
  BY <1>1, <1>2, ReapChanges
<1> QED
  BY <1>1, <1>2, <1>3 DEF OnlyChild

\* Where the search is given up.
LEMMA GivesUpStep ==
  ASSUME IInv, pc' = "done", r' # EXIT_SUCCESS,
         child' \in [Pid -> ChildRecord], \A p \in Pid : child'[p].st = "none",
         fs' \in [Path -> Data \cup {Absent}], q' \subseteq Created,
         UNCHANGED <<command, options, v, tree, n, dqe, pid, printed>>
  PROVE  IInv'
<1> USE DEF IInv, options
<1>1. TypeOK'
  BY DEF TypeOK, ProgramTypeOK
<1>2. OnlyChild' /\ NoneForgotten'
  BY DEF OnlyChild, NoneForgotten, Searching
<1>3. Beginning' /\ VectorInStep' /\ Passed' /\ IteratesKept' /\ IndexComplete'
  BY DEF Beginning, VectorInStep, Searching, Passed, IteratesKept, IndexComplete
<1>4. LoopFound' /\ FilesInTheEnd'
  BY DEF LoopFound, FilesInTheEnd
<1> QED
  BY <1>1, <1>2, <1>3, <1>4

LEMMA BeginFailsStep == IInv /\ BeginFails => IInv'
<1> SUFFICES ASSUME IInv, BeginFails PROVE IInv'
  OBVIOUS
<1>1. /\ ProgramTypeOK /\ q \subseteq Created /\ source \in Data
      /\ \A p \in Pid : child[p].st = "none"
  BY DEF BeginFails, IInv, TypeOK, OnlyChild
<1>2. fs' \in [Path -> Data \cup {Absent}] /\ q' \subseteq Created
  BY <1>1, Names, PartialType DEF BeginFails, ProgramTypeOK
<1> QED
  BY <1>1, <1>2, GivesUpStep
     DEF BeginFails, Done, ProgramTypeOK, EXIT_FAILURE, EXIT_SUCCESS

LEMMA ForkOrPortFailsStep == IInv /\ (ForkFails \/ PortFails) => IInv'
<1> SUFFICES ASSUME IInv, ForkFails \/ PortFails PROVE IInv'
  OBVIOUS
<1>1. /\ ProgramTypeOK /\ q \subseteq Created
      /\ \A p \in Pid : child[p].st = "none"
  BY DEF ForkFails, PortFails, IInv, TypeOK, OnlyChild
<1> QED
  BY <1>1, GivesUpStep
     DEF ForkFails, PortFails, Done, ProgramTypeOK, EXIT_FAILURE, EXIT_SUCCESS

-----------------------------------------------------------------------------
(***************************************************************************)
(* A run starts on the last iterate.  Its outputs have fresh names, so     *)
(* that it writes to no iterate.                                           *)
(***************************************************************************)
LEMMA RunProgramStep == ASSUME ~PidsCollide PROVE IInv /\ RunProgram => IInv'
<1> SUFFICES ASSUME IInv, RunProgram PROVE IInv'
  OBVIOUS
<1> USE DEF IInv, options
<1>1. /\ pc = "run" /\ pc' = "wait" /\ n' = n + 1 /\ n \in Nat
      /\ UNCHANGED <<command, fs, options, v, q, tree, dqe, r, printed>>
      /\ ProgramTypeOK /\ v \in Seq(Path)
  BY DEF RunProgram, TypeOK
<1>2. Len(v) = n + 1 /\ \A k \in 1..Len(v) : fs[v[k]] \in Data
  BY <1>1 DEF VectorInStep, Searching
<1>3. PICK p \in Pid : Fork(p, v[n + 1]) /\ pid' = p
  BY DEF RunProgram, Iterate
<1>4. ~Exists(Out(p)) /\ ~Exists(Err(p))
  BY <1>3, FreshOutputs
<1>5. \A k \in 1..Len(v) : v[k] \notin {Out(p), Err(p)}
  BY <1>2, <1>4, DataAssumption DEF Exists
<1>6. v[n + 1] \in Path \ {Out(p), Err(p)}
  BY <1>1, <1>2, <1>5
<1>7. /\ ProgramTypeOK'
      /\ child'[p].st = "forked" /\ child'[p].in = v[n + 1] /\ RunOf(p)'
      /\ \A p1 \in Pid \ {p} : child'[p1] = child[p1]
  BY <1>1, <1>3, <1>6, ForkChanges, ForkStartsRun
<1>8. TypeOK'
  BY <1>1, <1>3, <1>7 DEF TypeOK
<1>9. OnlyChild'
  BY <1>1, <1>3, <1>7 DEF OnlyChild
<1>10. VectorInStep'
  BY <1>1, <1>2, <1>3, <1>5 DEF VectorInStep, Searching
<1>11. Beginning' /\ NoneForgotten' /\ Passed' /\ LoopFound' /\ FilesInTheEnd'
  BY <1>1 DEF Beginning, NoneForgotten, Searching, Passed, LoopFound, FilesInTheEnd,
              Exists
<1>12. IteratesKept' /\ IndexComplete'
  BY <1>1 DEF IteratesKept, IndexComplete, Compared
<1> QED
  BY <1>8, <1>9, <1>10, <1>11, <1>12

(***************************************************************************)
(* The run is over.  If it succeeded its output becomes the last iterate,  *)
(* whose turn to be compared is still to come.                             *)
(***************************************************************************)
LEMMA WaitStep == IInv /\ Wait => IInv'
<1> SUFFICES ASSUME IInv, Wait PROVE IInv'
  OBVIOUS
<1> USE DEF IInv, options
<1>1. /\ pc = "wait" /\ Waitable(pid) /\ Reap(pid)
      /\ UNCHANGED <<command, fs, options, tree, n, pid, dqe, printed>>
      /\ ProgramTypeOK /\ v \in Seq(Path) /\ q \subseteq Created /\ n \in Nat
  BY DEF Wait, TypeOK
<1>2. /\ child' \in [Pid -> ChildRecord]
      /\ \A p \in Pid : child'[p].st = "none"
      /\ pid \in Pid
  BY <1>1, AwaitedRun
<1>3. CASE WaitStatus(pid) # 0
  BY <1>1, <1>2, <1>3, GivesUpStep DEF Wait, Done, EXIT_SUCCESS, ProgramTypeOK
<1>4. CASE WaitStatus(pid) = 0
  <2>1. /\ v' = Append(v, Out(pid)) /\ q' = q \cup {Out(pid), Err(pid)}
        /\ pc' = "lookup" /\ r' = r
    BY <1>4 DEF Wait, Outputs
  <2>2. /\ Len(v) = n /\ n > 0 /\ v' \in Seq(Path) /\ Len(v') = n + 1
        /\ v'[n + 1] = Out(pid) /\ \A k \in 1..n : v'[k] = v[k]
        /\ Out(pid) \in {"out"} \X Pid
    BY <1>1, <1>2, <2>1, Names DEF VectorInStep, Searching
  <2>3. fs[v[n]] \in Data /\ fs[Out(pid)] = command[fs[v[n]]] /\ fs[Out(pid)] \in Data
    BY <1>1, <1>4, AwaitedRun DEF ProgramTypeOK
  <2>4. TypeOK'
    BY <1>1, <1>2, <2>1, <2>2, Names DEF TypeOK, ProgramTypeOK
  <2>5. VectorInStep'
    BY <1>1, <2>1, <2>2, <2>3 DEF VectorInStep, Searching
  <2>6. Beginning' /\ OnlyChild' /\ NoneForgotten' /\ Passed'
    BY <1>1, <1>2, <2>1 DEF Beginning, OnlyChild, NoneForgotten, Searching, Passed,
                            Exists
  <2>7. IteratesKept'
    <3>1. /\ fs[v[1]] = start
          /\ \A k \in 1..(n - 1) : fs[v[k + 1]] = command[fs[v[k]]]
          /\ \A j, k \in 1..n : fs[v[j]] = fs[v[k]] => j = k
      BY <1>1, <2>2 DEF IteratesKept, Compared
    <3>2. fs[v'[1]] = start
      BY <1>1, <2>2, <3>1
    <3>3. ASSUME NEW k \in 1..n PROVE fs[v'[k + 1]] = command[fs[v'[k]]]
      <4>1. CASE k = n
        BY <1>1, <2>2, <2>3, <4>1
      <4>2. CASE k # n
        BY <1>1, <2>2, <3>1, <4>2
      <4> QED
        BY <4>1, <4>2
    <3>4. \A j, k \in 1..n : fs[v'[j]] = fs[v'[k]] => j = k
      BY <1>1, <2>2, <3>1
    <3>5. Compared' = n /\ Len(v') - 1 = n
      BY <1>1, <2>1, <2>2 DEF Compared
    <3> QED
      BY <1>1, <3>2, <3>3, <3>4, <3>5 DEF IteratesKept
  <2>8. IndexComplete'
    BY <1>1, <2>1, <2>2 DEF IndexComplete, Compared
  <2>9. LoopFound' /\ FilesInTheEnd'
    BY <2>1 DEF LoopFound, FilesInTheEnd
  <2> QED
    BY <2>4, <2>5, <2>6, <2>7, <2>8, <2>9
<1> QED
  BY <1>3, <1>4

-----------------------------------------------------------------------------
(***************************************************************************)
(* While the output waits for its turn: it is iterate n, and the index has *)
(* exactly the iterates before it.                                         *)
(***************************************************************************)
LEMMA Turn ==
  ASSUME IInv, pc \in {"lookup", "scan"}
  PROVE  /\ n \in Nat /\ v \in Seq(Path) /\ Len(v) = n + 1
         /\ v[n + 1] = Out(pid) /\ pid \in Pid
         /\ \A k \in 1..(n + 1) : fs[v[k]] \in Data
         /\ OutHash \in HashValue /\ OutHash = Hash[fs[v[n + 1]]]
         /\ tree \in [HashValue -> Seq(Nat)]
         /\ \A h \in HashValue :
              /\ {tree[h][i] : i \in DOMAIN tree[h]} =
                   {k \in 0..(n - 1) : Hash[fs[v[k + 1]]] = h}
              /\ \A i, j \in DOMAIN tree[h] : i < j => tree[h][i] < tree[h][j]
         /\ fs[v[1]] = start
         /\ \A k \in 1..n : fs[v[k + 1]] = command[fs[v[k]]]
         /\ \A j, k \in 1..n : fs[v[j]] = fs[v[k]] => j = k
<1>1. /\ n \in Nat /\ v \in Seq(Path) /\ Len(v) = n + 1 /\ pid \in Pid
      /\ v[n + 1] = Out(pid) /\ \A k \in 1..(n + 1) : fs[v[k]] \in Data
      /\ tree \in [HashValue -> Seq(Nat)]
  BY DEF IInv, TypeOK, VectorInStep, Searching
<1>2. fs[v[n + 1]] \in Data
  BY <1>1
<1>3. OutHash \in HashValue /\ OutHash = Hash[fs[v[n + 1]]]
  BY <1>1, <1>2, HashType DEF OutHash
<1>4. Compared = n /\ Len(v) - 1 = n
  BY <1>1 DEF Compared
<1>5. IteratesKept /\ IndexComplete
  BY DEF IInv
<1> QED
  BY <1>1, <1>3, <1>4, <1>5 DEF IteratesKept, IndexComplete

\* The list has the numbers of the set, in ascending order.
Lists(s, S) ==
  /\ {s[i] : i \in DOMAIN s} = S
  /\ \A i, j \in DOMAIN s : i < j => s[i] < s[j]

\* A number larger than all those of such a list joins it at its end.
LEMMA AppendLists ==
  ASSUME NEW s \in Seq(Nat), NEW m \in Nat, NEW S, Lists(s, S), \A x \in S : x < m
  PROVE  Lists(Append(s, m), S \cup {m})
<1>1. PICK l \in Nat : l = Len(s) /\ DOMAIN s = 1..l
  OBVIOUS
<1>2. PICK a : a = Append(s, m)
  OBVIOUS
<1>3. DOMAIN a = 1..(l + 1) /\ a[l + 1] = m /\ \A i \in 1..l : a[i] = s[i]
  BY <1>1, <1>2
<1>4. \A i \in DOMAIN s : s[i] < m /\ s[i] \in Nat
  BY DEF Lists
<1>5. {a[i] : i \in DOMAIN a} = S \cup {m}
  <2>1. ASSUME NEW i \in 1..(l + 1) PROVE a[i] \in S \cup {m}
    <3>1. i \in 1..l => s[i] \in S
      BY <1>1 DEF Lists
    <3> QED
      BY <1>1, <1>3, <3>1
  <2>2. ASSUME NEW x \in S PROVE \E i \in 1..(l + 1) : a[i] = x
    <3>1. PICK i \in 1..l : s[i] = x
      BY <1>1 DEF Lists
    <3> QED
      BY <1>1, <1>3, <3>1
  <2>3. l + 1 \in 1..(l + 1)
    BY <1>1
  <2> QED
    BY <1>3, <2>1, <2>2, <2>3
<1>6. \A i, j \in DOMAIN a : i < j => a[i] < a[j]
  BY <1>1, <1>3, <1>4 DEF Lists
<1> QED
  BY <1>2, <1>5, <1>6 DEF Lists

(***************************************************************************)
(* Iterate n, which differs from all those before it with the same hash,   *)
(* and so from all before it, joins the index.                             *)
(***************************************************************************)
LEMMA JoinsStep ==
  ASSUME IInv, pc \in {"lookup", "scan"}, pc' = "run",
         \A i \in DOMAIN tree[OutHash] :
           fs[v[tree[OutHash][i] + 1]] # fs[Out(pid)],
         tree' = [tree EXCEPT ![OutHash] = Append(@, n)],
         UNCHANGED <<command, fs, child, options, v, q, n, pid, dqe, r, printed>>
  PROVE  IInv'
<1> USE DEF options
<1> DEFINE h0 == OutHash
<1>1. /\ n \in Nat /\ v \in Seq(Path) /\ Len(v) = n + 1 /\ v[n + 1] = Out(pid)
      /\ h0 \in HashValue /\ h0 = Hash[fs[v[n + 1]]]
      /\ tree \in [HashValue -> Seq(Nat)]
  BY Turn
<1>2. \A h \in HashValue :
        /\ {tree[h][i] : i \in DOMAIN tree[h]} =
             {k \in 0..(n - 1) : Hash[fs[v[k + 1]]] = h}
        /\ \A i, j \in DOMAIN tree[h] : i < j => tree[h][i] < tree[h][j]
  BY Turn
<1>3. /\ tree' \in [HashValue -> Seq(Nat)]
      /\ tree'[h0] = Append(tree[h0], n)
      /\ \A h \in HashValue \ {h0} : tree'[h] = tree[h]
  BY <1>1
<1>4. ASSUME NEW k \in 1..n PROVE fs[v[k]] # fs[v[n + 1]]
  <2>1. SUFFICES ASSUME fs[v[k]] = fs[v[n + 1]] PROVE FALSE
    OBVIOUS
  <2>2. k - 1 \in {j \in 0..(n - 1) : Hash[fs[v[j + 1]]] = h0}
    BY <1>1, <2>1
  <2>3. k - 1 \in {tree[h0][i] : i \in DOMAIN tree[h0]}
    BY <1>1, <1>2, <2>2
  <2>4. PICK i \in DOMAIN tree[h0] : tree[h0][i] = k - 1
    BY <2>3
  <2>5. tree[h0][i] + 1 = k
    BY <2>4
  <2> QED
    BY <1>1, <2>1, <2>5
<1> HIDE DEF h0
<1>5. TypeOK'
  BY <1>3 DEF IInv, TypeOK, ProgramTypeOK
<1>6. Beginning' /\ VectorInStep' /\ Passed'
  BY DEF IInv, Beginning, VectorInStep, Searching, Passed
<1>7. OnlyChild' /\ NoneForgotten' /\ LoopFound' /\ FilesInTheEnd'
  BY DEF IInv, OnlyChild, NoneForgotten, Searching, LoopFound, FilesInTheEnd, Exists
<1>8. Compared' = n + 1 /\ Len(v') - 1 = n
  BY <1>1 DEF Compared
<1>9. IteratesKept'
  <2>1. /\ fs[v[1]] = start
        /\ \A k \in 1..n : fs[v[k + 1]] = command[fs[v[k]]]
        /\ \A j, k \in 1..n : fs[v[j]] = fs[v[k]] => j = k
    BY Turn
  <2>2. \A j, k \in 1..(n + 1) : fs[v[j]] = fs[v[k]] => j = k
    BY <1>1, <1>4, <2>1
  <2> QED
    BY <1>8, <2>1, <2>2 DEF IteratesKept
<1>10. IndexComplete'
  <2>1. ASSUME NEW h \in HashValue PROVE Lists(tree'[h], {k \in 0..n : Hash[fs[v[k + 1]]] = h})
    <3>1. PICK S, T : /\ S = {k \in 0..(n - 1) : Hash[fs[v[k + 1]]] = h}
                      /\ T = {k \in 0..n : Hash[fs[v[k + 1]]] = h}
      OBVIOUS
    <3>2. Lists(tree[h], S)
      BY <1>2, <3>1 DEF Lists
    <3>3. CASE h # h0
      <4>1. S = T
        BY <1>1, <3>1, <3>3
      <4>2. tree'[h] = tree[h]
        BY <1>3, <3>3
      <4> QED
        BY <3>1, <3>2, <4>1, <4>2
    <3>4. CASE h = h0
      <4>1. T = S \cup {n}
        BY <1>1, <3>1, <3>4
      <4>2. tree[h] \in Seq(Nat) /\ tree'[h] = Append(tree[h], n)
        BY <1>1, <1>3, <3>4
      <4>3. \A k \in S : k < n
        BY <1>1, <3>1
      <4>4. Lists(Append(tree[h], n), S \cup {n})
        BY <1>1, <3>2, <4>2, <4>3, AppendLists
      <4> QED
        BY <3>1, <4>1, <4>2, <4>4
    <3> QED
      BY <3>3, <3>4
  <2>2. \A h \in HashValue : Lists(tree'[h], {k \in 0..(Compared' - 1) : Hash[fs[v[k + 1]]] = h})
    <3>1. Compared' - 1 = n
      BY <1>1, <1>8
    <3> QED
      BY <2>1, <3>1
  <2> QED
    BY <2>2 DEF IndexComplete, Lists
<1> QED
  BY <1>5, <1>6, <1>7, <1>9, <1>10 DEF IInv

LEMMA InsertHashStep == IInv /\ InsertHash => IInv'
<1> SUFFICES ASSUME IInv, InsertHash PROVE IInv'
  OBVIOUS
<1>1. /\ pc = "lookup" /\ pc' = "run" /\ tree[OutHash] = <<>>
      /\ tree' = [tree EXCEPT ![OutHash] = <<n>>]
  BY DEF InsertHash
<1>2. <<n>> = Append(<<>>, n)
  OBVIOUS
<1>3. tree' = [tree EXCEPT ![OutHash] = Append(@, n)]
  BY <1>1, <1>2
<1> QED
  BY <1>1, <1>3, JoinsStep DEF InsertHash

LEMMA PushHashStep == IInv /\ PushHash => IInv'
<1> SUFFICES ASSUME IInv, PushHash PROVE IInv'
  OBVIOUS
<1>1. /\ pc = "scan" /\ dqe > Len(tree[OutHash]) /\ dqe \in Nat
      /\ \A i \in 1..(dqe - 1) : fs[v[tree[OutHash][i] + 1]] # fs[Out(pid)]
  BY DEF PushHash, IInv, Passed, TypeOK, Iterate
<1>2. tree[OutHash] \in Seq(Nat)
  BY <1>1, Turn
<1>3. \A i \in DOMAIN tree[OutHash] : i \in 1..(dqe - 1)
  BY <1>1, <1>2
<1> QED
  BY <1>1, <1>3, JoinsStep DEF PushHash

(***************************************************************************)
(* The comparison with the iterates that have the hash of the output.      *)
(***************************************************************************)
LEMMA ScanStep == IInv /\ (FindHash \/ Differs) => IInv'
<1> SUFFICES ASSUME IInv, FindHash \/ Differs PROVE IInv'
  OBVIOUS
<1> USE DEF options
<1>1. /\ pc \in {"lookup", "scan"} /\ pc' = "scan" /\ dqe' \in Nat
      /\ UNCHANGED <<command, fs, child, options, v, q, tree, n, pid, r, printed>>
  BY DEF FindHash, Differs, IInv, TypeOK
<1>2. Passed'
  <2>1. tree[OutHash] \in Seq(Nat) /\ Len(tree[OutHash]) \in Nat
    BY <1>1, Turn
  <2>2. CASE FindHash
    BY <1>1, <2>1, <2>2 DEF FindHash, Passed, OutHash, Iterate
  <2>3. CASE Differs
    <3>1. /\ dqe \in Nat /\ dqe \in 1..(Len(tree[OutHash]) + 1)
          /\ \A i \in 1..(dqe - 1) : fs[v[tree[OutHash][i] + 1]] # fs[Out(pid)]
      BY <2>3 DEF Differs, IInv, Passed, TypeOK, Iterate
    <3>2. /\ dqe' = dqe + 1 /\ dqe <= Len(tree[OutHash])
          /\ fs[v[tree[OutHash][dqe] + 1]] # fs[Out(pid)]
      BY <2>3 DEF Differs, Iterate
    <3>3. /\ dqe' \in 1..(Len(tree[OutHash]) + 1)
          /\ \A i \in 1..(dqe' - 1) : i \in 1..(dqe - 1) \/ i = dqe
      BY <2>1, <3>1, <3>2
    <3>4. OutHash' = OutHash
      BY <1>1 DEF OutHash
    <3> QED
      BY <1>1, <3>1, <3>2, <3>3, <3>4 DEF Passed, Iterate
  <2> QED
    BY <2>2, <2>3
<1>3. TypeOK'
  BY <1>1 DEF IInv, TypeOK, ProgramTypeOK
<1>4. Beginning' /\ VectorInStep' /\ OnlyChild' /\ NoneForgotten'
  BY <1>1 DEF IInv, Beginning, VectorInStep, Searching, OnlyChild, NoneForgotten, Exists
<1>5. IteratesKept' /\ IndexComplete' /\ LoopFound' /\ FilesInTheEnd'
  BY <1>1 DEF IInv, IteratesKept, IndexComplete, Compared, LoopFound, FilesInTheEnd
<1> QED
  BY <1>2, <1>3, <1>4, <1>5 DEF IInv

(***************************************************************************)
(* An iterate equals the output: the iterates from its number on are a     *)
(* loop of the command's orbit, which the files list from the start.       *)
(***************************************************************************)
LEMMA FoundStep == IInv /\ Found => IInv'
<1> SUFFICES ASSUME IInv, Found PROVE IInv'
  OBVIOUS
<1> USE DEF options
<1>1. PICK k : k = tree[OutHash][dqe]
  OBVIOUS
<1>2. /\ pc = "scan" /\ pc' = "done" /\ r' = EXIT_SUCCESS
      /\ dqe <= Len(tree[OutHash]) /\ dqe \in 1..(Len(tree[OutHash]) + 1)
      /\ fs[v[k + 1]] = fs[Out(pid)]
      /\ printed' = [length |-> n - k, first |-> k]
      /\ fs' = IF leave_output THEN fs ELSE Removed(q)
      /\ UNCHANGED <<command, child, options, v, q, tree, n, pid, dqe>>
  BY <1>1 DEF Found, Equals, Iterate, Done, IInv, Passed
<1>3. /\ n \in Nat /\ v \in Seq(Path) /\ Len(v) = n + 1 /\ v[n + 1] = Out(pid)
      /\ \A j \in 1..(n + 1) : fs[v[j]] \in Data
      /\ fs[v[1]] = start
      /\ \A j \in 1..n : fs[v[j + 1]] = command[fs[v[j]]]
      /\ \A i, j \in 1..n : fs[v[i]] = fs[v[j]] => i = j
  BY <1>2, Turn
<1>4. k \in 0..(n - 1)
  <2>1. /\ tree[OutHash] \in Seq(Nat) /\ Len(tree[OutHash]) \in Nat
        /\ {tree[OutHash][i] : i \in DOMAIN tree[OutHash]} \subseteq 0..(n - 1)
    BY <1>2, Turn
  <2>2. dqe \in DOMAIN tree[OutHash]
    BY <1>2, <2>1
  <2> QED
    BY <1>1, <2>1, <2>2
<1>5. PICK o \in [0..n -> Data] : \A j \in 0..n : o[j] = fs[v[j + 1]]
  <2>1. [j \in 0..n |-> fs[v[j + 1]]] \in [0..n -> Data]
    BY <1>3
  <2> QED
    BY <2>1
<1>6. PICK m \in Nat : m = n - k /\ m > 0 /\ k + m = n
  BY <1>3, <1>4
<1>7. LoopFound'
  <2>1. o[0] = start /\ \A j \in 0..(n - 1) : o[j + 1] = command[o[j]]
    BY <1>3, <1>5
  <2>2. o[n] = o[k]
    BY <1>2, <1>3, <1>4, <1>5
  <2>3. \A i, j \in 0..(n - 1) : o[i] = o[j] => i = j
    <3>1. ASSUME NEW i \in 0..(n - 1), NEW j \in 0..(n - 1), o[i] = o[j]
          PROVE  i = j
      <4>1. /\ i + 1 \in 1..n /\ j + 1 \in 1..n /\ i \in 0..n /\ j \in 0..n
        BY <1>3
      <4>2. fs[v[i + 1]] = fs[v[j + 1]]
        BY <1>5, <3>1, <4>1
      <4>3. i + 1 = j + 1
        BY <1>3, <4>1, <4>2
      <4> QED
        BY <4>3
    <3> QED
      BY <3>1
  <2>4. /\ start' = start /\ command' = command /\ k \in Nat
        /\ printed'.length = m /\ printed'.first = k
    BY <1>2, <1>4, <1>6
  <2>5. IsOrbit(o, k + m)'
    BY <1>6, <2>1, <2>4 DEF IsOrbit
  <2>6. o[k + m] = o[k] /\ k + m - 1 = n - 1
    BY <1>3, <1>6, <2>2, <2>4
  <2>7. \A i, j \in 0..(k + m - 1) : o[i] = o[j] => i = j
    <3>1. 0..(k + m - 1) = 0..(n - 1)
      BY <2>6
    <3> QED
      BY <2>3, <3>1
  <2>8. IsLoop(o, m, k)'
    BY <1>6, <2>5, <2>6, <2>7 DEF IsLoop
  <2> QED
    BY <1>6, <2>4, <2>8 DEF LoopFound
<1>8. /\ fs' \in [Path -> Data \cup {Absent}]
      /\ ~leave_output => \A f \in Path : fs'[f] = IF f \in q THEN Absent ELSE fs[f]
  BY <1>2, RemovedChanges DEF IInv, TypeOK, ProgramTypeOK
<1>9. FilesInTheEnd'
  <2>1. CASE leave_output
    <3>1. /\ \A j \in 2..Len(v) : v[j] \in {"out"} \X Pid
          /\ fromStdin => Exists(Tmp)
      BY <1>2, <1>3, DataAssumption DEF IInv, VectorInStep, Searching, Exists
    <3> QED
      BY <1>2, <1>3, <2>1, <3>1 DEF FilesInTheEnd, Exists
  <2>2. CASE ~leave_output
    BY <1>2, <1>8, <2>2, Names DEF FilesInTheEnd, IInv, NoneForgotten, Searching, Exists
  <2> QED
    BY <2>1, <2>2
<1>10. TypeOK'
  BY <1>2, <1>8 DEF IInv, TypeOK, ProgramTypeOK
<1>11. Beginning' /\ VectorInStep' /\ OnlyChild' /\ NoneForgotten' /\ Passed'
  BY <1>2 DEF IInv, Beginning, VectorInStep, Searching, OnlyChild, NoneForgotten, Passed
<1>12. IteratesKept' /\ IndexComplete'
  BY <1>2 DEF IteratesKept, IndexComplete
<1> QED
  BY <1>7, <1>9, <1>10, <1>11, <1>12 DEF IInv

-----------------------------------------------------------------------------
\* A child writes to its own outputs, which are no iterate's.
LEMMA EnvironmentStep == ASSUME ~Stops PROVE IInv /\ Environment => IInv'
<1> SUFFICES ASSUME IInv, Environment PROVE IInv'
  OBVIOUS
<1> USE DEF options
<1>1. PICK p \in Pid : ChildStep(p) \/ ChildSignal(p)
  BY DEF Environment
<1>2. /\ UNCHANGED local /\ UNCHANGED command /\ ProgramTypeOK /\ ProgramTypeOK'
      /\ child[p].st # "none"
      /\ child'[p].st # "none"
      /\ \A p1 \in Pid \ {p} : child'[p1] = child[p1]
      /\ \A f \in Path \ {Out(p), Err(p)} : fs'[f] = fs[f]
  BY <1>1, ChildChanges DEF Environment, IInv, TypeOK
<1>3. pc = "wait" /\ p = pid /\ child[p].in = v[n] /\ RunOf(p)
  BY <1>2 DEF IInv, OnlyChild
<1>4. /\ n \in Nat /\ v \in Seq(Path) /\ Len(v) = n /\ n > 0
      /\ \A k \in 1..n : fs[v[k]] \in Data /\ v[k] # Out(p)
      /\ v[1] = IF fromStdin THEN Tmp ELSE In(0)
      /\ \A k \in 2..n : v[k] \in {"out"} \X Pid
  BY <1>3 DEF IInv, TypeOK, VectorInStep, Searching
<1>5. \A k \in 1..n : v[k] # Err(p)
  BY <1>4, Names, CycleAssumption
<1>6. \A k \in 1..n : fs'[v[k]] = fs[v[k]]
  BY <1>2, <1>4, <1>5
<1>7. TypeOK'
  BY <1>2 DEF IInv, TypeOK, local
<1>8. OnlyChild'
  <2>1. child'[p].in = v[n] /\ RunOf(p)'
    BY <1>1, <1>2, <1>3, ChildKeepsRun
  <2> QED
    BY <1>2, <1>3, <2>1 DEF IInv, OnlyChild, local
<1>9. VectorInStep'
  BY <1>2, <1>3, <1>4, <1>6 DEF IInv, VectorInStep, Searching, local
<1>10. NoneForgotten'
  BY <1>2, <1>3, Names DEF IInv, NoneForgotten, Searching, Exists, local
<1>11. Beginning' /\ Passed' /\ LoopFound' /\ FilesInTheEnd'
  BY <1>2, <1>3 DEF Beginning, Passed, LoopFound, FilesInTheEnd, local
<1>12. IteratesKept'
  <2>1. /\ fs[v[1]] = start
        /\ \A k \in 1..(n - 1) : fs[v[k + 1]] = command[fs[v[k]]]
        /\ \A j, k \in 1..n : fs[v[j]] = fs[v[k]] => j = k
    BY <1>3, <1>4 DEF IInv, IteratesKept, Compared
  <2>2. /\ fs'[v[1]] = start
        /\ \A j, k \in 1..n : fs'[v[j]] = fs'[v[k]] => j = k
    BY <1>4, <1>6, <2>1
  <2>3. \A k \in 1..(n - 1) : fs'[v[k + 1]] = command[fs'[v[k]]]
    <3>1. \A k \in 1..(n - 1) : k \in 1..n /\ k + 1 \in 1..n
      BY <1>4
    <3> QED
      BY <1>6, <2>1, <3>1
  <2>4. Compared' = n /\ Len(v) - 1 = n - 1
    BY <1>2, <1>3, <1>4 DEF Compared, local
  <2> QED
    BY <1>2, <2>2, <2>3, <2>4 DEF IteratesKept, local
<1>13. IndexComplete'
  <2>1. Compared = n /\ Compared' = n
    BY <1>2, <1>3, <1>4 DEF Compared, local
  <2>2. ASSUME NEW h \in HashValue
        PROVE  {k \in 0..(n - 1) : Hash[fs[v[k + 1]]] = h} =
                 {k \in 0..(n - 1) : Hash[fs'[v[k + 1]]] = h}
    BY <1>4, <1>6
  <2> QED
    BY <1>2, <1>3, <2>1, <2>2 DEF IInv, IndexComplete, local
<1> QED
  BY <1>7, <1>8, <1>9, <1>10, <1>11, <1>12, <1>13 DEF IInv

LEMMA NextHolds == ASSUME ~Stops, ~PidsCollide PROVE IInv /\ [Next]_vars => IInv'
<1> SUFFICES ASSUME IInv, [Next]_vars PROVE IInv'
  OBVIOUS
<1>1. CASE Parent
  BY <1>1, UseInputStep, CopyStdinStep, BeginFailsStep, RunProgramStep,
     ForkOrPortFailsStep, WaitStep, InsertHashStep, PushHashStep, ScanStep, FoundStep
     DEF Parent
<1>2. CASE Environment
  BY <1>2, EnvironmentStep
<1>3. CASE UNCHANGED vars
  <2> USE <1>3 DEF IInv, vars, local, options
  <2>1. TypeOK' /\ Beginning' /\ VectorInStep' /\ NoneForgotten' /\ Passed'
    BY DEF TypeOK, ProgramTypeOK, Beginning, VectorInStep, Searching, NoneForgotten,
           Passed, OutHash, Iterate, Exists
  <2>2. OnlyChild'
    BY DEF OnlyChild, RunOf, Exists
  <2>3. IteratesKept' /\ IndexComplete' /\ LoopFound' /\ FilesInTheEnd'
    BY DEF IteratesKept, IndexComplete, Compared, LoopFound, IsLoop, IsOrbit,
           FilesInTheEnd, Exists
  <2> QED
    BY <2>1, <2>2, <2>3
<1> QED
  BY <1>1, <1>2, <1>3 DEF Next, Terminated

-----------------------------------------------------------------------------
(***************************************************************************)
(* For every command and every hash, what diag-cycle reports on success is *)
(* the loop of the command's orbit: of the smallest length, and from the   *)
(* first iterate that comes back.  Equal hashes of different iterates do   *)
(* not mislead it (diag-cycle.c:176-225).                                  *)
(***************************************************************************)
THEOREM CycleFindsLoop == ASSUME ~Stops, ~PidsCollide PROVE Spec => []LoopFound
<1>1. IInv => LoopFound
  BY DEF IInv
<1> QED
  BY <1>1, InitHolds, NextHolds, PTL DEF Spec

(***************************************************************************)
(* Throughout the search the files of the vector hold the command's orbit  *)
(* from the input on, without repetition: no run overwrites an iterate     *)
(* (diag-cycle.c:153-185,223).                                             *)
(***************************************************************************)
THEOREM CycleKeepsIterates == ASSUME ~Stops, ~PidsCollide PROVE Spec => []IteratesKept
<1>1. IInv => IteratesKept
  BY DEF IInv
<1> QED
  BY <1>1, InitHolds, NextHolds, PTL DEF Spec

(***************************************************************************)
(* The index has each iterate under its own hash, once and in order,       *)
(* however many iterates share a hash (diag-cycle.c:38-61,223).            *)
(***************************************************************************)
THEOREM CycleIndexesAll == ASSUME ~Stops, ~PidsCollide PROVE Spec => []IndexComplete
<1>1. IInv => IndexComplete
  BY DEF IInv
<1> QED
  BY <1>1, InitHolds, NextHolds, PTL DEF Spec

(***************************************************************************)
(* After a success no file is left behind without -O, and with it all      *)
(* outputs are there and hold the iterates (diag-cycle.c:171-219).         *)
(***************************************************************************)
THEOREM CycleFilesInTheEnd == ASSUME ~Stops, ~PidsCollide PROVE Spec => []FilesInTheEnd
<1>1. IInv => FilesInTheEnd
  BY DEF IInv
<1> QED
  BY <1>1, InitHolds, NextHolds, PTL DEF Spec
=============================================================================
