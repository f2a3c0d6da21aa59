-------------------------------- MODULE Cycle --------------------------------
(***************************************************************************)
(* diag-cycle: iterate the command until an output repeats, then print the *)
(* length of the loop and the number of the output where it starts         *)
(* (diag-cycle.c).                                                         *)
(***************************************************************************)
EXTENDS Program, Sequences, FiniteSets

CONSTANTS
  Hash,     \* the hash of each content
  MaxRuns   \* bound: how many times the model lets the command run

HashValue == {Hash[d] : d \in Data}

ASSUME CycleAssumption ==
  /\ Hash \in [Data -> Int]
  /\ MaxRuns \in Nat
  /\ Inputs = {0}

VARIABLES
  source,        \* the content of stdin, or of the file given with -i
  start,         \* as much of it as reaches the first run
  fromStdin,     \* no -i option
  leave_output,  \* the option -O
  pc,
  v,             \* the vector of the files with the iterates, the input first
  q,             \* the files to be removed in the end
  tree,          \* per hash value the numbers of the iterates that have it;
                 \* <<>> where diag_rbtree_search finds no node
  n,             \* the number of the current run
  pid,           \* the child of the current run
  dqe,           \* position in the numbers that are being compared
  r,             \* the exit status
  printed        \* what went to stdout

options == <<source, start, fromStdin, leave_output>>
local   == <<options, pc, v, q, tree, n, pid, dqe, r, printed>>
vars    == <<command, fs, child, local>>

Nothing == [length |-> 0, first |-> 0]

Init ==
  /\ source \in Data
  /\ fromStdin \in BOOLEAN
  /\ start \in IF fromStdin THEN Transferred(source) ELSE {source}
  /\ leave_output \in BOOLEAN
  /\ \E there \in BOOLEAN :
       ProgramInit([i \in Inputs |-> IF fromStdin \/ ~there THEN Absent ELSE source])
  /\ pc = "begin"
  /\ v = <<>>
  /\ q = {}
  /\ tree = [h \in HashValue |-> <<>>]
  /\ n = 0
  /\ pid = CHOOSE p \in Pid : TRUE
  /\ dqe = 0
  /\ r = EXIT_FAILURE
  /\ printed = Nothing

\* Faulty: one behind.
IterateBefore(k) == IF k = 0 THEN v[1] ELSE v[k]

\* The file with the k-th iterate.
Iterate(k) == v[k + 1]

\* The hash of the output of the current run.
OutHash == Hash[fs[Out(pid)]]

\* The label done frees memory; no file is removed there.
Done(code) == pc' = "done" /\ r' = code

(***************************************************************************)
(* The input is either the user's file or a temporary copy of stdin; it is *)
(* hashed and becomes iterate 0.                                           *)
(***************************************************************************)
Begin(file) ==
  /\ v' = <<file>>
  /\ tree' = [tree EXCEPT ![Hash[fs'[file]]] = <<0>>]
  /\ pc' = "run"

UseInput ==
  /\ pc = "begin"
  /\ ~fromStdin
  /\ Exists(In(0))
  /\ UNCHANGED fs
  /\ Begin(In(0))
  /\ UNCHANGED <<command, child, options, q, n, pid, dqe, r, printed>>

CopyStdin ==
  /\ pc = "begin"
  /\ fromStdin
  /\ fs' = [fs EXCEPT ![Tmp] = start]
  /\ q' = {Tmp}
  /\ Begin(Tmp)
  /\ UNCHANGED <<command, child, options, n, pid, dqe, r, printed>>

\* No temporary file, or no full copy of stdin, or the input cannot be mapped.
BeginFails ==
  /\ pc = "begin"
  /\ \/ UNCHANGED <<fs, q>>
     \/ /\ fromStdin
        /\ \E d \in Partial[source] : fs' = [fs EXCEPT ![Tmp] = d]
        /\ q' = {Tmp}
  /\ Done(EXIT_FAILURE)
  /\ UNCHANGED <<command, child, options, v, tree, n, pid, dqe, printed>>

RunProgram ==
  /\ pc = "run"
  /\ n < MaxRuns
  /\ \E p \in Pid : Fork(p, Iterate(n)) /\ pid' = p
  /\ n' = n + 1
  /\ pc' = "wait"
  /\ UNCHANGED <<command, fs, options, v, q, tree, dqe, r, printed>>

ForkFails ==
  /\ pc = "run"
  /\ n < MaxRuns
  /\ Done(EXIT_FAILURE)
  /\ UNCHANGED <<command, fs, child, options, v, q, tree, n, pid, dqe, printed>>

\* Faulty: the err file is not to be removed.
OutputsButErr(p) == {Out(p)}

Outputs(p) == {Out(p), Err(p)}

\* diag_process_wait; a successful run's output becomes iterate n.
Wait ==
  /\ pc = "wait"
  /\ Waitable(pid)
  /\ Reap(pid)
  /\ IF WaitStatus(pid) # 0
       THEN Done(WaitStatus(pid)) /\ UNCHANGED <<v, q>>
       ELSE /\ v' = Append(v, Out(pid))
            /\ q' = q \cup Outputs(pid)
            /\ pc' = "lookup"
            /\ UNCHANGED r
  /\ UNCHANGED <<command, fs, options, tree, n, pid, dqe, printed>>

\* Faulty: under the number of the iterate before.
InsertHashBefore ==
  /\ pc = "lookup"
  /\ Exists(Out(pid))
  /\ tree[OutHash] = <<>>
  /\ tree' = [tree EXCEPT ![OutHash] = <<n - 1>>]
  /\ pc' = "run"
  /\ UNCHANGED <<command, fs, child, options, v, q, n, pid, dqe, r, printed>>

\* find_or_insert does not find the hash: iterate n is the first to have it.
InsertHash ==
  /\ pc = "lookup"
  /\ Exists(Out(pid))
  /\ tree[OutHash] = <<>>
  /\ tree' = [tree EXCEPT ![OutHash] = <<n>>]
  /\ pc' = "run"
  /\ UNCHANGED <<command, fs, child, options, v, q, n, pid, dqe, r, printed>>

\* find_or_insert finds iterates with the same hash.
FindHash ==
  /\ pc = "lookup"
  /\ Exists(Out(pid))
  /\ tree[OutHash] # <<>>
  /\ dqe' = 1
  /\ pc' = "scan"
  /\ UNCHANGED <<command, fs, child, options, v, q, tree, n, pid, r, printed>>

\* The iterate at dqe is compared with the output, and differs.
Differs ==
  /\ pc = "scan"
  /\ dqe <= Len(tree[OutHash])
  /\ Exists(Iterate(tree[OutHash][dqe]))
  /\ fs[Iterate(tree[OutHash][dqe])] # fs[Out(pid)]
  /\ dqe' = dqe + 1
  /\ UNCHANGED <<command, fs, child, options, pc, v, q, tree, n, pid, r, printed>>

\* Faulty: the same hash is taken for the same content.
EqualsByHash(k) == Exists(Iterate(k))

\* diag_port_diff finds no difference between iterate k and the output.
Equals(k) == Exists(Iterate(k)) /\ fs[Iterate(k)] = fs[Out(pid)]

\* The iterate at dqe is the same: report the loop and clean up.
Found ==
  /\ pc = "scan"
  /\ dqe <= Len(tree[OutHash])
  /\ Equals(tree[OutHash][dqe])
  /\ LET k == tree[OutHash][dqe]
     IN  printed' = [length |-> n - k, first |-> k]
  /\ fs' = IF leave_output THEN fs ELSE Removed(q)
  /\ Done(EXIT_SUCCESS)
  /\ UNCHANGED <<command, child, options, v, q, tree, n, pid, dqe>>

\* Faulty: iterate n does not join them.
PushNothing ==
  /\ pc = "scan"
  /\ dqe > Len(tree[OutHash])
  /\ pc' = "run"
  /\ UNCHANGED <<command, fs, child, options, v, q, tree, n, pid, dqe, r, printed>>

\* All iterates with the same hash differ: iterate n joins them.
PushHash ==
  /\ pc = "scan"
  /\ dqe > Len(tree[OutHash])
  /\ tree' = [tree EXCEPT ![OutHash] = Append(@, n)]
  /\ pc' = "run"
  /\ UNCHANGED <<command, fs, child, options, v, q, n, pid, dqe, r, printed>>

\* A file cannot be mapped, opened or read.
PortFails ==
  /\ pc \in {"lookup", "scan"}
  /\ Done(EXIT_FAILURE)
  /\ UNCHANGED <<command, fs, child, options, v, q, tree, n, pid, dqe, printed>>

Parent ==
  \/ UseInput \/ CopyStdin \/ BeginFails \/ RunProgram \/ ForkFails \/ Wait
  \/ InsertHash \/ FindHash \/ Differs \/ Found \/ PushHash \/ PortFails

Environment == \E p \in Pid : (ChildStep(p) \/ ChildSignal(p)) /\ UNCHANGED local

Terminated == pc = "done" /\ UNCHANGED vars

Next == Parent \/ Environment \/ Terminated

Spec == Init /\ [][Next]_vars

(***************************************************************************)
(* diag keeps executing, and the command terminates whenever it is run.    *)
(***************************************************************************)
Fairness ==
  /\ WF_vars(Parent)
  /\ WF_vars(\E p \in Pid : ChildStep(p) /\ UNCHANGED local)

FairSpec == Spec /\ Fairness

-----------------------------------------------------------------------------
\* o is the sequence of the first m iterates of the command on the input.
IsOrbit(o, m) == o[0] = start /\ \A k \in 0..(m - 1) : o[k + 1] = command[o[k]]

\* The orbit enters at its iterate first a loop of the given length.
IsLoop(o, length, first) ==
  /\ length > 0
  /\ IsOrbit(o, first + length)
  /\ o[first + length] = o[first]
  /\ \A j, k \in 0..(first + length - 1) : o[j] = o[k] => j = k

(***************************************************************************)
(* What is printed on success is the loop of the command's orbit: the      *)
(* smallest length, and the first iterate that comes back.  Two iterates   *)
(* with one hash are not confused, and no repetition is overlooked         *)
(* (diag-cycle.c:176-225).                                                 *)
(***************************************************************************)
LoopFound ==
  pc = "done" /\ r = EXIT_SUCCESS =>
    \E o \in [0..(printed.first + printed.length) -> Data] :
      IsLoop(o, printed.length, printed.first)

(***************************************************************************)
(* Until the loop is reported every iterate stays in the file the vector   *)
(* has for it, each the command's output on the one before, and those      *)
(* whose turn is over are pairwise different (diag-cycle.c:153-185,223).   *)
(***************************************************************************)
Compared == IF pc \in {"lookup", "scan"} THEN Len(v) - 1 ELSE Len(v)

IteratesKept ==
  pc \in {"run", "wait", "lookup", "scan"} =>
    /\ fs[v[1]] = start
    /\ \A k \in 1..(Len(v) - 1) : fs[v[k + 1]] = command[fs[v[k]]]
    /\ \A j, k \in 1..Compared : fs[v[j]] = fs[v[k]] => j = k

(***************************************************************************)
(* The index lists each iterate whose turn is over under its own hash, and *)
(* nothing else, in increasing order (diag-cycle.c:38-61,223).             *)
(***************************************************************************)
IndexComplete ==
  pc \in {"run", "wait", "lookup", "scan"} =>
    \A h \in HashValue :
      /\ {tree[h][i] : i \in DOMAIN tree[h]} =
           {k \in 0..(Compared - 1) : Hash[fs[v[k + 1]]] = h}
      /\ \A i, j \in DOMAIN tree[h] : i < j => tree[h][i] < tree[h][j]

(***************************************************************************)
(* Without -O a successful exit leaves no file behind, and with -O all     *)
(* outputs are left with the iterates in them, and the copy of stdin, too  *)
(* (diag-cycle.c:171-219).                                                 *)
(***************************************************************************)
FilesInTheEnd ==
  pc = "done" /\ r = EXIT_SUCCESS =>
    IF leave_output
      THEN /\ \A k \in 1..(Len(v) - 1) : fs[v[k + 1]] = command[fs[v[k]]]
           /\ \A k \in 2..Len(v) : v[k] \in {"out"} \X Pid
           /\ fromStdin => Exists(Tmp)
      ELSE \A f \in Created : ~Exists(f)

(***************************************************************************)
(* With finitely many outputs the search ends (diag-cycle.c:152-225).      *)
(***************************************************************************)
Terminates == <>(pc = "done")
=============================================================================
