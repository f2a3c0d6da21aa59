--------------------------- MODULE IteratorsProofs ---------------------------
(***************************************************************************)
(* diag-fix and diag-times keep their files in order whatever signals and  *)
(* process ids do; and if no command is stopped and process ids are fresh, *)
(* they implement the abstract iteration and print what they promise, for  *)
(* all contents, commands, process ids and numbers of runs.                *)
(***************************************************************************)
EXTENDS Iterators, ProgramProofs

(***************************************************************************)
(* The steps of the two tools, those that both make only once.             *)
(***************************************************************************)
options == <<command, tool, num, source, start, fromStdin>>

Begins ==
  /\ pc = "begin" /\ pc' = "run"
  /\ IF fromStdin
       THEN tfin' = TRUE /\ file' = Tmp /\ fs' = [fs EXCEPT ![Tmp] = start]
       ELSE UNCHANGED <<tfin, file, fs>>
  /\ UNCHANGED <<options, child, n, pid, r, printed>>

Forks ==
  /\ pc = "run" /\ pc' = "wait"
  /\ \E p \in Pid : Fork(p, file) /\ pid' = p
  /\ UNCHANGED <<options, fs, n, tfin, file, r, printed>>

Copy == IF tfin THEN {Tmp} ELSE {}

\* The input of a run, unless it is the user's.
SpentInput == IF n > 0 THEN {file} ELSE Copy

Fails ==
  /\ pc' = "done" /\ r' # EXIT_SUCCESS
  /\ \/ pc = "begin" /\ UNCHANGED <<fs, child>>
     \/ pc \in {"run", "compare", "print"} /\ fs' = Removed(Copy) /\ UNCHANGED child
     \/ /\ pc = "wait" /\ Waitable(pid) /\ Reap(pid)
        /\ fs' = Removed(Copy)
  /\ UNCHANGED <<options, n, tfin, file, pid, printed>>

RunSucceeds ==
  /\ pc = "wait" /\ Waitable(pid) /\ WaitStatus(pid) = 0 /\ Reap(pid)
  /\ UNCHANGED <<options, pid, r, printed>>

\* diag-fix turns to the comparison of input and output.
Compares ==
  /\ tool = "fix"
  /\ RunSucceeds
  /\ fs' = Removed({Err(pid)})
  /\ pc' = "compare"
  /\ UNCHANGED <<n, tfin, file>>

\* diag-fix goes on with the output.
Advances ==
  /\ tool = "fix"
  /\ pc = "compare" /\ pc' = "run"
  /\ Exists(file) /\ Exists(Out(pid)) /\ fs[file] # fs[Out(pid)]
  /\ fs' = Removed(SpentInput)
  /\ tfin' = (tfin /\ n > 0)
  /\ file' = Out(pid)
  /\ n' = n + 1
  /\ UNCHANGED <<options, child, pid, r, printed>>

Reproduces ==
  /\ tool = "fix"
  /\ pc = "compare" /\ pc' = "print"
  /\ Exists(file) /\ fs[file] = fs[Out(pid)]
  /\ UNCHANGED <<options, fs, child, n, tfin, file, pid, r, printed>>

\* diag-times goes on with the output, or to print it.
HandsOver ==
  /\ tool = "times"
  /\ RunSucceeds
  /\ fs' = Removed({Err(pid)} \cup SpentInput)
  /\ tfin' = (tfin /\ n > 0)
  /\ n' = n + 1
  /\ IF n + 1 < num THEN pc' = "run" /\ file' = Out(pid)
                    ELSE pc' = "print" /\ file' = file

\* What is printed: by diag-fix the input, by diag-times the output.
LastValueIn == IF tool = "fix" THEN file ELSE Out(pid)

Prints ==
  /\ pc = "print" /\ pc' = "done"
  /\ Exists(LastValueIn)
  /\ printed' = fs[LastValueIn]
  /\ r' = EXIT_SUCCESS
  /\ fs' = Removed(Copy \cup {Out(pid)} \cup
                   (IF tool = "fix" /\ n > 0 THEN {file} ELSE {}))
  /\ UNCHANGED <<options, child, n, tfin, file, pid>>

ParentStep ==
  \/ Begins \/ Forks \/ Fails \/ Compares \/ Advances \/ Reproduces \/ HandsOver
  \/ Prints

LEMMA FixOperators ==
  /\ F!Tmp = Tmp
  /\ \A q : F!Exists(q) = Exists(q)
  /\ \A S : F!Removed(S) = Removed(S)
  /\ \A p : /\ F!Out(p) = Out(p) /\ F!Err(p) = Err(p)
            /\ F!Waitable(p) = Waitable(p)
            /\ F!WaitStatus(p) = WaitStatus(p)
            /\ F!Reap(p) = Reap(p)
  /\ \A p, f : F!Fork(p, f) = Fork(p, f)
  /\ \A d : F!Transferred(d) = Transferred(d)
  /\ \A given : F!ProgramInit(given) = ProgramInit(given)
  BY DEF F!Transferred, F!ProgramInit, F!Created, Transferred, ProgramInit, Created, F!Tmp, F!Exists, F!Removed, F!Out, F!Err, F!Waitable, F!WaitStatus, F!Ended,
         F!Reap, F!Fork, F!NoChild, F!Path, Tmp, Exists, Removed, Out, Err, Waitable,
         WaitStatus, Ended, Reap, Fork, NoChild, Path

LEMMA TimesOperators ==
  /\ T!Tmp = Tmp
  /\ \A q : T!Exists(q) = Exists(q)
  /\ \A S : T!Removed(S) = Removed(S)
  /\ \A p : /\ T!Out(p) = Out(p) /\ T!Err(p) = Err(p)
            /\ T!Waitable(p) = Waitable(p)
            /\ T!WaitStatus(p) = WaitStatus(p)
            /\ T!Reap(p) = Reap(p)
  /\ \A p, f : T!Fork(p, f) = Fork(p, f)
  /\ \A d : T!Transferred(d) = Transferred(d)
  /\ \A given : T!ProgramInit(given) = ProgramInit(given)
  BY DEF T!Transferred, T!ProgramInit, T!Created, Transferred, ProgramInit, Created, T!Tmp, T!Exists, T!Removed, T!Out, T!Err, T!Waitable, T!WaitStatus, T!Ended,
         T!Reap, T!Fork, T!NoChild, T!Path, Tmp, Exists, Removed, Out, Err, Waitable,
         WaitStatus, Ended, Reap, Fork, NoChild, Path

\* Every step of diag-fix and of diag-times is one of these.
LEMMA FixSteps == tool = "fix" /\ UNCHANGED <<tool, num>> /\ F!Parent => ParentStep
<1> SUFFICES ASSUME tool = "fix", UNCHANGED <<tool, num>>, F!Parent PROVE ParentStep
  OBVIOUS
<1> USE FixOperators DEF options, ParentStep
<1>1. CASE F!UseInput \/ F!CopyStdin
  BY <1>1 DEF F!UseInput, F!CopyStdin, Begins
<1>2. CASE F!RunProgram
  BY <1>2 DEF F!RunProgram, Forks
<1>3. CASE F!CopyStdinFails \/ F!ForkFails \/ F!PortFails
  BY <1>3 DEF F!CopyStdinFails, F!ForkFails, F!PortFails, F!Done, Fails, Copy,
              F!EXIT_FAILURE, EXIT_SUCCESS
<1>4. CASE F!Wait
  BY <1>4 DEF F!Wait, F!Done, Fails, Compares, RunSucceeds, Copy, EXIT_SUCCESS
<1>5. CASE F!Advance \/ F!Reproduced
  BY <1>5 DEF F!Advance, F!Reproduced, F!Spent, Advances, Reproduces, SpentInput, Copy
<1>6. CASE F!PrintFile
  BY <1>6 DEF F!PrintFile, F!Done, Prints, LastValueIn, Copy, F!EXIT_SUCCESS, EXIT_SUCCESS
<1> QED
  BY <1>1, <1>2, <1>3, <1>4, <1>5, <1>6 DEF F!Parent

LEMMA TimesSteps == tool = "times" /\ UNCHANGED tool /\ T!Parent => ParentStep
<1> SUFFICES ASSUME tool = "times", UNCHANGED tool, T!Parent PROVE ParentStep
  OBVIOUS
<1> USE TimesOperators DEF options, ParentStep, T!options
<1>1. CASE T!UseInput \/ T!CopyStdin
  BY <1>1 DEF T!UseInput, T!CopyStdin, Begins
<1>2. CASE T!RunProgram
  BY <1>2 DEF T!RunProgram, Forks
<1>3. CASE T!CopyStdinFails \/ T!ForkFails \/ T!PortFails
  BY <1>3 DEF T!CopyStdinFails, T!ForkFails, T!PortFails, T!Done, Fails, Copy,
              T!EXIT_FAILURE, EXIT_SUCCESS
<1>4. CASE T!Wait
  BY <1>4 DEF T!Wait, T!Done, T!Spent, T!More, Fails, HandsOver, RunSucceeds, Copy,
              SpentInput, EXIT_SUCCESS
<1>5. CASE T!PrintFile
  BY <1>5 DEF T!PrintFile, T!Done, Prints, LastValueIn, Copy, T!EXIT_SUCCESS, EXIT_SUCCESS
<1> QED
  BY <1>1, <1>2, <1>3, <1>4, <1>5 DEF T!Parent

\* What the initial states of the two tools have in common.
LEMMA InitialState ==
  ASSUME Init
  PROVE  /\ ProgramTypeOK
         /\ tool \in {"fix", "times"} /\ num \in Nat
         /\ IF tool = "fix" THEN num = 0 ELSE num > 0
         /\ source \in Data /\ start \in Data /\ fromStdin \in BOOLEAN
         /\ pc = "begin" /\ tfin = FALSE /\ file = In(0) /\ n = 0
         /\ printed = Absent
         /\ \A p \in Pid : child[p].st = "none"
         /\ \A q \in Created : ~Exists(q)
         /\ fs[In(0)] \in {Absent, start}
<1>1. ASSUME NEW there \in BOOLEAN, source \in Data, fromStdin \in BOOLEAN,
             start \in IF fromStdin THEN Transferred(source) ELSE {source},
             ProgramInit([k \in Inputs |->
                            IF fromStdin \/ ~there THEN Absent ELSE source])
      PROVE  /\ ProgramTypeOK /\ start \in Data
             /\ \A p \in Pid : child[p].st = "none"
             /\ \A q \in Created : ~Exists(q)
             /\ fs[In(0)] \in {Absent, start}
  <2> DEFINE given == [k \in Inputs |->
                         IF fromStdin \/ ~there THEN Absent ELSE source]
  <2>1. \A k \in Inputs : given[k] \in Data \cup {Absent}
    BY <1>1
  <2>2. start \in Data
    BY <1>1, TransferredType
  <2>3. given[0] \in {Absent, start}
    BY <1>1, IteratorsAssumption
  <2>4. ProgramInit(given)
    BY <1>1
  <2> HIDE DEF given
  <2> QED
    BY <2>1, <2>2, <2>3, <2>4, ProgramInitType, IteratorsAssumption
<1>2. CASE tool = "fix" /\ num = 0 /\ F!Init
  BY <1>1, <1>2, FixOperators DEF F!Init, F!In, In
<1>3. CASE tool = "times" /\ T!Init
  <2>1. num \in Nat /\ num > 0
    BY <1>3, IteratorsAssumption DEF T!Init
  <2> QED
    BY <1>1, <1>3, <2>1, TimesOperators DEF T!Init, T!In, In
<1> QED
  BY <1>2, <1>3 DEF Init

-----------------------------------------------------------------------------
(***************************************************************************)
(* The inductive invariant about files, for which nothing is assumed of    *)
(* signals and process ids.  Without stops there is no child but the one   *)
(* awaited.  The copy of stdin is to be removed only as long as it is the  *)
(* file to read, and once an output has been handed over it is that; every *)
(* file that has been made and not removed is one that the tool still has  *)
(* a name for, or belongs to a child that was left alone when it stopped.  *)
(***************************************************************************)
TypeOK ==
  /\ ProgramTypeOK
  /\ tool \in {"fix", "times"}
  /\ num \in Nat /\ n \in Nat /\ (tool = "fix" => num = 0)
  /\ source \in Data /\ start \in Data
  /\ fromStdin \in BOOLEAN /\ tfin \in BOOLEAN
  /\ pc \in {"begin", "run", "wait", "compare", "print", "done"}
  /\ file \in Path
  /\ pc \in {"wait", "compare", "print"} => pid \in Pid
  /\ printed \in Data \cup {Absent}

OnlyAwaited ==
  ~Stops => \A p \in Pid :
    /\ child[p].st # "none" => pc = "wait" /\ p = pid
    /\ ~child[p].stopped /\ child[p].event = "none"

FileToRead ==
  /\ pc = "begin" => ~tfin /\ n = 0
  /\ pc = "compare" => tool = "fix"
  /\ tfin => n = 0 /\ file = Tmp
  /\ ~tfin /\ n = 0 => file = In(0)
  /\ n > 0 /\ (tool = "fix" \/ pc \in {"run", "wait"}) => file \in {"out"} \X Pid

NoneForgotten ==
  \A q \in Created : Exists(q) =>
    \/ Unreaped(q)
    \/ /\ pc \in {"begin", "run"} => q = file
       /\ pc = "wait" => q \in {file, Out(pid), Err(pid)}
       /\ pc = "compare" => q \in {file, Out(pid)}
       /\ pc = "print" => q = Out(pid) \/ (tool = "fix" /\ q = file)
       /\ pc = "done" => q # Tmp /\ r # EXIT_SUCCESS

FilesInv == TypeOK /\ OnlyAwaited /\ FileToRead /\ NoneForgotten

LEMMA FilesInit == Init => FilesInv
<1> SUFFICES ASSUME Init PROVE FilesInv
  OBVIOUS
<1>1. In(0) \in Path
  BY Names, IteratorsAssumption
<1>2. \A p \in Pid : ~child[p].stopped /\ child[p].event = "none"
  BY DEF Init, F!Init, T!Init, F!ProgramInit, T!ProgramInit, F!NoChild, T!NoChild
<1> QED
  BY <1>1, <1>2, InitialState DEF FilesInv, TypeOK, OnlyAwaited, FileToRead, NoneForgotten

LEMMA BeginsFiles == FilesInv /\ Begins => FilesInv'
<1> SUFFICES ASSUME FilesInv, Begins PROVE FilesInv'
  OBVIOUS
<1> USE DEF FilesInv, TypeOK, ProgramTypeOK, options
<1>1. Tmp \in Path /\ Tmp \in Created /\ In(0) \in Path
  BY Names, IteratorsAssumption
<1>2. TypeOK'
  BY <1>1 DEF Begins
<1>3. OnlyAwaited'
  BY DEF Begins, OnlyAwaited
<1>4. FileToRead'
  BY DEF Begins, FileToRead
<1>5. \A q \in Path : fs'[q] # fs[q] => q = Tmp /\ file' = Tmp
  BY DEF Begins
<1>6. \A q \in Created : Exists(q) => Unreaped(q)
  BY Names, IteratorsAssumption DEF Begins, NoneForgotten, FileToRead
<1>7. NoneForgotten'
  <2>1. \A q : Unreaped(q)' = Unreaped(q)
    BY DEF Begins, Unreaped
  <2> QED
    BY <1>5, <1>6, <2>1, Names DEF Begins, NoneForgotten, Exists
<1> QED
  BY <1>2, <1>3, <1>4, <1>7

LEMMA ForksFiles == FilesInv /\ Forks => FilesInv'
<1> SUFFICES ASSUME FilesInv, Forks PROVE FilesInv'
  OBVIOUS
<1> USE DEF FilesInv, options
<1>1. PICK p \in Pid : Fork(p, file) /\ pid' = p
  BY DEF Forks
<1>2. /\ ProgramTypeOK'
      /\ child'[p].st = "forked" /\ child'[p].event = "none"
      /\ \A p1 \in Pid \ {p} : child'[p1] = child[p1]
  BY <1>1, ForkChanges DEF Forks, TypeOK
<1>3. TypeOK'
  BY <1>1, <1>2 DEF Forks, TypeOK
<1>4. OnlyAwaited'
  <2>1. child'[p].stopped = FALSE
    BY <1>1 DEF Fork, NoChild, TypeOK, ProgramTypeOK
  <2> QED
    BY <1>1, <1>2, <2>1 DEF Forks, OnlyAwaited
<1>5. FileToRead'
  BY DEF Forks, FileToRead
<1>6. NoneForgotten'
  <2>1. \A q : Unreaped(q) => Unreaped(q)'
    BY <1>2 DEF Unreaped
  <2> QED
    BY <2>1 DEF Forks, NoneForgotten, Exists
<1> QED
  BY <1>3, <1>4, <1>5, <1>6

\* Waiting for the child takes nothing else from the process table.
LEMMA AwaitedReaped ==
  ASSUME FilesInv, pc = "wait", Waitable(pid), Reap(pid)
  PROVE  /\ child' \in [Pid -> ChildRecord]
         /\ ~Stops => \A p \in Pid :
              child'[p].st = "none" /\ ~child'[p].stopped /\ child'[p].event = "none"
         /\ \A q : Unreaped(q) => Unreaped(q)' \/ q \in {Out(pid), Err(pid)}
<1>1. pid \in Pid /\ ProgramTypeOK
  BY DEF FilesInv, TypeOK
<1>2. /\ child' \in [Pid -> ChildRecord]
      /\ child'[pid].st = IF Ended(pid) THEN "none" ELSE child[pid].st
      /\ \A p \in Pid \ {pid} : child'[p] = child[p]
  BY <1>1, ReapChanges
<1>3. ASSUME ~Stops
      PROVE  \A p \in Pid : child'[p].st = "none" /\ ~child'[p].stopped /\ child'[p].event = "none"
  <2>1. Ended(pid) /\ child'[pid] = NoChild
    BY <1>1, <1>3 DEF FilesInv, OnlyAwaited, Waitable, Reap, ProgramTypeOK
  <2> QED
    BY <1>2, <1>3, <2>1 DEF FilesInv, OnlyAwaited, NoChild
<1>4. \A q : Unreaped(q) => Unreaped(q)' \/ q \in {Out(pid), Err(pid)}
  BY <1>1, ReapKeepsOthers
<1> QED
  BY <1>2, <1>3, <1>4

LEMMA FailsFiles == FilesInv /\ Fails => FilesInv'
<1> SUFFICES ASSUME FilesInv, Fails PROVE FilesInv'
  OBVIOUS
<1> USE DEF FilesInv, options
<1>1. /\ child' \in [Pid -> ChildRecord]
      /\ ~Stops => \A p \in Pid :
           child'[p].st = "none" /\ ~child'[p].stopped /\ child'[p].event = "none"
  BY AwaitedReaped DEF Fails, TypeOK, ProgramTypeOK, OnlyAwaited
<1>2. /\ fs' \in [Path -> Data \cup {Absent}]
      /\ \A q \in Path : fs'[q] = IF q \in Copy THEN Absent ELSE fs[q]
  BY RemovedChanges DEF Fails, Copy, TypeOK, ProgramTypeOK, FileToRead
<1>3. TypeOK'
  BY <1>1, <1>2 DEF Fails, TypeOK, ProgramTypeOK
<1>4. OnlyAwaited'
  BY <1>1 DEF OnlyAwaited
<1>5. FileToRead'
  BY DEF Fails, FileToRead
<1>6. ~tfin => file # Tmp \/ (tool = "times" /\ pc = "print")
  BY Names, IteratorsAssumption DEF Fails, FileToRead, TypeOK
<1>7. ~Exists(Tmp)'
  BY <1>2, <1>6, Names, TmpIsNoOutput DEF Fails, NoneForgotten, Exists, Copy, TypeOK
<1>8. NoneForgotten'
  BY <1>7 DEF Fails, NoneForgotten
<1> QED
  BY <1>3, <1>4, <1>5, <1>8

LEMMA ComparesFiles == FilesInv /\ Compares => FilesInv'
<1> SUFFICES ASSUME FilesInv, Compares PROVE FilesInv'
  OBVIOUS
<1> USE DEF FilesInv, options, RunSucceeds
<1>1. /\ child' \in [Pid -> ChildRecord]
      /\ ~Stops => \A p \in Pid :
           child'[p].st = "none" /\ ~child'[p].stopped /\ child'[p].event = "none"
      /\ \A q : Unreaped(q) => Unreaped(q)' \/ q \in {Out(pid), Err(pid)}
  BY AwaitedReaped DEF Compares
<1>2. /\ fs' \in [Path -> Data \cup {Absent}]
      /\ \A q \in Path : fs'[q] = IF q \in {Err(pid)} THEN Absent ELSE fs[q]
  BY RemovedChanges DEF Compares, TypeOK
<1>3. TypeOK'
  BY <1>1, <1>2 DEF Compares, TypeOK, ProgramTypeOK
<1>4. OnlyAwaited'
  BY <1>1 DEF OnlyAwaited
<1>5. FileToRead'
  BY DEF Compares, FileToRead
<1>6. NoneForgotten'
  BY <1>1, <1>2, Names DEF Compares, NoneForgotten, Exists
<1> QED
  BY <1>3, <1>4, <1>5, <1>6

\* What is removed when the output takes the place of the input.
LEMMA SpentRemoved ==
  ASSUME FilesInv, pc \in {"wait", "compare"}, tool = "fix" \/ pc = "wait"
  PROVE  /\ In(0) \notin SpentInput
         /\ file \in Created => file \in SpentInput
         /\ SpentInput \subseteq {file}
<1> QED
  BY Names, IteratorsAssumption DEF FilesInv, FileToRead, SpentInput, Copy, TypeOK

LEMMA AdvancesFiles == FilesInv /\ Advances => FilesInv'
<1> SUFFICES ASSUME FilesInv, Advances PROVE FilesInv'
  OBVIOUS
<1> USE DEF FilesInv, options
<1>1. /\ fs' \in [Path -> Data \cup {Absent}]
      /\ \A q \in Path : fs'[q] = IF q \in SpentInput THEN Absent ELSE fs[q]
  BY RemovedChanges DEF Advances, TypeOK
<1>2. pid \in Pid /\ n' \in Nat /\ n' > 0 /\ ~tfin'
  <2>1. pid \in Pid /\ n' \in Nat /\ n' > 0
    BY DEF Advances, TypeOK
  <2>2. ~(tfin /\ n > 0)
    BY DEF FileToRead
  <2> QED
    BY <2>1, <2>2 DEF Advances
<1>3. Out(pid) \in Path /\ Out(pid) \in {"out"} \X Pid
  BY <1>2, Names
<1>4. TypeOK'
  BY <1>1, <1>2, <1>3 DEF Advances, TypeOK, ProgramTypeOK
<1>5. OnlyAwaited'
  BY DEF Advances, OnlyAwaited
<1>6. FileToRead'
  BY <1>2, <1>3 DEF Advances, FileToRead
<1>7. NoneForgotten'
  <2>1. \A q : Unreaped(q)' = Unreaped(q)
    BY DEF Advances, Unreaped
  <2> QED
    BY <1>1, <2>1, SpentRemoved, Names DEF Advances, NoneForgotten, Exists
<1> QED
  BY <1>4, <1>5, <1>6, <1>7

LEMMA ReproducesFiles == FilesInv /\ Reproduces => FilesInv'
<1> SUFFICES ASSUME FilesInv, Reproduces PROVE FilesInv'
  OBVIOUS
<1> USE DEF FilesInv, options, Reproduces
<1>1. TypeOK'
  BY DEF TypeOK, ProgramTypeOK
<1>2. OnlyAwaited'
  BY DEF OnlyAwaited
<1>3. FileToRead' /\ NoneForgotten'
  BY DEF FileToRead, NoneForgotten, Exists, Unreaped
<1> QED
  BY <1>1, <1>2, <1>3

LEMMA HandsOverFiles == FilesInv /\ HandsOver => FilesInv'
<1> SUFFICES ASSUME FilesInv, HandsOver PROVE FilesInv'
  OBVIOUS
<1> USE DEF FilesInv, options, RunSucceeds
<1>1. /\ child' \in [Pid -> ChildRecord]
      /\ ~Stops => \A p \in Pid :
           child'[p].st = "none" /\ ~child'[p].stopped /\ child'[p].event = "none"
      /\ \A q : Unreaped(q) => Unreaped(q)' \/ q \in {Out(pid), Err(pid)}
  BY AwaitedReaped DEF HandsOver
<1>2. /\ fs' \in [Path -> Data \cup {Absent}]
      /\ \A q \in Path :
           fs'[q] = IF q \in {Err(pid)} \cup SpentInput THEN Absent ELSE fs[q]
  BY RemovedChanges DEF HandsOver, TypeOK
<1>3. pid \in Pid /\ n' \in Nat /\ n' > 0 /\ ~tfin'
  <2>1. pid \in Pid /\ n' \in Nat /\ n' > 0
    BY DEF HandsOver, TypeOK
  <2>2. ~(tfin /\ n > 0)
    BY DEF FileToRead
  <2> QED
    BY <2>1, <2>2 DEF HandsOver
<1>4. Out(pid) \in Path /\ Out(pid) \in {"out"} \X Pid
  BY <1>3, Names
<1>5. TypeOK'
  BY <1>1, <1>2, <1>3, <1>4 DEF HandsOver, TypeOK, ProgramTypeOK
<1>6. OnlyAwaited'
  BY <1>1 DEF OnlyAwaited
<1>7. FileToRead'
  BY <1>3, <1>4 DEF HandsOver, FileToRead
<1>8. NoneForgotten'
  <2>1. \A q \in Created : Exists(q)' => q = Out(pid) \/ Unreaped(q)'
    <3>1. file \in Created => file \in SpentInput
      BY SpentRemoved DEF HandsOver
    <3>2. \A q \in Created : Exists(q) => Unreaped(q) \/ q \in {file, Out(pid), Err(pid)}
      BY DEF HandsOver, NoneForgotten
    <3>3. Created \subseteq Path
      BY Names
    <3> QED
      BY <1>1, <1>2, <3>1, <3>2, <3>3 DEF Exists
  <2>2. \/ pc' = "run" /\ file' = Out(pid)
        \/ pc' = "print" /\ pid' = pid
    BY DEF HandsOver
  <2> QED
    BY <2>1, <2>2 DEF NoneForgotten
<1> QED
  BY <1>5, <1>6, <1>7, <1>8

LEMMA PrintsFiles == FilesInv /\ Prints => FilesInv'
<1> SUFFICES ASSUME FilesInv, Prints PROVE FilesInv'
  OBVIOUS
<1> USE DEF FilesInv, options
<1> DEFINE gone == Copy \cup {Out(pid)} \cup
                   (IF tool = "fix" /\ n > 0 THEN {file} ELSE {})
<1>1. /\ fs' \in [Path -> Data \cup {Absent}]
      /\ \A q \in Path : fs'[q] = IF q \in gone THEN Absent ELSE fs[q]
  <2>1. fs' = Removed(gone)
    BY DEF Prints
  <2> HIDE DEF gone
  <2> QED
    BY <2>1, RemovedChanges DEF TypeOK
<1>2. pid \in Pid /\ LastValueIn \in Path
  BY Names DEF Prints, TypeOK, LastValueIn
<1>3. TypeOK'
  BY <1>1, <1>2 DEF Prints, TypeOK, ProgramTypeOK
<1>4. OnlyAwaited'
  BY DEF Prints, OnlyAwaited
<1>5. FileToRead'
  BY DEF Prints, FileToRead
<1>6. tool = "fix" /\ file \in Created => file \in gone
  BY Names, IteratorsAssumption DEF FileToRead, Copy, TypeOK
<1>7. \A q \in Created : Exists(q)' => Unreaped(q)'
  <2>1. \A q \in Created : Exists(q) => Unreaped(q) \/ q = Out(pid) \/ (tool = "fix" /\ q = file)
    BY DEF Prints, NoneForgotten
  <2>2. Out(pid) \in gone /\ Created \subseteq Path
    BY Names
  <2>3. \A q : Unreaped(q)' = Unreaped(q)
    BY DEF Prints, Unreaped
  <2> HIDE DEF gone
  <2> QED
    BY <1>1, <1>6, <2>1, <2>2, <2>3 DEF Exists
<1>8. NoneForgotten'
  BY <1>7 DEF NoneForgotten
<1> QED
  BY <1>3, <1>4, <1>5, <1>8

LEMMA EnvironmentFiles == FilesInv /\ Environment => FilesInv'
<1> SUFFICES ASSUME FilesInv, Environment PROVE FilesInv'
  OBVIOUS
<1> USE DEF FilesInv, local
<1>1. PICK p \in Pid : ChildStep(p) \/ ChildSignal(p)
  BY DEF Environment
<1>2. UNCHANGED local
  BY DEF Environment
<1>3. /\ ProgramTypeOK'
      /\ child[p].st # "none" /\ child'[p].st # "none"
      /\ \A p1 \in Pid \ {p} : child'[p1] = child[p1]
      /\ \A q \in Path \ {Out(p), Err(p)} : fs'[q] = fs[q]
  BY <1>1, ChildChanges DEF TypeOK
<1>4. TypeOK'
  BY <1>2, <1>3 DEF TypeOK
<1>5. OnlyAwaited'
  <2>1. ~Stops => ~child'[p].stopped /\ child'[p].event = "none"
    BY <1>1, ChildWithoutStops DEF OnlyAwaited, TypeOK
  <2> QED
    BY <1>2, <1>3, <2>1 DEF OnlyAwaited
<1>6. FileToRead'
  BY <1>2 DEF FileToRead
<1>7. \A q \in Created : (Exists(q)' => Exists(q) \/ Unreaped(q)') /\ (Unreaped(q) => Unreaped(q)')
  BY <1>3, Names DEF Unreaped, Exists
<1>8. NoneForgotten'
  BY <1>2, <1>7 DEF NoneForgotten
<1> QED
  BY <1>4, <1>5, <1>6, <1>8

LEMMA ParentSteps == Parent => ParentStep
  BY FixSteps, TimesSteps DEF Parent

LEMMA FilesStep == FilesInv /\ [Next]_vars => FilesInv'
<1> SUFFICES ASSUME FilesInv, [Next]_vars PROVE FilesInv'
  OBVIOUS
<1>1. CASE Parent
  BY <1>1, ParentSteps, BeginsFiles, ForksFiles, FailsFiles, ComparesFiles,
     AdvancesFiles, ReproducesFiles, HandsOverFiles, PrintsFiles DEF ParentStep
<1>2. CASE Environment
  BY <1>2, EnvironmentFiles
<1>3. CASE UNCHANGED vars
  BY <1>3 DEF FilesInv, TypeOK, ProgramTypeOK, OnlyAwaited, FileToRead,
              NoneForgotten, Exists, Unreaped, vars, local
<1> QED
  BY <1>1, <1>2, <1>3 DEF Next, Terminated, BoundReached

(***************************************************************************)
(* However diag-fix or diag-times exits, the copy of stdin is gone, and    *)
(* after a success every file that is left of those that it or its runs    *)
(* have made belongs to a child that it has not waited for to the end:     *)
(* whatever signals and recycled process ids do, at any moment after the   *)
(* fork (diag-fix.c:97-157, diag-times.c:110-147, system.c:318-332).       *)
(***************************************************************************)
THEOREM FilesGoneInTheEnd == Spec => []FilesInTheEnd
<1>1. FilesInv => FilesInTheEnd
  BY Names, TmpIsNoOutput DEF FilesInv, NoneForgotten, FilesInTheEnd, Exited, Exists
<1> QED
  BY <1>1, FilesInit, FilesStep, PTL DEF Spec

(***************************************************************************)
(* If commands are not stopped, a success of diag-fix or diag-times leaves *)
(* none of the files that it or its runs have made                         *)
(* (diag-fix.c:97-157, diag-times.c:110-147).                              *)
(***************************************************************************)
THEOREM SuccessLeavesNothing ==
  ASSUME ~Stops
  PROVE  Spec => [](FilesInTheEnd /\ (Exited(EXIT_SUCCESS) => \A q \in Created : ~Exists(q)))
<1>1. FilesInv => FilesInTheEnd /\ (Exited(EXIT_SUCCESS) => \A q \in Created : ~Exists(q))
  BY Names, TmpIsNoOutput
     DEF FilesInv, OnlyAwaited, NoneForgotten, FilesInTheEnd, Exited, Exists, Unreaped
<1> QED
  BY <1>1, FilesInit, FilesStep, PTL DEF Spec

(***************************************************************************)
(* Neither diag-fix nor diag-times nor any of their runs writes to the     *)
(* user's input or removes it: no step of a run reaches it, and when an    *)
(* input is removed an output has taken its place                          *)
(* (diag-fix.c:117-157, diag-times.c:112-147).                             *)
(***************************************************************************)
THEOREM UserInputIsKept == Spec => UserInputKept
<1>1. FilesInv /\ [Next]_vars => [fs'[In(0)] = fs[In(0)]]_fs
  <2> SUFFICES ASSUME FilesInv, Next PROVE fs'[In(0)] = fs[In(0)]
    BY DEF vars
  <2>1. In(0) \in Path \ Created /\ ProgramTypeOK
    BY Names, IteratorsAssumption DEF FilesInv, TypeOK
  <2>2. CASE Environment
    BY <2>1, <2>2, ChildChanges, Names DEF Environment
  <2>3. CASE Begins \/ Forks \/ Reproduces
    BY <2>1, <2>3, Names DEF Begins, Forks, Reproduces, ProgramTypeOK
  <2>4. ASSUME NEW S, fs' = Removed(S), In(0) \notin S
        PROVE  fs'[In(0)] = fs[In(0)]
    BY <2>1, <2>4, RemovedChanges
  <2>5. In(0) \notin Copy
    BY <2>1, Names DEF Copy
  <2>6. CASE Fails
    BY <2>4, <2>5, <2>6 DEF Fails
  <2>7. CASE Compares \/ Advances \/ HandsOver
    <3>1. pid \in Pid /\ Err(pid) # In(0)
      BY <2>1, <2>7, Names DEF Compares, Advances, HandsOver, RunSucceeds, FilesInv,
                               TypeOK
    <3>2. Compares \/ In(0) \notin SpentInput
      BY <2>7, SpentRemoved DEF Advances, HandsOver, RunSucceeds
    <3> QED
      BY <2>4, <2>7, <3>1, <3>2 DEF Compares, Advances, HandsOver
  <2>8. CASE Prints
    <3>1. pid \in Pid /\ Out(pid) # In(0)
      BY <2>1, <2>8, Names DEF Prints, FilesInv, TypeOK
    <3>2. tool = "fix" /\ n > 0 => file # In(0)
      BY <2>1, Names DEF FilesInv, FileToRead
    <3> QED
      BY <2>4, <2>5, <2>8, <3>1, <3>2 DEF Prints
  <2> QED
    BY <2>2, <2>3, <2>6, <2>7, <2>8, ParentSteps
       DEF Next, ParentStep, Terminated, BoundReached, vars
<1> QED
  BY <1>1, FilesInit, FilesStep, PTL DEF Spec, UserInputKept

-----------------------------------------------------------------------------
(***************************************************************************)
(* The inductive invariant about values, for commands that are not stopped *)
(* and fresh process ids.  There is no child but the one awaited, which is *)
(* run on the file to read.  That file is there, unless it is a user's     *)
(* that never was, and it holds the value reached; after a run the output  *)
(* is what the command makes of it.                                        *)
(***************************************************************************)
OnlyChild ==
  /\ \A p \in Pid : child[p].st # "none" =>
       pc = "wait" /\ p = pid /\ child[p].in = file /\ RunOf(p)
  /\ pc = "wait" => child[pid].st # "none"

FirstValue ==
  n = 0 /\ pc # "done" => fs[file] \in {Absent, start}

FileKept ==
  pc \in {"run", "wait"} /\ file # In(0) => Exists(file)

OutputMatches ==
  pc = "compare" \/ (pc = "print" /\ tool = "fix") =>
    /\ Exists(file) /\ file # Out(pid)
    /\ fs[Out(pid)] = command[fs[file]]
    /\ pc = "print" => fs[Out(pid)] = fs[file]

RunsDone ==
  tool = "times" =>
    /\ num > 0
    /\ pc \in {"begin", "run", "wait"} => n < num
    /\ pc = "print" => n = num /\ Exists(Out(pid))
    /\ \E o \in [0..n -> Data] :
         /\ T!IsOrbit(o, n)
         /\ pc \in {"run", "wait"} /\ n > 0 => fs[file] = o[n]
         /\ pc = "print" => fs[Out(pid)] = o[n]
         /\ Exited(EXIT_SUCCESS) => n = num /\ printed = o[n]

ValuesInv ==
  /\ FilesInv /\ OnlyChild /\ FirstValue /\ FileKept /\ OutputMatches /\ RunsDone
  /\ FixedPoint

LEMMA ValuesInit == Init => ValuesInv
<1> SUFFICES ASSUME Init PROVE ValuesInv
  OBVIOUS
<1>1. /\ OnlyChild /\ FirstValue /\ FileKept /\ OutputMatches /\ FixedPoint
  BY InitialState DEF OnlyChild, FirstValue, FileKept, OutputMatches, FixedPoint,
                      F!FixedPoint
<1>2. RunsDone
  <2>1. [k \in 0..0 |-> start] \in [0..n -> Data] /\ T!IsOrbit([k \in 0..0 |-> start], n)
    BY InitialState DEF T!IsOrbit
  <2> QED
    BY <2>1, InitialState DEF RunsDone, Exited
<1> QED
  BY <1>1, <1>2, FilesInit DEF ValuesInv

\* The awaited child is the only one, its run is over, and 0 means success.
LEMMA AwaitedRun ==
  ASSUME ValuesInv, pc = "wait", Waitable(pid), Reap(pid)
  PROVE  /\ \A p \in Pid : child'[p].st = "none"
         /\ pid \in Pid /\ file \in Path \ {Out(pid), Err(pid)}
         /\ WaitStatus(pid) = 0 =>
              fs[file] \in Data /\ fs[Out(pid)] = command[fs[file]]
<1> USE DEF ValuesInv, FilesInv, TypeOK
<1>1. pid \in Pid /\ child[pid].in = file /\ RunOf(pid)
  BY DEF OnlyChild
<1>2. /\ Ended(pid)
      /\ WaitStatus(pid) = 0 => fs[file] \in Data /\ fs[Out(pid)] = command[fs[file]]
  BY <1>1, WaitedFor
<1>3. child'[pid].st = "none" /\ \A p \in Pid \ {pid} : child'[p] = child[p]
  BY <1>1, <1>2, ReapChanges
<1>4. file \in Path \ {Out(pid), Err(pid)}
  BY <1>1 DEF RunOf
<1> QED
  BY <1>1, <1>2, <1>3, <1>4 DEF OnlyChild

LEMMA BeginsValues == ValuesInv /\ Begins => ValuesInv'
<1> SUFFICES ASSUME ValuesInv, Begins PROVE ValuesInv'
  OBVIOUS
<1> USE DEF ValuesInv, Begins, options
<1>1. FilesInv'
  BY BeginsFiles
<1>2. /\ n = 0 /\ file = In(0) /\ Tmp \in Path /\ start \in Data
      /\ fs \in [Path -> Data \cup {Absent}]
  BY Names DEF FilesInv, FileToRead, TypeOK, ProgramTypeOK
<1>3. OnlyChild'
  BY DEF OnlyChild
<1>4. FirstValue' /\ FileKept'
  BY <1>2, DataAssumption DEF FirstValue, FileKept, Exists
<1>5. OutputMatches' /\ FixedPoint'
  BY DEF OutputMatches, FixedPoint, F!FixedPoint
<1>6. RunsDone'
  BY <1>2 DEF RunsDone, T!IsOrbit, Exited
<1> QED
  BY <1>1, <1>3, <1>4, <1>5, <1>6

LEMMA ForksValues == ASSUME ~PidsCollide PROVE ValuesInv /\ Forks => ValuesInv'
<1> SUFFICES ASSUME ValuesInv, Forks PROVE ValuesInv'
  OBVIOUS
<1> USE DEF ValuesInv, options
<1>1. FilesInv'
  BY ForksFiles
<1>2. PICK p \in Pid : Fork(p, file) /\ pid' = p
  BY DEF Forks
<1>3. /\ file \in Path /\ ProgramTypeOK /\ pc = "run" /\ pc' = "wait"
      /\ UNCHANGED <<command, fs, tool, num, start, n, file>>
  BY DEF Forks, FilesInv, TypeOK
<1>4. file \notin {Out(p), Err(p)}
  <2>1. ~Exists(Out(p)) /\ ~Exists(Err(p))
    BY <1>2, FreshOutputs
  <2>2. file = In(0) => file \notin {Out(p), Err(p)}
    BY Names, IteratorsAssumption
  <2> QED
    BY <1>3, <2>1, <2>2 DEF FileKept
<1>5. /\ child'[p].st = "forked" /\ child'[p].in = file /\ RunOf(p)'
      /\ \A p1 \in Pid \ {p} : child'[p1] = child[p1]
  BY <1>2, <1>3, <1>4, ForkChanges, ForkStartsRun
<1>6. OnlyChild'
  BY <1>2, <1>3, <1>5 DEF OnlyChild
<1>7. FirstValue' /\ FileKept' /\ OutputMatches' /\ FixedPoint'
  BY <1>3 DEF FirstValue, FileKept, OutputMatches, FixedPoint, F!FixedPoint, Exists
<1>8. RunsDone'
  BY <1>3 DEF RunsDone, T!IsOrbit, Exited
<1> QED
  BY <1>1, <1>6, <1>7, <1>8

LEMMA FailsValues == ValuesInv /\ Fails => ValuesInv'
<1> SUFFICES ASSUME ValuesInv, Fails PROVE ValuesInv'
  OBVIOUS
<1> USE DEF ValuesInv, options
<1>1. FilesInv'
  BY FailsFiles
<1>2. pc' = "done" /\ r' # EXIT_SUCCESS /\ UNCHANGED <<command, tool, num, start, n>>
  BY DEF Fails
<1>3. OnlyChild'
  BY <1>2, AwaitedRun DEF Fails, OnlyChild
<1>4. FirstValue' /\ FileKept' /\ OutputMatches' /\ FixedPoint'
  BY <1>2 DEF FirstValue, FileKept, OutputMatches, FixedPoint, F!FixedPoint,
              F!EXIT_SUCCESS, EXIT_SUCCESS
<1>5. RunsDone'
  BY <1>2 DEF RunsDone, T!IsOrbit, Exited
<1> QED
  BY <1>1, <1>3, <1>4, <1>5

LEMMA ComparesValues == ValuesInv /\ Compares => ValuesInv'
<1> SUFFICES ASSUME ValuesInv, Compares PROVE ValuesInv'
  OBVIOUS
<1> USE DEF ValuesInv, options, Compares, RunSucceeds
<1>1. FilesInv'
  BY ComparesFiles
<1>2. \A q \in Path : fs'[q] = IF q \in {Err(pid)} THEN Absent ELSE fs[q]
  BY RemovedChanges DEF FilesInv, TypeOK
<1>3. /\ fs'[file] = fs[file] /\ fs'[Out(pid)] = fs[Out(pid)]
      /\ fs[file] \in Data /\ fs[Out(pid)] = command[fs[file]] /\ file # Out(pid)
  BY <1>2, AwaitedRun, Names
<1>4. OnlyChild'
  BY AwaitedRun DEF OnlyChild
<1>5. FirstValue' /\ FileKept' /\ FixedPoint' /\ RunsDone'
  BY <1>3 DEF FirstValue, FileKept, FixedPoint, F!FixedPoint, RunsDone
<1>6. OutputMatches'
  BY <1>3, DataAssumption DEF OutputMatches, Exists
<1> QED
  BY <1>1, <1>4, <1>5, <1>6

LEMMA AdvancesValues == ValuesInv /\ Advances => ValuesInv'
<1> SUFFICES ASSUME ValuesInv, Advances PROVE ValuesInv'
  OBVIOUS
<1> USE DEF ValuesInv, options
<1>1. FilesInv'
  BY AdvancesFiles
<1>2. \A q \in Path : fs'[q] = IF q \in SpentInput THEN Absent ELSE fs[q]
  BY RemovedChanges DEF Advances, FilesInv, TypeOK
<1>3. fs'[Out(pid)] = fs[Out(pid)]
  BY <1>2, SpentRemoved, Names DEF Advances, FilesInv, TypeOK, OutputMatches
<1>4. OnlyChild'
  BY DEF Advances, OnlyChild
<1>5. FileKept' /\ FixedPoint' /\ RunsDone' /\ OutputMatches'
  BY <1>3 DEF Advances, FileKept, FixedPoint, F!FixedPoint, RunsDone, OutputMatches,
              Exists
<1>6. FirstValue'
  BY DEF Advances, FirstValue, FilesInv, TypeOK
<1> QED
  BY <1>1, <1>4, <1>5, <1>6

LEMMA ReproducesValues == ValuesInv /\ Reproduces => ValuesInv'
<1> SUFFICES ASSUME ValuesInv, Reproduces PROVE ValuesInv'
  OBVIOUS
<1> USE DEF ValuesInv, options, Reproduces
<1>1. FilesInv'
  BY ReproducesFiles
<1>2. OnlyChild' /\ FirstValue' /\ FileKept' /\ FixedPoint' /\ RunsDone'
  BY DEF OnlyChild, FirstValue, FileKept, FixedPoint, F!FixedPoint, RunsDone
<1>3. OutputMatches'
  BY DEF OutputMatches, Exists
<1> QED
  BY <1>1, <1>2, <1>3

LEMMA HandsOverValues == ValuesInv /\ HandsOver => ValuesInv'
<1> SUFFICES ASSUME ValuesInv, HandsOver PROVE ValuesInv'
  OBVIOUS
<1> USE DEF ValuesInv, options
<1>1. FilesInv'
  BY HandsOverFiles
<1>2. /\ tool = "times" /\ pc = "wait" /\ n' = n + 1 /\ n \in Nat /\ num \in Nat
      /\ start \in Data /\ command \in [Data -> Data]
      /\ UNCHANGED <<command, tool, num, start>>
      /\ \/ n + 1 < num /\ pc' = "run" /\ file' = Out(pid)
         \/ ~(n + 1 < num) /\ pc' = "print"
  BY DEF HandsOver, RunSucceeds, FilesInv, TypeOK, ProgramTypeOK
<1>3. /\ pid \in Pid /\ file \in Path \ {Out(pid), Err(pid)} /\ pid' = pid
      /\ fs[file] \in Data /\ fs[Out(pid)] = command[fs[file]]
  BY AwaitedRun DEF HandsOver, RunSucceeds
<1>4. fs'[Out(pid)] = command[fs[file]] /\ command[fs[file]] \in Data
  <2>1. \A q \in Path :
          fs'[q] = IF q \in {Err(pid)} \cup SpentInput THEN Absent ELSE fs[q]
    BY RemovedChanges DEF HandsOver, FilesInv, TypeOK
  <2> QED
    BY <1>2, <1>3, <2>1, SpentRemoved, Names
<1>5. OnlyChild'
  BY AwaitedRun DEF HandsOver, RunSucceeds, OnlyChild
<1>6. FirstValue' /\ FileKept' /\ FixedPoint' /\ OutputMatches'
  BY <1>2, <1>3, <1>4, DataAssumption
     DEF FirstValue, FileKept, FixedPoint, F!FixedPoint, OutputMatches, Exists
<1>7. RunsDone'
  <2>1. PICK o \in [0..n -> Data] :
          T!IsOrbit(o, n) /\ (n > 0 => fs[file] = o[n]) /\ n < num
    BY <1>2 DEF RunsDone
  <2>2. fs[file] = o[n]
    BY <1>2, <1>3, <2>1, DataAssumption DEF FirstValue, T!IsOrbit
  <2> DEFINE next == [k \in 0..(n + 1) |-> IF k = n + 1 THEN command[fs[file]] ELSE o[k]]
  <2>3. next \in [0..(n + 1) -> Data]
    BY <1>2, <1>4, <2>1
  <2>4. next[0] = start /\ next[n + 1] = command[fs[file]]
    BY <1>2, <2>1 DEF T!IsOrbit
  <2>5. ASSUME NEW k \in 0..n PROVE next[k + 1] = command[next[k]]
    BY <1>2, <2>1, <2>2 DEF T!IsOrbit
  <2> HIDE DEF next
  <2>6. PICK m \in [0..(n + 1) -> Data] :
          /\ m[0] = start /\ m[n + 1] = command[fs[file]]
          /\ \A k \in 0..n : m[k + 1] = command[m[k]]
    BY <2>3, <2>4, <2>5
  <2>7. m \in [0..n' -> Data] /\ T!IsOrbit(m, n)'
    BY <1>2, <2>6 DEF T!IsOrbit
  <2>8. /\ num' > 0 /\ (pc' = "run" => n' < num') /\ (pc' = "print" => n' = num')
        /\ pc' \in {"run", "print"}
    BY <1>2, <2>1
  <2>9. /\ Exists(Out(pid))' /\ (pc' = "run" => fs'[file'] = m[n'])
        /\ fs'[Out(pid')] = m[n'] /\ Out(pid') = Out(pid)
    BY <1>2, <1>3, <1>4, <2>6, DataAssumption DEF Exists
  <2> QED
    BY <2>7, <2>8, <2>9 DEF RunsDone, Exited
<1> QED
  BY <1>1, <1>5, <1>6, <1>7

LEMMA PrintsValues == ValuesInv /\ Prints => ValuesInv'
<1> SUFFICES ASSUME ValuesInv, Prints PROVE ValuesInv'
  OBVIOUS
<1> USE DEF ValuesInv, options, Prints
<1>1. FilesInv'
  BY PrintsFiles
<1>2. OnlyChild' /\ FirstValue' /\ FileKept' /\ OutputMatches'
  BY DEF OnlyChild, FirstValue, FileKept, OutputMatches
<1>3. FixedPoint'
  BY DEF FixedPoint, F!FixedPoint, OutputMatches, LastValueIn, Exists
<1>4. RunsDone'
  BY DEF RunsDone, T!IsOrbit, LastValueIn, FilesInv, TypeOK
<1> QED
  BY <1>1, <1>2, <1>3, <1>4

LEMMA EnvironmentValues ==
  ASSUME ~Stops PROVE ValuesInv /\ Environment => ValuesInv'
<1> SUFFICES ASSUME ValuesInv, Environment PROVE ValuesInv'
  OBVIOUS
<1> USE DEF ValuesInv
<1>1. FilesInv'
  BY EnvironmentFiles
<1>2. PICK p \in Pid : ChildStep(p) \/ ChildSignal(p)
  BY DEF Environment
<1>3. /\ UNCHANGED <<command, tool, num, n, start, pc, file, pid, r, printed>>
      /\ ProgramTypeOK
  BY <1>2, ChildChanges DEF Environment, local, FilesInv, TypeOK
<1>4. pc = "wait" /\ p = pid /\ child[p].in = file /\ RunOf(p)
  BY <1>2, <1>3, ChildChanges DEF OnlyChild
<1>5. /\ child'[p].st # "none"
      /\ \A p1 \in Pid \ {p} : child'[p1] = child[p1]
      /\ child'[p].in = file /\ RunOf(p)'
  BY <1>2, <1>3, <1>4, ChildChanges, ChildKeepsRun
<1>6. fs'[file] = fs[file]
  BY <1>2, <1>3, <1>4, ChildChanges DEF RunOf
<1>7. OnlyChild'
  BY <1>3, <1>4, <1>5 DEF OnlyChild
<1>8. FirstValue' /\ FileKept' /\ OutputMatches' /\ FixedPoint'
  BY <1>3, <1>4, <1>6 DEF FirstValue, FileKept, OutputMatches, FixedPoint,
                          F!FixedPoint, Exists
<1>9. RunsDone'
  BY <1>3, <1>4, <1>6 DEF RunsDone, T!IsOrbit, Exited
<1> QED
  BY <1>1, <1>7, <1>8, <1>9

LEMMA ValuesStep ==
  ASSUME ~Stops, ~PidsCollide PROVE ValuesInv /\ [Next]_vars => ValuesInv'
<1> SUFFICES ASSUME ValuesInv, [Next]_vars PROVE ValuesInv'
  OBVIOUS
<1>1. CASE Parent
  BY <1>1, ParentSteps, BeginsValues, ForksValues, FailsValues, ComparesValues,
     AdvancesValues, ReproducesValues, HandsOverValues, PrintsValues DEF ParentStep
<1>2. CASE Environment
  BY <1>2, EnvironmentValues
<1>3. CASE UNCHANGED vars
  <2>1. FilesInv'
    BY FilesStep DEF ValuesInv
  <2> QED
    BY <1>3, <2>1
       DEF ValuesInv, OnlyChild, RunOf, FirstValue, FileKept, OutputMatches, RunsDone,
           T!IsOrbit, Exited, FixedPoint, F!FixedPoint, Exists, vars, local
<1> QED
  BY <1>1, <1>2, <1>3 DEF Next, Terminated, BoundReached

(***************************************************************************)
(* What diag-fix prints on success is a fixed point of the command, for    *)
(* every command, if commands are not stopped and process ids are fresh    *)
(* (diag-fix.c:117-151).                                                   *)
(***************************************************************************)
THEOREM FixPrintsFixedPoint ==
  ASSUME ~Stops, ~PidsCollide PROVE Spec => []FixedPoint
<1>1. ValuesInv => FixedPoint
  BY DEF ValuesInv
<1> QED
  BY <1>1, ValuesInit, ValuesStep, PTL DEF Spec

(***************************************************************************)
(* What diag-times prints on success is the num-th iterate of the command, *)
(* for every num, if commands are not stopped and process ids are fresh    *)
(* (diag-times.c:92-141).                                                  *)
(***************************************************************************)
THEOREM TimesPrintsIterate ==
  ASSUME ~Stops, ~PidsCollide PROVE Spec => []PrintsIterate
<1>1. ValuesInv => PrintsIterate
  BY DEF ValuesInv, RunsDone, PrintsIterate, T!PrintsIterate, T!EXIT_SUCCESS, Exited,
         EXIT_SUCCESS
<1> QED
  BY <1>1, ValuesInit, ValuesStep, PTL DEF Spec

(***************************************************************************)
(* As long as a run is under way the file it was given by the run before   *)
(* is there, if commands are not stopped and process ids are fresh         *)
(* (diag-fix.c:117-129, diag-times.c:112-125).                             *)
(***************************************************************************)
THEOREM InputStaysInPlace ==
  ASSUME ~Stops, ~PidsCollide PROVE Spec => []InputInPlace
<1>1. ValuesInv => InputInPlace
  BY DEF ValuesInv, FileKept, InputInPlace
<1> QED
  BY <1>1, ValuesInit, ValuesStep, PTL DEF Spec

-----------------------------------------------------------------------------
(***************************************************************************)
(* The refinement.  The value reached is that of the file current; one     *)
(* step of the iteration is diag-fix's turn to the next input, and the end *)
(* of a successful run of diag-times.                                      *)
(***************************************************************************)
Current == IF tool = "fix" \/ n < num THEN file ELSE Out(pid)

Value == IF n = 0 THEN start ELSE IF Exists(Current) THEN fs[Current] ELSE printed

Outcome ==
  IF pc # "done" THEN "running"
  ELSE IF Exited(EXIT_SUCCESS) THEN "success" ELSE "failure"

\* The value in terms of the invariant.
LEMMA ValueReached ==
  ASSUME ValuesInv
  PROVE  /\ Exists(file) /\ pc # "done" /\ (tool = "fix" \/ n < num) => Value = fs[file]
         /\ tool = "times" /\ pc = "print" => Value = fs[Out(pid)]
<1>1. Exists(file) /\ pc # "done" /\ (tool = "fix" \/ n < num) => Value = fs[file]
  BY DEF ValuesInv, FirstValue, Value, Current, Exists
<1>2. tool = "times" /\ pc = "print" => n = num /\ num > 0 /\ Exists(Out(pid))
  BY DEF ValuesInv, RunsDone
<1>3. tool = "times" /\ n = num /\ num > 0 => n # 0 /\ Current = Out(pid)
  BY DEF ValuesInv, FilesInv, TypeOK, Current
<1> QED
  BY <1>1, <1>2, <1>3 DEF Value

LEMMA ValueKept ==
  ASSUME UNCHANGED <<n, start, printed>>,
         n # 0 => Current' = Current /\ fs'[Current'] = fs[Current]
  PROVE  Value' = Value
  BY DEF Value, Exists

\* A step that the iteration does not see.
Unseen == UNCHANGED <<command, start, num, n, Value, Outcome>>

LEMMA UnseenSteps ==
  ASSUME ValuesInv, Begins \/ Forks \/ Compares \/ Reproduces
  PROVE  Unseen
<1> USE DEF ValuesInv, options
<1>1. /\ UNCHANGED <<command, start, num, n, printed>>
      /\ pc # "done" /\ pc' # "done"
  BY DEF Begins, Forks, Compares, RunSucceeds, Reproduces
<1>2. Value' = Value
  <2>1. CASE Begins
    BY <1>1, <2>1, ValueKept DEF Begins, FilesInv, FileToRead
  <2>2. CASE Forks
    <3>1. Current = file /\ Current' = file
      BY <2>2 DEF Forks, RunsDone, Current, FilesInv, TypeOK
    <3> QED
      BY <1>1, <2>2, <3>1, ValueKept DEF Forks
  <2>3. CASE Compares
    <3>1. Current = file /\ Current' = file
      BY <2>3 DEF Compares, RunSucceeds, Current
    <3>2. \A q \in Path : fs'[q] = IF q \in {Err(pid)} THEN Absent ELSE fs[q]
      BY <2>3, RemovedChanges DEF Compares, FilesInv, TypeOK
    <3>3. fs'[file] = fs[file]
      BY <2>3, <3>2, AwaitedRun DEF Compares, RunSucceeds
    <3> QED
      BY <1>1, <3>1, <3>3, ValueKept
  <2>4. CASE Reproduces
    BY <1>1, <2>4, ValueKept DEF Reproduces, Current
  <2> QED
    BY <2>1, <2>2, <2>3, <2>4
<1> QED
  BY <1>1, <1>2 DEF Unseen, Outcome

LEMMA UnseenEnvironment ==
  ASSUME ValuesInv, Environment
  PROVE  Unseen
<1> USE DEF ValuesInv
<1>1. PICK p \in Pid : ChildStep(p) \/ ChildSignal(p)
  BY DEF Environment
<1>2. /\ UNCHANGED <<command, tool, num, n, start, pc, file, pid, r, printed>>
      /\ ProgramTypeOK
  BY <1>1, ChildChanges DEF Environment, local, FilesInv, TypeOK
<1>3. pc = "wait" /\ p = pid /\ child[p].in = file /\ RunOf(p)
  BY <1>1, <1>2, ChildChanges DEF OnlyChild
<1>4. fs'[file] = fs[file]
  BY <1>1, <1>2, <1>3, ChildChanges DEF RunOf
<1>5. Current = file /\ Current' = file
  BY <1>2, <1>3 DEF RunsDone, Current, FilesInv, TypeOK
<1>6. Value' = Value
  BY <1>2, <1>4, <1>5, ValueKept
<1> QED
  BY <1>2, <1>6 DEF Unseen, Outcome, Exited

\* The iteration's steps, on the mapped variables.
Applied ==
  /\ Outcome = "running" /\ Outcome' = "running"
  /\ IF num = 0 THEN command[Value] # Value ELSE n # num
  /\ Value' = command[Value] /\ n' = n + 1
  /\ UNCHANGED <<command, start, num>>

Succeeded ==
  /\ Outcome = "running" /\ Outcome' = "success"
  /\ IF num = 0 THEN command[Value] = Value ELSE n = num
  /\ UNCHANGED <<command, start, num, Value, n>>

GaveUp ==
  /\ Outcome = "running" /\ Outcome' = "failure"
  /\ UNCHANGED <<command, start, num, Value, n>>

LEMMA AdvancesApplies == ValuesInv /\ Advances => Applied
<1> SUFFICES ASSUME ValuesInv, Advances PROVE Applied
  OBVIOUS
<1> USE DEF ValuesInv, options
<1>1. /\ tool = "fix" /\ tool' = tool /\ num = 0 /\ pc = "compare" /\ pc' = "run"
      /\ n \in Nat /\ n' = n + 1 /\ file' = Out(pid) /\ pid \in Pid
      /\ UNCHANGED <<command, start, num>>
      /\ Exists(file) /\ Exists(Out(pid)) /\ fs[file] # fs[Out(pid)]
  BY DEF Advances, FilesInv, TypeOK
<1>2. Value = fs[file] /\ fs[Out(pid)] = command[fs[file]] /\ file # Out(pid)
  BY <1>1, ValueReached DEF OutputMatches
<1>3. \A q \in Path : fs'[q] = IF q \in SpentInput THEN Absent ELSE fs[q]
  BY RemovedChanges DEF Advances, FilesInv, TypeOK
<1>4. fs'[Out(pid)] = fs[Out(pid)]
  BY <1>1, <1>2, <1>3, SpentRemoved, Names
<1>5. n' # 0 /\ Current' = Out(pid) /\ Exists(Current)'
  BY <1>1, <1>4 DEF Current, Exists
<1>6. Value' = fs'[Out(pid)]
  BY <1>5 DEF Value
<1> QED
  BY <1>1, <1>2, <1>4, <1>6 DEF Applied, Outcome

LEMMA HandsOverApplies == ValuesInv /\ HandsOver => Applied
<1> SUFFICES ASSUME ValuesInv, HandsOver PROVE Applied
  OBVIOUS
<1> USE DEF ValuesInv, options
<1>1. /\ tool = "times" /\ tool' = tool /\ pc = "wait" /\ pc' \in {"run", "print"}
      /\ n \in Nat /\ num \in Nat /\ n' = n + 1 /\ n < num
      /\ pid \in Pid /\ pid' = pid
      /\ UNCHANGED <<command, start, num>>
      /\ n + 1 < num => file' = Out(pid)
  BY DEF HandsOver, RunSucceeds, FilesInv, TypeOK, RunsDone
<1>2. /\ fs[file] \in Data /\ fs[Out(pid)] = command[fs[file]]
      /\ file \in Path \ {Out(pid), Err(pid)}
  BY AwaitedRun DEF HandsOver, RunSucceeds
<1>3. Value = fs[file]
  BY <1>1, <1>2, ValueReached, DataAssumption DEF Exists
<1>4. \A q \in Path :
        fs'[q] = IF q \in {Err(pid)} \cup SpentInput THEN Absent ELSE fs[q]
  BY RemovedChanges DEF HandsOver, FilesInv, TypeOK
<1>5. fs'[Out(pid)] = fs[Out(pid)]
  BY <1>1, <1>2, <1>4, SpentRemoved, Names
<1>6. command[fs[file]] # Absent
  BY <1>2, DataAssumption DEF FilesInv, TypeOK, ProgramTypeOK
<1>7. n' # 0 /\ Current' = Out(pid) /\ Exists(Current)'
  BY <1>1, <1>2, <1>5, <1>6 DEF Current, Exists
<1>8. Value' = fs'[Out(pid)]
  BY <1>7 DEF Value
<1>9. num # 0 /\ n # num
  BY <1>1
<1> QED
  BY <1>1, <1>2, <1>3, <1>5, <1>8, <1>9 DEF Applied, Outcome

LEMMA PrintsSucceeds == ValuesInv /\ Prints => Succeeded
<1> SUFFICES ASSUME ValuesInv, Prints PROVE Succeeded
  OBVIOUS
<1> USE DEF ValuesInv, options
<1>1. /\ pc = "print" /\ pc' = "done" /\ r' = EXIT_SUCCESS
      /\ UNCHANGED <<command, tool, num, start, n, pid, file>>
      /\ n \in Nat /\ num \in Nat /\ pid \in Pid
      /\ Exists(LastValueIn) /\ printed' = fs[LastValueIn]
      /\ tool \in {"fix", "times"}
  BY DEF Prints, FilesInv, TypeOK
<1>2. Value = fs[LastValueIn]
  BY <1>1, ValueReached DEF LastValueIn
<1>3. Current = LastValueIn /\ Current' = LastValueIn
  BY <1>1 DEF Current, LastValueIn, RunsDone
<1>4. n # 0 => fs'[LastValueIn] = Absent
  <2>1. /\ FilesInv' /\ Exited(EXIT_SUCCESS)'
    BY <1>1, PrintsFiles DEF Exited
  <2>2. \A q \in Created : ~Exists(q)'
    BY <1>1, <2>1 DEF Prints, OnlyChild, NoneForgotten, FilesInv, Unreaped
  <2>3. n # 0 => LastValueIn \in Created
    BY <1>1, Names DEF LastValueIn, FilesInv, FileToRead
  <2> QED
    BY <2>2, <2>3 DEF Exists
<1>5. Value' = Value
  BY <1>1, <1>2, <1>3, <1>4 DEF Value, Exists
<1>6. IF num = 0 THEN command[Value] = Value ELSE n = num
  BY <1>1, <1>2 DEF LastValueIn, OutputMatches, RunsDone, FilesInv, TypeOK
<1> QED
  BY <1>1, <1>5, <1>6 DEF Succeeded, Outcome, Exited

LEMMA FailsGivesUp == ValuesInv /\ Fails => GaveUp
<1> SUFFICES ASSUME ValuesInv, Fails PROVE GaveUp
  OBVIOUS
<1> USE DEF ValuesInv, options
<1>1. /\ pc \in {"begin", "run", "wait", "compare", "print"} /\ pc' = "done"
      /\ r' # EXIT_SUCCESS
      /\ UNCHANGED <<command, tool, num, start, n, file, pid, printed>>
  BY DEF Fails
<1>2. n # 0 => pc # "begin" /\ fs' = Removed(Copy) /\ Copy = {}
  BY DEF Fails, FilesInv, FileToRead, Copy
<1>3. n # 0 => \A q \in Path : fs'[q] = fs[q]
  BY <1>2, RemovedChanges DEF FilesInv, TypeOK
<1>4. n # 0 => Current \in Path
  BY <1>1, Names DEF Current, FilesInv, TypeOK, FileToRead, RunsDone
<1>5. Value' = Value
  BY <1>1, <1>3, <1>4, ValueKept DEF Current
<1> QED
  BY <1>1, <1>5 DEF GaveUp, Outcome, Exited

\* What the iteration's variables x and outcome stand for, now and in the next state.
LEMMA Mapping ==
  LET x       == IF tool = "fix" THEN F!Value ELSE T!Value
      outcome == CASE pc # "done" -> "running"
                   [] Exited(EXIT_SUCCESS) -> "success"
                   [] OTHER -> "failure"
  IN  x = Value /\ x' = Value' /\ outcome = Outcome /\ outcome' = Outcome'
<1>1. (IF tool = "fix" THEN F!Value ELSE T!Value) = Value
  BY DEF F!Value, F!Exists, T!Value, T!Exists, T!Reached, T!Out, Exists, Out, Value,
         Current
<1>2. (IF tool = "fix" THEN F!Value ELSE T!Value)' = Value'
  BY DEF F!Value, F!Exists, T!Value, T!Exists, T!Reached, T!Out, Exists, Out, Value,
         Current
<1>3. (CASE pc # "done" -> "running"
         [] Exited(EXIT_SUCCESS) -> "success"
         [] OTHER -> "failure") = Outcome
  BY Zenon DEF Outcome, Exited
<1>4. (CASE pc # "done" -> "running"
         [] Exited(EXIT_SUCCESS) -> "success"
         [] OTHER -> "failure")' = Outcome'
  BY Zenon DEF Outcome, Exited
<1> QED
  BY <1>1, <1>2, <1>3, <1>4

LEMMA StepsMapped ==
  ASSUME ~Stops, ~PidsCollide
  PROVE  ValuesInv /\ [Next]_vars => Applied \/ Succeeded \/ GaveUp \/ Unseen
<1> SUFFICES ASSUME ValuesInv, [Next]_vars
             PROVE  Applied \/ Succeeded \/ GaveUp \/ Unseen
  OBVIOUS
<1>1. CASE Parent
  BY <1>1, ParentSteps, UnseenSteps, AdvancesApplies, HandsOverApplies,
     PrintsSucceeds, FailsGivesUp DEF ParentStep
<1>2. CASE Environment
  BY <1>2, UnseenEnvironment
<1>3. CASE UNCHANGED vars
  BY <1>3 DEF Unseen, Value, Current, Outcome, Exited, Exists, vars, local
<1> QED
  BY <1>1, <1>2, <1>3 DEF Next, Terminated, BoundReached

(***************************************************************************)
(* diag-fix and diag-times implement the abstract iteration: no run is     *)
(* lost, repeated or fed with anything but the output of the one before,   *)
(* and a success comes exactly when the goal is reached; if commands are   *)
(* not stopped and process ids are fresh                                   *)
(* (diag-fix.c:97-157, diag-times.c:92-147).                               *)
(***************************************************************************)
THEOREM IteratorsImplementIteration ==
  ASSUME ~Stops, ~PidsCollide PROVE Spec => Implements
<1>1. Init => Abstract!Init
  <2> SUFFICES ASSUME Init PROVE Abstract!Init
    OBVIOUS
  <2>1. command \in [Data -> Data] /\ start \in Data /\ num \in Nat /\ n = 0
    BY InitialState DEF ProgramTypeOK
  <2>2. Value = start /\ Outcome = "running"
    BY InitialState DEF Value, Outcome
  <2> QED
    BY <2>1, <2>2, Mapping DEF Abstract!Init
<1>2. ValuesInv /\ [Next]_vars => [Abstract!Next]_(Abstract!vars)
  <2> SUFFICES ASSUME ValuesInv, [Next]_vars
               PROVE  [Abstract!Next]_(Abstract!vars)
    OBVIOUS
  <2>1. CASE Applied
    BY <2>1, Mapping DEF Applied, Abstract!Next, Abstract!Apply, Abstract!Reached
  <2>2. CASE Succeeded
    BY <2>2, Mapping DEF Succeeded, Abstract!Next, Abstract!Succeed, Abstract!Reached
  <2>3. CASE GaveUp
    BY <2>3, Mapping DEF GaveUp, Abstract!Next, Abstract!GiveUp
  <2>4. CASE Unseen
    BY <2>4, Mapping DEF Unseen, Abstract!vars
  <2> QED
    BY <2>1, <2>2, <2>3, <2>4, StepsMapped
<1> QED
  BY <1>1, <1>2, ValuesInit, ValuesStep, PTL DEF Spec, Implements, Abstract!Spec
=============================================================================
