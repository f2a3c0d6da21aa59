------------------------------ MODULE RootProofs ------------------------------
(***************************************************************************)
(* What diag-root prints is a root, for all numbers, numerals, commands,   *)
(* guesses and process ids, if no command is stopped and numerals are      *)
(* written in full.  Process ids may come back.                            *)
(***************************************************************************)
EXTENDS Root, ProgramProofs

-----------------------------------------------------------------------------
(***************************************************************************)
(* The inductive invariant.  There is no child but the one awaited, and it *)
(* is run on the input; before the end nothing is printed.                 *)
(***************************************************************************)
TypeOK ==
  /\ ProgramTypeOK
  /\ pc \in {"guess", "evaluate", "wait", "secant", "done"}
  /\ i \in 0..NumGuesses
  /\ pc = "guess" => Guessing
  /\ pc = "secant" => ~Guessing
  /\ x \in Num
  /\ pc = "wait" => pid \in Pid

OnlyChild ==
  /\ \A p \in Pid : child[p].st # "none" =>
       pc = "wait" /\ p = pid /\ child[p].in = Input /\ RunOf(p)
  /\ pc = "wait" => child[pid].st # "none"

PrintsLast == printed # Absent => pc = "done"

IInv == TypeOK /\ OnlyChild /\ PrintsLast /\ InputMatches /\ PrintsRoot

\* The input is a guess of the user's, or the temporary file.
LEMMA InputName ==
  ASSUME TypeOK
  PROVE  /\ Input \in Path
         /\ Guessing => Input = In(i) /\ In(i) \in Path \ Created
         /\ ~Guessing => Input = Tmp
         /\ \A p \in Pid : Input \notin {Out(p), Err(p)}
<1>1. Guessing => i \in Inputs
  BY RootAssumption DEF TypeOK, Guessing
<1> QED
  BY <1>1, Names DEF Input

LEMMA NumeralType == \A y \in Num : Fmt[y] \in Data /\ Fmt[y] # Empty /\ Fmt[y] # Absent
  BY RootAssumption, DataAssumption

LEMMA InitHolds == Init => IInv
<1> SUFFICES ASSUME Init PROVE IInv
  OBVIOUS
<1>1. /\ ProgramTypeOK
      /\ \A p \in Pid : child[p].st = "none"
  BY ProgramInitType DEF Init
<1>2. i \in 0..NumGuesses /\ Guessing
  BY RootAssumption DEF Init, Guessing
<1>3. TypeOK
  BY <1>1, <1>2, RootAssumption DEF Init, TypeOK
<1> QED
  BY <1>1, <1>3 DEF Init, IInv, OnlyChild, PrintsLast, InputMatches, PrintsRoot

-----------------------------------------------------------------------------
\* The awaited child is the only one, its run is over, and 0 means success.
LEMMA AwaitedRun ==
  ASSUME IInv, pc = "wait", Waitable(pid), Reap(pid)
  PROVE  /\ child' \in [Pid -> ChildRecord]
         /\ \A p \in Pid : child'[p].st = "none"
         /\ pid \in Pid
         /\ WaitStatus(pid) = 0 =>
              fs[Input] \in Data /\ fs[Out(pid)] = command[fs[Input]]
<1> USE DEF IInv, TypeOK
<1>1. pid \in Pid /\ child[pid].in = Input /\ RunOf(pid)
  BY DEF OnlyChild
<1>2. /\ Ended(pid)
      /\ WaitStatus(pid) = 0 => fs[Input] \in Data /\ fs[Out(pid)] = command[fs[Input]]
  BY <1>1, WaitedFor
<1>3. /\ child' \in [Pid -> ChildRecord]
      /\ child'[pid].st = "none" /\ \A p \in Pid \ {pid} : child'[p] = child[p]
  BY <1>1, <1>2, ReapChanges
<1> QED
  BY <1>1, <1>2, <1>3 DEF OnlyChild

(***************************************************************************)
(* The ends of a run of the tool at which nothing is printed.              *)
(***************************************************************************)
LEMMA QuitsStep ==
  ASSUME IInv, pc # "done", pc' = "done",
         child' \in [Pid -> ChildRecord], \A p \in Pid : child'[p].st = "none",
         fs' \in [Path -> Data \cup {Absent}],
         UNCHANGED <<command, i, pid, x, printed>>
  PROVE  IInv'
<1>1. printed' = Absent
  BY DEF IInv, PrintsLast
<1>2. TypeOK'
  BY DEF IInv, TypeOK, ProgramTypeOK, Guessing
<1> QED
  BY <1>1, <1>2 DEF IInv, OnlyChild, PrintsLast, InputMatches, PrintsRoot

LEMMA FailsStep ==
  IInv /\ (GuessFails \/ WriteFails \/ DivByZero \/ ForkFails) => IInv'
<1> SUFFICES ASSUME IInv, GuessFails \/ WriteFails \/ DivByZero \/ ForkFails
             PROVE  IInv'
  OBVIOUS
<1>1. /\ pc \in {"guess", "secant", "evaluate"} /\ pc' = "done"
      /\ UNCHANGED <<command, child, i, pid, x, printed>>
      /\ ProgramTypeOK
  BY DEF GuessFails, WriteFails, DivByZero, ForkFails, Done, IInv, TypeOK
<1>2. fs' \in [Path -> Data \cup {Absent}]
  BY <1>1, Names, DataAssumption, RemovedChanges
     DEF GuessFails, WriteFails, DivByZero, ForkFails, Done, ProgramTypeOK
<1>3. \A p \in Pid : child[p].st = "none"
  BY <1>1 DEF IInv, OnlyChild
<1> QED
  BY <1>1, <1>2, <1>3, QuitsStep DEF ProgramTypeOK

LEMMA EvaluationEndsStep ==
  IInv /\ (EvaluationFails \/ OutputUnreadable \/ TooManyIterations) => IInv'
<1> SUFFICES ASSUME IInv, EvaluationFails \/ OutputUnreadable \/ TooManyIterations
             PROVE  IInv'
  OBVIOUS
<1>1. /\ pc = "wait" /\ pc' = "done" /\ Waitable(pid) /\ Reap(pid)
      /\ UNCHANGED <<command, i, pid, x, printed>>
      /\ ProgramTypeOK
  BY DEF EvaluationFails, OutputUnreadable, TooManyIterations, Evaluated, Done, IInv,
         TypeOK
<1>2. fs' \in [Path -> Data \cup {Absent}]
  BY <1>1, RemovedChanges
     DEF EvaluationFails, OutputUnreadable, TooManyIterations, Done
<1> QED
  BY <1>1, <1>2, AwaitedRun, QuitsStep

-----------------------------------------------------------------------------
LEMMA ReadGuessStep == IInv /\ ReadGuess => IInv'
<1> SUFFICES ASSUME IInv, ReadGuess PROVE IInv'
  OBVIOUS
<1> USE DEF IInv, ReadGuess
<1>1. In(i) \in Path /\ Input = In(i) /\ Guessing
  BY InputName DEF TypeOK
<1>2. fs[In(i)] \in Data /\ Atof[fs[In(i)]] \in Num
  BY <1>1, RootAssumption DEF Readable, Exists, TypeOK, ProgramTypeOK
<1>3. TypeOK'
  BY <1>2 DEF TypeOK, ProgramTypeOK, Guessing
<1>4. OnlyChild' /\ PrintsLast' /\ PrintsRoot'
  BY DEF OnlyChild, PrintsLast, PrintsRoot
<1>5. InputMatches'
  BY <1>1 DEF InputMatches, Readable, Exists, Input, Guessing
<1> QED
  BY <1>3, <1>4, <1>5

LEMMA ApproximateStep == ASSUME ~ShortTransfers PROVE IInv /\ Approximate => IInv'
<1> SUFFICES ASSUME IInv, Approximate PROVE IInv'
  OBVIOUS
<1> USE DEF IInv
<1>1. /\ pc = "secant" /\ pc' = "evaluate" /\ ~Guessing /\ printed = Absent
      /\ UNCHANGED <<command, child, i, pid, printed>>
      /\ ProgramTypeOK
  BY DEF Approximate, TypeOK, PrintsLast
<1>2. PICK y \in Num : x' = y /\ fs' = [fs EXCEPT ![Tmp] = Fmt[y]]
  BY DEF Approximate, Transferred
<1>3. /\ fs' \in [Path -> Data \cup {Absent}] /\ fs'[Tmp] = Fmt[y]
      /\ Fmt[y] # Absent /\ Fmt[y] # Empty
  BY <1>1, <1>2, Names, NumeralType DEF ProgramTypeOK
<1>4. TypeOK'
  BY <1>1, <1>2, <1>3 DEF TypeOK, ProgramTypeOK, Guessing
<1>5. OnlyChild' /\ PrintsLast' /\ PrintsRoot'
  BY <1>1 DEF OnlyChild, PrintsLast, PrintsRoot
<1>6. InputMatches'
  BY <1>1, <1>2, <1>3 DEF InputMatches, Readable, Exists, Input, Guessing
<1> QED
  BY <1>4, <1>5, <1>6

LEMMA RunProgramStep == IInv /\ RunProgram => IInv'
<1> SUFFICES ASSUME IInv, RunProgram PROVE IInv'
  OBVIOUS
<1> USE DEF IInv
<1>1. PICK p \in Pid : Fork(p, Input) /\ pid' = p
  BY DEF RunProgram
<1>2. /\ pc = "evaluate" /\ pc' = "wait" /\ printed = Absent /\ ProgramTypeOK
      /\ UNCHANGED <<command, fs, i, x, printed>>
  BY DEF RunProgram, TypeOK, PrintsLast
<1>3. Input \in Path \ {Out(p), Err(p)}
  BY <1>1, InputName
<1>4. /\ ProgramTypeOK'
      /\ child'[p].st = "forked" /\ child'[p].in = Input /\ RunOf(p)'
      /\ \A p1 \in Pid \ {p} : child'[p1] = child[p1]
  BY <1>1, <1>2, <1>3, ForkChanges, ForkStartsRun
<1>5. Input' = Input
  BY <1>2 DEF Input, Guessing
<1>6. TypeOK'
  BY <1>1, <1>2, <1>4 DEF TypeOK, Guessing
<1>7. OnlyChild'
  BY <1>1, <1>2, <1>4, <1>5 DEF OnlyChild
<1>8. PrintsLast' /\ PrintsRoot' /\ InputMatches'
  BY <1>2, <1>5 DEF PrintsLast, PrintsRoot, InputMatches, Readable, Exists, Guessing
<1> QED
  BY <1>6, <1>7, <1>8

\* The value is not zero: to the next guess, or to the next approximation.
LEMMA NextNumberStep == IInv /\ (NextGuess \/ NextIteration) => IInv'
<1> SUFFICES ASSUME IInv, NextGuess \/ NextIteration PROVE IInv'
  OBVIOUS
<1> USE DEF IInv
<1>1. /\ pc = "wait" /\ Waitable(pid) /\ Reap(pid) /\ printed = Absent
      /\ UNCHANGED <<command, pid, x, printed>>
      /\ ProgramTypeOK
  BY DEF NextGuess, NextIteration, Evaluated, TypeOK, PrintsLast
<1>2. /\ child' \in [Pid -> ChildRecord]
      /\ \A p \in Pid : child'[p].st = "none"
  BY <1>1, AwaitedRun
<1>3. fs' \in [Path -> Data \cup {Absent}]
  BY <1>1, RemovedChanges DEF NextGuess, NextIteration
<1>4. /\ i' \in 0..NumGuesses
      /\ pc' \in {"guess", "secant"}
      /\ pc' = "guess" => Guessing'
      /\ pc' = "secant" => ~Guessing'
  BY RootAssumption DEF NextGuess, NextIteration, TypeOK, Guessing
<1>5. TypeOK'
  BY <1>1, <1>2, <1>3, <1>4 DEF TypeOK, ProgramTypeOK
<1> QED
  BY <1>1, <1>2, <1>4, <1>5 DEF OnlyChild, PrintsLast, InputMatches, PrintsRoot

\* The value is zero: the command's output on the input, which is still there.
LEMMA RootFoundStep == IInv /\ RootFound => IInv'
<1> SUFFICES ASSUME IInv, RootFound PROVE IInv'
  OBVIOUS
<1> USE DEF IInv
<1>1. /\ pc = "wait" /\ pc' = "done" /\ Waitable(pid) /\ Reap(pid)
      /\ WaitStatus(pid) = 0 /\ Atof[fs[Out(pid)]] = Zero
      /\ printed' = Fmt[x]
      /\ UNCHANGED <<command, i, pid, x>>
      /\ ProgramTypeOK
      /\ fs' = Removed(Outputs \cup (IF Guessing THEN {} ELSE {Tmp}))
  BY DEF RootFound, Evaluated, Done, RootNumber, TypeOK
<1>2. /\ child' \in [Pid -> ChildRecord]
      /\ \A p \in Pid : child'[p].st = "none"
      /\ pid \in Pid
      /\ Atof[command[fs[Input]]] = Zero
  BY <1>1, AwaitedRun
<1>3. /\ fs' \in [Path -> Data \cup {Absent}]
      /\ \A f \in Path : fs'[f] = IF f \in Outputs \cup (IF Guessing THEN {} ELSE {Tmp})
                                    THEN Absent ELSE fs[f]
  BY <1>1, RemovedChanges
<1>4. TypeOK'
  BY <1>1, <1>2, <1>3 DEF TypeOK, ProgramTypeOK, Guessing
<1>5. OnlyChild' /\ PrintsLast' /\ InputMatches'
  BY <1>1, <1>2 DEF OnlyChild, PrintsLast, InputMatches
<1>6. IF Guessing THEN Atof[fs[Input]] = x ELSE fs[Input] = Fmt[x]
  BY <1>1 DEF InputMatches
<1>7. Guessing' = Guessing
  BY <1>1 DEF Guessing
<1>8. PrintsRoot'
  <2>1. CASE Guessing
    <3>1. Input = In(i) /\ In(i) \in Path /\ In(i) \notin Outputs
      BY <1>2, <2>1, InputName DEF Outputs
    <3>2. fs'[In(i)] = fs[In(i)]
      BY <1>3, <2>1, <3>1
    <3> QED
      BY <1>1, <1>2, <1>6, <1>7, <2>1, <3>1, <3>2 DEF PrintsRoot
  <2>2. CASE ~Guessing
    BY <1>1, <1>2, <1>6, <1>7, <2>2 DEF PrintsRoot
  <2> QED
    BY <2>1, <2>2
<1> QED
  BY <1>4, <1>5, <1>8

LEMMA EnvironmentStep == ASSUME ~Stops PROVE IInv /\ Environment => IInv'
<1> SUFFICES ASSUME IInv, Environment PROVE IInv'
  OBVIOUS
<1> USE DEF IInv
<1>1. PICK p \in Pid : ChildStep(p) \/ ChildSignal(p)
  BY DEF Environment
<1>2. /\ UNCHANGED <<command, pc, i, pid, x, printed>>
      /\ ProgramTypeOK /\ ProgramTypeOK'
      /\ child[p].st # "none" /\ child'[p].st # "none"
      /\ \A p1 \in Pid \ {p} : child'[p1] = child[p1]
      /\ \A f \in Path \ {Out(p), Err(p)} : fs'[f] = fs[f]
  BY <1>1, ChildChanges DEF Environment, local, TypeOK
<1>3. pc = "wait" /\ p = pid /\ child[p].in = Input /\ RunOf(p)
  BY <1>2 DEF OnlyChild
<1>4. child'[p].in = Input /\ RunOf(p)'
  BY <1>1, <1>2, <1>3, ChildKeepsRun
<1>5. Input' = Input /\ Guessing' = Guessing
  BY <1>2 DEF Input, Guessing
<1>6. fs'[Input] = fs[Input]
  BY <1>1, <1>2, InputName
<1>7. TypeOK'
  BY <1>2, <1>5 DEF TypeOK
<1>8. OnlyChild'
  BY <1>2, <1>3, <1>4, <1>5 DEF OnlyChild
<1>9. PrintsLast' /\ PrintsRoot'
  BY <1>2, <1>3 DEF PrintsLast, PrintsRoot
<1>10. InputMatches'
  BY <1>2, <1>3, <1>5, <1>6, InputName DEF InputMatches, Readable, Exists
<1> QED
  BY <1>7, <1>8, <1>9, <1>10

LEMMA NextHolds ==
  ASSUME ~Stops, ~ShortTransfers PROVE IInv /\ [Next]_vars => IInv'
<1> SUFFICES ASSUME IInv, [Next]_vars PROVE IInv'
  OBVIOUS
<1>1. CASE Parent
  BY <1>1, FailsStep, EvaluationEndsStep, ReadGuessStep, ApproximateStep,
     RunProgramStep, NextNumberStep, RootFoundStep DEF Parent
<1>2. CASE Environment
  BY <1>2, EnvironmentStep
<1>3. CASE UNCHANGED vars
  BY <1>3 DEF IInv, TypeOK, ProgramTypeOK, Guessing, OnlyChild, RunOf, PrintsLast,
              InputMatches, PrintsRoot, Readable, Exists, Input, vars, local
<1> QED
  BY <1>1, <1>2, <1>3 DEF Next, Terminated

-----------------------------------------------------------------------------
(***************************************************************************)
(* What diag-root prints is a root of the function that the command        *)
(* computes, whatever numbers the secant method comes upon, if commands    *)
(* are not stopped and numerals are written in full; recycled process ids  *)
(* do no harm here (diag-root.c:182-187,209-232).                          *)
(***************************************************************************)
THEOREM RootPrintsRoot == ASSUME ~Stops, ~ShortTransfers PROVE Spec => []PrintsRoot
<1>1. IInv => PrintsRoot
  BY DEF IInv
<1> QED
  BY <1>1, InitHolds, NextHolds, PTL DEF Spec

(***************************************************************************)
(* While the command runs, what it reads is the numeral of the number that *)
(* the tool goes on with (diag-root.c:165-177,209-229).                    *)
(***************************************************************************)
THEOREM RootInputMatches == ASSUME ~Stops, ~ShortTransfers PROVE Spec => []InputMatches
<1>1. IInv => InputMatches
  BY DEF IInv
<1> QED
  BY <1>1, InitHolds, NextHolds, PTL DEF Spec
=============================================================================
