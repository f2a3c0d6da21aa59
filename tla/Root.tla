-------------------------------- MODULE Root ---------------------------------
(***************************************************************************)
(* diag-root: find a zero of the function that the command computes, by    *)
(* the secant method, starting from two or more guesses (diag-root.c).     *)
(*                                                                         *)
(* Numbers are abstract: the code asks only whether a value is zero and    *)
(* whether two values are equal, and the next approximation may be any     *)
(* number.  Files hold numerals; reading and printing them is not the      *)
(* identity, since "%g" keeps six digits.                                  *)
(***************************************************************************)
EXTENDS Program

CONSTANTS
  NumGuesses,  \* how many times -g is given
  Num,         \* numbers
  Zero,
  Atof,        \* Atof[d]: the number read from a file with the content d
  Fmt,         \* Fmt[x]: the numeral that "%g" gives for x
  MaxIter      \* bound: the largest -n the model tries; 0 stands for no -n

ASSUME RootAssumption ==
  /\ NumGuesses \in Nat /\ NumGuesses >= 2
  /\ Inputs = 0..(NumGuesses - 1)
  /\ Zero \in Num
  /\ Atof \in [Data -> Num]
  /\ Fmt \in [Num -> Data \ {Empty}]
  /\ MaxIter \in Nat

VARIABLES
  num_of_iter,  \* the option -n, 0 if not given
  pc,
  i,            \* the number of guesses done
  n,            \* the number of approximations done, counted only with -n
  pid,          \* the child of the current evaluation
  x,            \* the number being evaluated
  x1, x2,       \* the two numbers before, and the function's values there
  r1, r2,
  r,            \* the exit status
  printed       \* the numeral printed, or Absent

points  == <<x1, x2, r1, r2>>
local   == <<num_of_iter, pc, i, n, pid, x, points, r, printed>>
vars    == <<command, fs, child, local>>

Init ==
  /\ num_of_iter \in 0..MaxIter
  /\ \E given \in [Inputs -> Data \cup {Absent}] : ProgramInit(given)
  /\ pc = "guess"
  /\ i = 0
  /\ n = 0
  /\ pid = CHOOSE p \in Pid : TRUE
  /\ x = Zero /\ x1 = Zero /\ x2 = Zero /\ r1 = Zero /\ r2 = Zero
  /\ r = EXIT_FAILURE
  /\ printed = Absent

Guessing == i < NumGuesses

\* The file the command is run on: a guess, or a temporary file for x.
Input == IF Guessing THEN In(i) ELSE Tmp

\* The labels done1 and done0: the temporary file is removed if there is one.
Done(code, gone) ==
  /\ pc' = "done"
  /\ r' = code
  /\ fs' = Removed(gone \cup (IF Guessing THEN {} ELSE {Tmp}))

\* read_real succeeds on a file that is there and not empty.
Readable(f) == Exists(f) /\ fs[f] # Empty

-----------------------------------------------------------------------------
ReadGuess ==
  /\ pc = "guess"
  /\ Readable(In(i))
  /\ x' = Atof[fs[In(i)]]
  /\ pc' = "evaluate"
  /\ UNCHANGED <<command, fs, child, num_of_iter, i, n, pid, points, r, printed>>

\* read_real fails: to done0 with the status there was.
GuessFails ==
  /\ pc = "guess"
  /\ pc' = "done"
  /\ UNCHANGED <<command, fs, child, num_of_iter, i, n, pid, x, points, r, printed>>

\* Faulty: it is not asked whether anything was written.
ApproximateUnchecked ==
  /\ pc = "secant"
  /\ r1 # r2
  /\ \E y \in Num :
       /\ x' = y
       /\ \E d \in Transferred(Fmt[y]) \cup {Empty} : fs' = [fs EXCEPT ![Tmp] = d]
  /\ pc' = "evaluate"
  /\ UNCHANGED <<command, child, num_of_iter, i, n, pid, points, r, printed>>

\* q is not zero: x_n is computed and written to a temporary file.
Approximate ==
  /\ pc = "secant"
  /\ r1 # r2
  /\ \E y \in Num :
       /\ x' = y
       /\ \E d \in Transferred(Fmt[y]) : fs' = [fs EXCEPT ![Tmp] = d]
  /\ pc' = "evaluate"
  /\ UNCHANGED <<command, child, num_of_iter, i, n, pid, points, r, printed>>

\* write_real fails: no file, or one that nothing was written to; it stays.
WriteFails ==
  /\ pc = "secant"
  /\ r1 # r2
  /\ \E d \in {Absent, Empty} : fs' = [fs EXCEPT ![Tmp] = d]
  /\ pc' = "done"
  /\ UNCHANGED <<command, child, num_of_iter, i, n, pid, x, points, r, printed>>

DivByZero ==
  /\ pc = "secant"
  /\ r1 = r2
  /\ pc' = "done"
  /\ UNCHANGED <<command, fs, child, num_of_iter, i, n, pid, x, points, r, printed>>

RunProgram ==
  /\ pc = "evaluate"
  /\ \E p \in Pid : Fork(p, Input) /\ pid' = p
  /\ pc' = "wait"
  /\ UNCHANGED <<command, fs, num_of_iter, i, n, x, points, r, printed>>

ForkFails ==
  /\ pc = "evaluate"
  /\ Done(EXIT_FAILURE, {})
  /\ UNCHANGED <<command, child, num_of_iter, i, n, pid, x, points, printed>>

-----------------------------------------------------------------------------
(***************************************************************************)
(* The rest of evaluate, and what main makes of its result.                *)
(***************************************************************************)
Outputs == {Out(pid), Err(pid)}

\* The command fails or is killed; its output files stay.
EvaluationFails ==
  /\ pc = "wait"
  /\ Waitable(pid)
  /\ WaitStatus(pid) # 0
  /\ Reap(pid)
  /\ Done(WaitStatus(pid), {})
  /\ UNCHANGED <<command, num_of_iter, i, n, pid, x, points, printed>>

\* The output is empty or cannot be read.
OutputUnreadable ==
  /\ pc = "wait"
  /\ Waitable(pid)
  /\ WaitStatus(pid) = 0
  /\ Reap(pid)
  /\ Done(EXIT_FAILURE, Outputs)
  /\ UNCHANGED <<command, num_of_iter, i, n, pid, x, points, printed>>

Evaluated(y) ==
  /\ pc = "wait"
  /\ Waitable(pid)
  /\ WaitStatus(pid) = 0
  /\ Readable(Out(pid))
  /\ y = Atof[fs[Out(pid)]]
  /\ Reap(pid)

\* Faulty: the number before.
RootBefore == x1

RootNumber == x

RootFound ==
  /\ Evaluated(Zero)
  /\ printed' = Fmt[RootNumber]
  /\ Done(EXIT_SUCCESS, Outputs)
  /\ UNCHANGED <<command, num_of_iter, i, n, pid, x, points>>

Shift(y) == x1' = x /\ x2' = x1 /\ r1' = y /\ r2' = r1

NextGuess ==
  /\ Guessing
  /\ \E y \in Num \ {Zero} : Evaluated(y) /\ Shift(y)
  /\ fs' = Removed(Outputs)
  /\ i' = i + 1
  /\ pc' = IF i + 1 < NumGuesses THEN "guess" ELSE "secant"
  /\ r' = EXIT_SUCCESS
  /\ UNCHANGED <<command, num_of_iter, n, pid, x, printed>>

\* Faulty: never counted.
Uncounted == n

\* n counts only when -n was given.
Counted == IF num_of_iter > 0 THEN n + 1 ELSE n

Exceeded == num_of_iter > 0 /\ n + 1 = num_of_iter

NextIteration ==
  /\ ~Guessing
  /\ ~Exceeded
  /\ \E y \in Num \ {Zero} : Evaluated(y) /\ Shift(y)
  /\ fs' = Removed(Outputs \cup {Tmp})
  /\ n' = Counted
  /\ pc' = "secant"
  /\ r' = EXIT_SUCCESS
  /\ UNCHANGED <<command, num_of_iter, i, pid, x, printed>>

TooManyIterations ==
  /\ ~Guessing
  /\ Exceeded
  /\ \E y \in Num \ {Zero} : Evaluated(y)
  /\ n' = Counted
  /\ Done(EXIT_SUCCESS, Outputs)
  /\ UNCHANGED <<command, num_of_iter, i, pid, x, points, printed>>

-----------------------------------------------------------------------------
Parent ==
  \/ ReadGuess \/ GuessFails \/ Approximate \/ WriteFails \/ DivByZero
  \/ RunProgram \/ ForkFails \/ EvaluationFails \/ OutputUnreadable
  \/ RootFound \/ NextGuess \/ NextIteration \/ TooManyIterations

Environment == \E p \in Pid : (ChildStep(p) \/ ChildSignal(p)) /\ UNCHANGED local

Terminated == pc = "done" /\ UNCHANGED vars

Next == Parent \/ Environment \/ Terminated

Spec == Init /\ [][Next]_vars

(***************************************************************************)
(* diag keeps executing, and the command terminates whenever it is run.    *)
(***************************************************************************)
Fairness ==
  /\ WF_vars(Parent)
  /\ WF_vars(\E p \in Pid : ChildStep(p) /\ UNCHANGED local)

FairSpec == Spec /\ Fairness

-----------------------------------------------------------------------------
(***************************************************************************)
(* What is printed is a root: run on it, the command gives zero.  An       *)
(* approximation is printed as the command read it, so that it is not just *)
(* close to a root; only a guess may be printed with fewer digits than it  *)
(* was given with (diag-root.c:182-187,209-232).                           *)
(***************************************************************************)
PrintsRoot ==
  printed # Absent =>
    LET root == IF Guessing THEN fs[In(i)] ELSE printed
    IN  /\ Atof[command[root]] = Zero
        /\ Guessing => printed = Fmt[Atof[root]]

(***************************************************************************)
(* While the command runs on a numeral, that is the one of the number the  *)
(* tool would print and keep: the file is neither removed nor overwritten  *)
(* (diag-root.c:165-177,209-229).                                          *)
(***************************************************************************)
InputMatches ==
  pc \in {"evaluate", "wait"} =>
    /\ Readable(Input)
    /\ IF Guessing THEN Atof[fs[Input]] = x ELSE fs[Input] = Fmt[x]

(***************************************************************************)
(* With -n the search ends, whatever the command computes                  *)
(* (diag-root.c:219-222).                                                  *)
(***************************************************************************)
Terminates == num_of_iter > 0 ~> pc = "done"

(***************************************************************************)
(* As the manual has it, the exit status is 0 in case of success, that is  *)
(* with a root printed, and otherwise non-0.                               *)
(***************************************************************************)
SucceedsWithRoot == pc = "done" /\ r = EXIT_SUCCESS => printed # Absent
=============================================================================
