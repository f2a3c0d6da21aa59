------------------------------ MODULE Iterators ------------------------------
(***************************************************************************)
(* diag-fix and diag-times among their children.  The two tools share the  *)
(* design (a copy of stdin, a file that each run reads, the output of one  *)
(* run handed over to the next) and so the properties.  A behaviour is one *)
(* execution of one of them.                                               *)
(***************************************************************************)
EXTENDS Program

CONSTANTS
  MaxRuns,  \* bound: how many times the model lets diag-fix run the command
  MaxNum    \* bound: the largest -n of diag-times

ASSUME IteratorsAssumption ==
  /\ MaxRuns \in Nat
  /\ MaxNum \in Nat \ {0}
  /\ Inputs = {0}

VARIABLES
  tool,  \* the tool that is executed
  num,   \* the option -n of diag-times, 0 for diag-fix
  n,     \* the outputs handed over by diag-fix; the runs done by diag-times
  source, start, fromStdin, pc, tfin, file, pid, r, printed

local == <<tool, num, n, source, start, fromStdin, pc, tfin, file, pid, r, printed>>
vars  == <<command, fs, child, local>>

F == INSTANCE Fix
T == INSTANCE Times WITH i <- n

Init ==
  \/ tool = "fix" /\ num = 0 /\ F!Init
  \/ tool = "times" /\ T!Init

Parent ==
  /\ UNCHANGED tool
  /\ \/ tool = "fix" /\ F!Parent /\ UNCHANGED num
     \/ tool = "times" /\ T!Parent

Environment == \E p \in Pid : (ChildStep(p) \/ ChildSignal(p)) /\ UNCHANGED local

Terminated == pc = "done" /\ UNCHANGED vars

\* Here the model stops following diag-fix.
BoundReached == tool = "fix" /\ pc = "run" /\ n = MaxRuns /\ UNCHANGED vars

Next == Parent \/ Environment \/ Terminated \/ BoundReached

Spec == Init /\ [][Next]_vars

(***************************************************************************)
(* diag keeps executing, and the command terminates whenever it is run.    *)
(***************************************************************************)
Fairness ==
  /\ WF_vars(Parent)
  /\ WF_vars(\E p \in Pid : ChildStep(p) /\ UNCHANGED local)

FairSpec == Spec /\ Fairness

-----------------------------------------------------------------------------
\* What diag-fix prints is a fixed point of the command (diag-fix.c:117-151).
FixedPoint == tool = "fix" => F!FixedPoint

\* What diag-times prints is the num-th iterate (diag-times.c:92-141).
PrintsIterate == tool = "times" => T!PrintsIterate

Exited(code) == pc = "done" /\ r = code

(***************************************************************************)
(* However the tool exits the copy of stdin is gone, and after a success   *)
(* so is every other file that it or its runs have made: none is forgotten *)
(* when the next one takes its place.  What may outlive a success are the  *)
(* files of a command that was stopped, perhaps while it opened them: the  *)
(* tool goes on without waiting for its end                                *)
(* (diag-fix.c:97-157, diag-times.c:110-147, system.c:318-332).            *)
(***************************************************************************)
FilesInTheEnd ==
  /\ pc = "done" => ~Exists(Tmp)
  /\ Exited(EXIT_SUCCESS) => \A q \in Created : Exists(q) => Unreaped(q)

(***************************************************************************)
(* While a run is under way its input is on disk: the file handed over by  *)
(* the run before was not among those it removed.  The user's own input    *)
(* may be missing from the beginning                                       *)
(* (diag-fix.c:117-129, diag-times.c:112-125).                             *)
(***************************************************************************)
InputInPlace ==
  pc \in {"run", "wait"} /\ file # In(0) => Exists(file)

\* Neither the tool nor a run touches the user's input.
UserInputKept == [][fs'[In(0)] = fs[In(0)]]_fs

(***************************************************************************)
(* The tools implement the abstract iteration: each value is the command's *)
(* output on the one before, no run is lost or repeated, and a success     *)
(* comes when and only when the goal is reached, with the value printed.   *)
(***************************************************************************)
Abstract == INSTANCE Iteration WITH
  f       <- command,
  times   <- num,
  x       <- IF tool = "fix" THEN F!Value ELSE T!Value,
  outcome <- CASE pc # "done" -> "running"
               [] Exited(EXIT_SUCCESS) -> "success"
               [] OTHER -> "failure"

Implements == Abstract!Spec

(***************************************************************************)
(* diag-times ends, and so does diag-fix if the command takes the input to *)
(* a fixed point within the bound.                                         *)
(***************************************************************************)
Terminates == (tool = "fix" => F!Converges) ~> (pc = "done")
=============================================================================
