--------------------------------- MODULE Fix ---------------------------------
(***************************************************************************)
(* diag-fix: run the command on its own output until the output reproduces *)
(* the input, then print it (diag-fix.c).                                  *)
(***************************************************************************)
EXTENDS Program

CONSTANT
  MaxRuns  \* bound: how many times the model lets the command run

VARIABLES
  source,     \* the content of stdin, or of the file given with -i
  start,      \* as much of it as reaches the first run
  fromStdin,  \* no -i option
  pc,
  tfin,       \* tfin is not NULL: the copy of stdin is still to be removed
  file,       \* what the next run reads
  n,          \* how many outputs have differed from their inputs
  pid,        \* the child of the current run
  r,          \* the exit status
  printed     \* what went to stdout

local == <<source, start, fromStdin, pc, tfin, file, n, pid, r, printed>>
vars  == <<command, fs, child, local>>

Init ==
  /\ source \in Data
  /\ fromStdin \in BOOLEAN
  /\ start \in IF fromStdin THEN Transferred(source) ELSE {source}
  /\ \E there \in BOOLEAN :
       ProgramInit([i \in Inputs |-> IF fromStdin \/ ~there THEN Absent ELSE source])
  /\ pc = "begin"
  /\ tfin = FALSE
  /\ file = In(0)
  /\ n = 0
  /\ pid = CHOOSE p \in Pid : TRUE
  /\ r = EXIT_FAILURE
  /\ printed = Absent

(***************************************************************************)
(* The label done: the copy of stdin is removed if it is still there.      *)
(* Other files are left as they are; gone is what the step removes itself. *)
(***************************************************************************)
Done(code, gone) ==
  /\ pc' = "done"
  /\ r' = code
  /\ fs' = Removed(gone \cup (IF tfin THEN {Tmp} ELSE {}))

\* -i was given: nothing to copy.
UseInput ==
  /\ pc = "begin"
  /\ ~fromStdin
  /\ pc' = "run"
  /\ UNCHANGED <<command, fs, child, source, start, fromStdin, tfin, file, n,
                 pid, r, printed>>

\* diag_temporary_file_new, then diag_port_copy from stdin into it.
CopyStdin ==
  /\ pc = "begin"
  /\ fromStdin
  /\ pc' = "run"
  /\ tfin' = TRUE
  /\ file' = Tmp
  /\ fs' = [fs EXCEPT ![Tmp] = start]
  /\ UNCHANGED <<command, child, source, start, fromStdin, n, pid, r, printed>>

\* Either fails; a temporary file that was made is removed again.
CopyStdinFails ==
  /\ pc = "begin"
  /\ fromStdin
  /\ pc' = "done"
  /\ r' = EXIT_FAILURE
  /\ UNCHANGED <<command, fs, child, source, start, fromStdin, tfin, file, n,
                 pid, printed>>

RunProgram ==
  /\ pc = "run"
  /\ n < MaxRuns
  /\ \E p \in Pid : Fork(p, file) /\ pid' = p
  /\ pc' = "wait"
  /\ UNCHANGED <<command, fs, source, start, fromStdin, tfin, file, n, r, printed>>

ForkFails ==
  /\ pc = "run"
  /\ n < MaxRuns
  /\ Done(EXIT_FAILURE, {})
  /\ UNCHANGED <<command, child, source, start, fromStdin, tfin, file, n, pid,
                 printed>>

\* diag_process_wait, the test of the status, and the removal of the err file.
Wait ==
  /\ pc = "wait"
  /\ Waitable(pid)
  /\ Reap(pid)
  /\ IF WaitStatus(pid) # 0
       THEN Done(WaitStatus(pid), {})
       ELSE /\ fs' = Removed({Err(pid)})
            /\ pc' = "compare"
            /\ UNCHANGED r
  /\ UNCHANGED <<command, source, start, fromStdin, tfin, file, n, pid, printed>>

\* Faulty: after file has already been set to the output.
SpentLate == IF n > 0 THEN {Out(pid)} ELSE IF tfin THEN {Tmp} ELSE {}

\* Faulty: the user's input, too.
SpentAlways == {file}

\* The input of a run, unless it is the user's.
Spent == IF n > 0 THEN {file} ELSE IF tfin THEN {Tmp} ELSE {}

(***************************************************************************)
(* diag_port_diff of the input and the output of the run.  If they differ  *)
(* the input goes, and the output takes its place.                         *)
(***************************************************************************)
Advance ==
  /\ pc = "compare"
  /\ Exists(file) /\ Exists(Out(pid))
  /\ fs[file] # fs[Out(pid)]
  /\ fs' = Removed(Spent)
  /\ tfin' = (tfin /\ n > 0)
  /\ file' = Out(pid)
  /\ n' = n + 1
  /\ pc' = "run"
  /\ UNCHANGED <<command, child, source, start, fromStdin, pid, r, printed>>

\* Faulty: no difference because of an error.
ReproducedOnError ==
  /\ pc = "compare"
  /\ pc' = "print"
  /\ UNCHANGED <<command, fs, child, source, start, fromStdin, tfin, file, n,
                 pid, r, printed>>

Reproduced ==
  /\ pc = "compare"
  /\ Exists(file) /\ Exists(Out(pid))
  /\ fs[file] = fs[Out(pid)]
  /\ pc' = "print"
  /\ UNCHANGED <<command, fs, child, source, start, fromStdin, tfin, file, n,
                 pid, r, printed>>

\* Faulty: the input stays.
PrintFileOnly ==
  /\ pc = "print"
  /\ Exists(file)
  /\ printed' = fs[file]
  /\ Done(EXIT_SUCCESS, {Out(pid)})
  /\ UNCHANGED <<command, child, source, start, fromStdin, tfin, file, n, pid>>

\* Copy the input to stdout; remove it, unless it is the user's, and the output.
PrintFile ==
  /\ pc = "print"
  /\ Exists(file)
  /\ printed' = fs[file]
  /\ Done(EXIT_SUCCESS, {Out(pid)} \cup (IF n > 0 THEN {file} ELSE {}))
  /\ UNCHANGED <<command, child, source, start, fromStdin, tfin, file, n, pid>>

\* A port cannot be opened, read or written.
PortFails ==
  /\ pc \in {"compare", "print"}
  /\ Done(EXIT_FAILURE, {})
  /\ UNCHANGED <<command, child, source, start, fromStdin, tfin, file, n, pid,
                 printed>>

Parent ==
  \/ UseInput \/ CopyStdin \/ CopyStdinFails \/ RunProgram \/ ForkFails
  \/ Wait \/ Advance \/ Reproduced \/ PrintFile \/ PortFails

-----------------------------------------------------------------------------
(***************************************************************************)
(* A successful exit has printed a fixed point of the command: no output   *)
(* that merely compared equal to something else (diag-fix.c:117-151).      *)
(***************************************************************************)
FixedPoint ==
  pc = "done" /\ r = EXIT_SUCCESS =>
    printed # Absent /\ command[printed] = printed

(***************************************************************************)
(* The value that the iteration has reached, as the files have it; what is *)
(* printed when the file is gone.                                          *)
(***************************************************************************)
Value == IF n = 0 THEN start ELSE IF Exists(file) THEN fs[file] ELSE printed

(***************************************************************************)
(* The bound is enough to take the input to a fixed point.                 *)
(***************************************************************************)
Orbit[k \in Nat] == IF k = 0 THEN start ELSE command[Orbit[k - 1]]

Converges == \E k \in 0..(MaxRuns - 1) : Orbit[k + 1] = Orbit[k]
=============================================================================
