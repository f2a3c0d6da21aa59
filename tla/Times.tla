-------------------------------- MODULE Times --------------------------------
(***************************************************************************)
(* diag-times: apply the command num times and print the last output       *)
(* (diag-times.c).  -n 0 exits before anything is run, and no -n at all is *)
(* an error; both end the program at the options and are not states here.  *)
(***************************************************************************)
EXTENDS Program

CONSTANT
  MaxNum  \* bound: the largest -n the model tries

VARIABLES
  num,        \* the option -n
  source,     \* the content of stdin, or of the file given with -i
  start,      \* as much of it as reaches the first run
  fromStdin,  \* no -i option
  pc,
  tfin,       \* tfin is not NULL: the copy of stdin is still to be removed
  file,       \* what the next run reads
  i,          \* how many runs have succeeded
  pid,        \* the child of the current run
  r,          \* the exit status
  printed     \* what went to stdout

options == <<num, source, start, fromStdin>>
local   == <<options, pc, tfin, file, i, pid, r, printed>>
vars    == <<command, fs, child, local>>

Init ==
  /\ num \in 1..MaxNum
  /\ source \in Data
  /\ fromStdin \in BOOLEAN
  /\ start \in IF fromStdin THEN Transferred(source) ELSE {source}
  /\ \E there \in BOOLEAN :
       ProgramInit([k \in Inputs |-> IF fromStdin \/ ~there THEN Absent ELSE source])
  /\ pc = "begin"
  /\ tfin = FALSE
  /\ file = In(0)
  /\ i = 0
  /\ pid = CHOOSE p \in Pid : TRUE
  /\ r = EXIT_FAILURE
  /\ printed = Absent

\* The label done.
Done(code, gone) ==
  /\ pc' = "done"
  /\ r' = code
  /\ fs' = Removed(gone \cup (IF tfin THEN {Tmp} ELSE {}))

UseInput ==
  /\ pc = "begin"
  /\ ~fromStdin
  /\ pc' = "run"
  /\ UNCHANGED <<command, fs, child, options, tfin, file, i, pid, r, printed>>

\* diag_temporary_file_new, then diag_port_copy from stdin into it.
CopyStdin ==
  /\ pc = "begin"
  /\ fromStdin
  /\ pc' = "run"
  /\ tfin' = TRUE
  /\ file' = Tmp
  /\ fs' = [fs EXCEPT ![Tmp] = start]
  /\ UNCHANGED <<command, child, options, i, pid, r, printed>>

CopyStdinFails ==
  /\ pc = "begin"
  /\ fromStdin
  /\ pc' = "done"
  /\ r' = EXIT_FAILURE
  /\ UNCHANGED <<command, fs, child, options, tfin, file, i, pid, printed>>

RunProgram ==
  /\ pc = "run"
  /\ \E p \in Pid : Fork(p, file) /\ pid' = p
  /\ pc' = "wait"
  /\ UNCHANGED <<command, fs, options, tfin, file, i, r, printed>>

ForkFails ==
  /\ pc = "run"
  /\ Done(EXIT_FAILURE, {})
  /\ UNCHANGED <<command, child, options, tfin, file, i, pid, printed>>

(***************************************************************************)
(* After a successful run its err file and its input go, the latter unless *)
(* it is the user's; its output is the input of the next run, if any.      *)
(***************************************************************************)
Spent == IF i > 0 THEN {file} ELSE IF tfin THEN {Tmp} ELSE {}

\* Faulty: one run too many.
MoreByOne == i + 1 <= num

More == i + 1 < num

Wait ==
  /\ pc = "wait"
  /\ Waitable(pid)
  /\ Reap(pid)
  /\ IF WaitStatus(pid) # 0
       THEN /\ Done(WaitStatus(pid), {})
            /\ UNCHANGED <<tfin, file, i>>
       ELSE /\ fs' = Removed({Err(pid)} \cup Spent)
            /\ tfin' = (tfin /\ i > 0)
            /\ i' = i + 1
            /\ IF More
                 THEN file' = Out(pid) /\ pc' = "run"
                 ELSE pc' = "print" /\ UNCHANGED file
            /\ UNCHANGED r
  /\ UNCHANGED <<command, options, pid, printed>>

\* Copy the last output to stdout and remove it.
PrintFile ==
  /\ pc = "print"
  /\ Exists(Out(pid))
  /\ printed' = fs[Out(pid)]
  /\ Done(EXIT_SUCCESS, {Out(pid)})
  /\ UNCHANGED <<command, child, options, tfin, file, i, pid>>

PortFails ==
  /\ pc = "print"
  /\ Done(EXIT_FAILURE, {})
  /\ UNCHANGED <<command, child, options, tfin, file, i, pid, printed>>

Parent ==
  \/ UseInput \/ CopyStdin \/ CopyStdinFails \/ RunProgram \/ ForkFails
  \/ Wait \/ PrintFile \/ PortFails

-----------------------------------------------------------------------------
\* o is the sequence of the first m iterates of the command on the input.
IsOrbit(o, m) == o[0] = start /\ \A k \in 0..(m - 1) : o[k + 1] = command[o[k]]

(***************************************************************************)
(* A successful exit has printed the num-th iterate of the command on what *)
(* was read: no run is skipped, repeated or fed a stale file               *)
(* (diag-times.c:92-141).                                                  *)
(***************************************************************************)
PrintsIterate ==
  pc = "done" /\ r = EXIT_SUCCESS =>
    \E o \in [0..num -> Data] : IsOrbit(o, num) /\ printed = o[num]

(***************************************************************************)
(* The value that the iteration has reached, as the files have it; what is *)
(* printed when the file is gone.                                          *)
(***************************************************************************)
Reached == IF i < num THEN file ELSE Out(pid)

Value == IF i = 0 THEN start ELSE IF Exists(Reached) THEN fs[Reached] ELSE printed
=============================================================================
