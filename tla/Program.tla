------------------------------- MODULE Program -------------------------------
(***************************************************************************)
(* Running the user's command, as diag-fix, diag-times, diag-cycle and     *)
(* diag-root do: diag_run_program and diag_process_wait of system.c (the   *)
(* POSIX branch), and the temporary file that keeps a copy of stdin.       *)
(*                                                                         *)
(* Signals reach a child at any moment after the fork, also while it opens *)
(* its files.                                                              *)
(*                                                                         *)
(* Definitions marked as faulty are not part of the model.  They say how   *)
(* the code could have gone wrong, and each is noticed by some property.   *)
(*                                                                         *)
(* The module has the state that diag and its children share, the file     *)
(* system and the process table, the steps of a child, and the operators   *)
(* from which the tools build their own steps.                             *)
(***************************************************************************)
EXTENDS Integers

CONSTANTS
  Data,         \* the contents a file can have
  Empty,        \* the content of a file just opened with mode "wb"
  Partial,     \* Partial[d]: what may be there when d is not there in full
  Absent,       \* stands for the content of a file that does not exist
  Inputs,       \* the files the user may name on the command line
  Pid,          \* the process ids of the kernel
  FailCodes,    \* the exit statuses other than 0 that the command may have
  Stops,        \* TRUE: a command may be stopped and continued by signals
  ShortTransfers,  \* TRUE: a read of stdin, or the write of a numeral, may
                   \* transfer less than it is asked to
  PidsCollide   \* TRUE: a process id may come back while files named after
                \* its previous holder are still there

ASSUME DataAssumption ==
  /\ Empty \in Data
  /\ Absent \notin Data
  /\ Partial \in [Data -> SUBSET Data]
  /\ \A d \in Data : {d, Empty} \subseteq Partial[d]

ASSUME ProcessAssumption ==
  /\ FailCodes \subseteq 1..255
  /\ 1 \in FailCodes
  /\ Stops \in BOOLEAN
  /\ ShortTransfers \in BOOLEAN
  /\ PidsCollide \in BOOLEAN

VARIABLES
  command,  \* the user's command as a function from its stdin to its stdout
  fs,       \* the content of each file, or Absent
  child     \* the process table, as far as diag's children go

EXIT_SUCCESS == 0
EXIT_FAILURE == 1

(***************************************************************************)
(* File names.  build_path names the two outputs of a run after the pid of *)
(* the child.  The content of an err file is never read: Empty stands for  *)
(* whatever the command wrote there.                                       *)
(***************************************************************************)
In(i)  == <<"in", i>>
Tmp    == <<"tmp", 0>>
Out(p) == <<"out", p>>
Err(p) == <<"err", p>>
Path   == ({"in"} \X Inputs) \cup {Tmp} \cup ({"out", "err"} \X Pid)

\* The files that diag creates, as opposed to the user's own.
Created == {Tmp} \cup ({"out", "err"} \X Pid)

\* A child's state is none, forked, reading (stdin is open), writing (stdout,
\* too), running (stderr, too), exited or killed.  It has the file it is to
\* read and what is there of it, its exit code, whether it is stopped, and the
\* stop or the continuation that its parent has not yet waited for.
NoChild == [st |-> "none", in |-> Tmp, stdin |-> Empty, code |-> 0,
            stopped |-> FALSE, event |-> "none"]

-----------------------------------------------------------------------------
(***************************************************************************)
(* The parent's side of diag_run_program: fork a child that is to read     *)
(* file.  The kernel picks a pid that no process has.                      *)
(***************************************************************************)
Fork(p, file) ==
  /\ child[p].st = "none"
  /\ PidsCollide \/ (fs[Out(p)] = Absent /\ fs[Err(p)] = Absent)
  /\ child' = [child EXCEPT ![p] = [NoChild EXCEPT !.st = "forked", !.in = file]]

(***************************************************************************)
(* The child's side: stdin is reopened first, then stdout and stderr with  *)
(* mode "wb", then the command is executed and reads its stdin.  These are *)
(* three calls, and the parent, other children and signals may come        *)
(* between any two of them.  What was opened can be read even when its     *)
(* name is gone; when it is the very file that stdout truncates there is   *)
(* nothing to read.                                                        *)
(***************************************************************************)
At(p, st) == child[p].st = st /\ ~child[p].stopped

Opened(p, st) ==
  child' = [child EXCEPT ![p].st = st,
              ![p].stdin = IF fs'[child[p].in] = Absent THEN @ ELSE fs'[child[p].in]]

OpenStdin(p) ==
  /\ At(p, "forked")
  /\ fs[child[p].in] # Absent
  /\ UNCHANGED <<command, fs>>
  /\ Opened(p, "reading")

OpenStdout(p) ==
  /\ At(p, "reading")
  /\ fs' = [fs EXCEPT ![Out(p)] = Empty]
  /\ Opened(p, "writing")
  /\ UNCHANGED command

OpenStderr(p) ==
  /\ At(p, "writing")
  /\ fs' = [fs EXCEPT ![Err(p)] = Empty]
  /\ Opened(p, "running")
  /\ UNCHANGED command

\* One of the three freopen calls fails.
OpenFails(p) ==
  /\ At(p, "forked") \/ At(p, "reading") \/ At(p, "writing")
  /\ child' = [child EXCEPT ![p].st = "exited", ![p].code = EXIT_FAILURE]
  /\ UNCHANGED <<command, fs>>

\* Output of a child reaches its file as long as the name is not removed.
Write(p, d) == fs' = [fs EXCEPT ![Out(p)] = IF @ = Absent THEN Absent ELSE d]

Result(p) == command[child[p].stdin]

\* A command that is interrupted may have written a part of its output.
WriteSome(p) ==
  IF child[p].st = "running" THEN \E d \in Partial[Result(p)] : Write(p, d)
                             ELSE UNCHANGED fs

ChildSucceeds(p) ==
  /\ At(p, "running")
  /\ Write(p, Result(p))
  /\ child' = [child EXCEPT ![p].st = "exited", ![p].code = EXIT_SUCCESS]
  /\ UNCHANGED command

\* The command fails, or execvp does and nothing is written.
ChildFails(p) ==
  /\ At(p, "running")
  /\ WriteSome(p)
  /\ \E c \in FailCodes : child' = [child EXCEPT ![p].st = "exited", ![p].code = c]
  /\ UNCHANGED command

Live(p) == child[p].st \in {"forked", "reading", "writing", "running"}

ChildKilled(p) ==
  /\ Live(p)
  /\ WriteSome(p)
  /\ child' = [child EXCEPT ![p].st = "killed"]
  /\ UNCHANGED command

ChildStops(p) ==
  /\ Stops
  /\ Live(p) /\ ~child[p].stopped
  /\ WriteSome(p)
  /\ child' = [child EXCEPT ![p].stopped = TRUE, ![p].event = "stopped"]
  /\ UNCHANGED command

ChildContinues(p) ==
  /\ Live(p) /\ child[p].stopped
  /\ child' = [child EXCEPT ![p].stopped = FALSE, ![p].event = "continued"]
  /\ UNCHANGED <<command, fs>>

(***************************************************************************)
(* What a child does of itself, and what is done to it.  Only of the first *)
(* kind is it assumed that it happens eventually.                          *)
(***************************************************************************)
ChildStep(p) ==
  \/ OpenStdin(p) \/ OpenStdout(p) \/ OpenStderr(p) \/ OpenFails(p)
  \/ ChildSucceeds(p) \/ ChildFails(p)

ChildSignal(p) == ChildKilled(p) \/ ChildStops(p) \/ ChildContinues(p)

-----------------------------------------------------------------------------
(***************************************************************************)
(* diag_process_wait: waitpid with WUNTRACED and WCONTINUED also returns   *)
(* for a child that was stopped or continued, and then process->status     *)
(* keeps the 0 that diag_run_program gave it.                              *)
(***************************************************************************)
\* Faulty: as if only an exit were noticed.
EndedByExit(p) == child[p].st = "exited"

Ended(p) == child[p].st \in {"exited", "killed"}

Waitable(p) == Ended(p) \/ child[p].event # "none"

\* Faulty: as if WIFSIGNALED were not looked at.
WaitStatusUnsignaled(p) == IF child[p].st = "exited" THEN child[p].code ELSE 0

WaitStatus(p) ==
  CASE child[p].st = "exited" -> child[p].code
    [] child[p].st = "killed" -> -1
    [] OTHER                  -> 0

Reap(p) ==
  child' = [child EXCEPT ![p] =
              IF Ended(p) THEN NoChild ELSE [@ EXCEPT !.event = "none"]]

-----------------------------------------------------------------------------
\* diag_remove on each of the files in S.
Removed(S) == [q \in Path |-> IF q \in S THEN Absent ELSE fs[q]]

Exists(q) == fs[q] # Absent

\* A child whose end its parent has not waited for may still write q, or could.
Unreaped(q) == \E p \in Pid : q \in {Out(p), Err(p)} /\ child[p].st # "none"

(***************************************************************************)
(* What a temporary file may hold when d was to go into it and nothing was *)
(* reported: diag_port_copy takes a read that returns fewer bytes than the *)
(* buffer holds, but some, for the end of stdin, and write_real is content *)
(* if some bytes are written.                                              *)
(***************************************************************************)
Transferred(d) ==
  IF ShortTransfers THEN {e \in Partial[d] : e = Empty => d = Empty} ELSE {d}

(***************************************************************************)
(* The command and the user's files at the start of a tool; given is what  *)
(* the user's files contain or lack.                                       *)
(***************************************************************************)
ProgramInit(given) ==
  /\ command \in [Data -> Data]
  /\ child = [p \in Pid |-> NoChild]
  /\ fs = [q \in Path |-> IF q \in Created THEN Absent ELSE given[q[2]]]
=============================================================================
