------------------------------- MODULE Agents --------------------------------
(***************************************************************************)
(* Running commands whose output is left alone, as diag-rep and diag-pool  *)
(* do: diag_run_agent and diag_wait_agent of system.c (the POSIX branch).  *)
(* The process table also has children that diag did not start but         *)
(* inherited from the process that executed it: wait() reports them too.   *)
(***************************************************************************)
EXTENDS Integers, FiniteSets

CONSTANTS
  Pid,    \* the process ids of the kernel
  Codes,  \* the exit statuses of the commands
  Kills   \* TRUE: a signal may kill an agent

ASSUME AgentsAssumption ==
  /\ Pid # {}
  /\ Codes \subseteq 0..255
  /\ Kills \in BOOLEAN

VARIABLES
  proc,  \* the state of each process id
  code,  \* the exit status of the processes that exited
  mine   \* the process ids of the agents that were not reaped yet

EXIT_SUCCESS == 0
EXIT_FAILURE == 1

AgentsTypeOK ==
  /\ proc \in [Pid -> {"free", "live", "exited", "killed"}]
  /\ code \in [Pid -> Codes \cup {EXIT_SUCCESS}]
  /\ mine \subseteq Pid

\* Some children may be there from the beginning.
AgentsInit ==
  /\ proc \in [Pid -> {"free", "live"}]
  /\ code = [p \in Pid |-> EXIT_SUCCESS]
  /\ mine = {}

\* diag_run_agent: fork, in the parent.
RunAgent(p) ==
  /\ proc[p] = "free"
  /\ proc' = [proc EXCEPT ![p] = "live"]
  /\ mine' = mine \cup {p}
  /\ UNCHANGED code

\* A child exits; if execvp fails it does so with EXIT_FAILURE.
Exit(p) ==
  /\ proc[p] = "live"
  /\ \E c \in Codes : code' = [code EXCEPT ![p] = c]
  /\ proc' = [proc EXCEPT ![p] = "exited"]
  /\ UNCHANGED mine

\* A child is killed by a signal.
Kill(p) ==
  /\ Kills
  /\ proc[p] = "live"
  /\ proc' = [proc EXCEPT ![p] = "killed"]
  /\ UNCHANGED <<code, mine>>

(***************************************************************************)
(* The calls of wait() in diag_wait_agent.  Only a child that exited and   *)
(* is among the agents ends the loop there; one that was killed has been   *)
(* reaped all the same.                                                    *)
(***************************************************************************)
Reap(p) ==
  /\ proc' = [proc EXCEPT ![p] = "free"]
  /\ mine' = mine \ {p}
  /\ UNCHANGED code

WaitExited(p) == proc[p] = "exited" /\ Reap(p)

WaitKilled(p) == proc[p] = "killed" /\ Reap(p)

\* wait() fails: there are no children.
WaitFails == (\A p \in Pid : proc[p] = "free") /\ UNCHANGED <<proc, code, mine>>
=============================================================================
