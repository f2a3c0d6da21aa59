--------------------------------- MODULE Rep ---------------------------------
(***************************************************************************)
(* diag-rep: run the command up to num times, one after the other          *)
(* (diag-rep.c).  The pause between two runs changes no state.             *)
(***************************************************************************)
EXTENDS Agents

CONSTANT
  MaxNum  \* bound: the largest -n the model tries

ASSUME RepAssumption == MaxNum \in Nat \ {0}

VARIABLES
  num,         \* the option -n
  early_exit,  \* the option -e was given
  exit_code,   \* its value
  pc,
  i,           \* the number of the current run
  agent,       \* its process id
  r,           \* the exit status
  outcome      \* history: what the last run ended with, a code or "killed"

options == <<num, early_exit, exit_code>>
vars == <<proc, code, mine, options, pc, i, agent, r, outcome>>

Killed == -1
NoRun  == -2   \* none so far
NoFork == -3   \* it could not be started

TypeOK ==
  /\ AgentsTypeOK
  /\ num \in 1..MaxNum
  /\ early_exit \in BOOLEAN
  /\ exit_code \in Codes
  /\ pc \in {"run", "wait", "done"}
  /\ i \in 0..num
  /\ agent \in Pid
  /\ r \in Codes \cup {EXIT_SUCCESS, EXIT_FAILURE}
  /\ outcome \in Codes \cup {Killed, NoRun, NoFork}

Init ==
  /\ AgentsInit
  /\ num \in 1..MaxNum
  /\ early_exit \in BOOLEAN
  /\ exit_code \in Codes
  /\ pc = "run"
  /\ i = 0
  /\ agent = CHOOSE p \in Pid : TRUE
  /\ r = EXIT_SUCCESS
  /\ outcome = NoRun

Run ==
  /\ pc = "run"
  /\ \E p \in Pid : RunAgent(p) /\ agent' = p
  /\ pc' = "wait"
  /\ UNCHANGED <<options, i, r, outcome>>

\* fork fails in diag_run_agent: _Exit.
ForkFails ==
  /\ pc = "run"
  /\ pc' = "done"
  /\ r' = EXIT_FAILURE
  /\ outcome' = NoFork
  /\ UNCHANGED <<proc, code, mine, options, i, agent>>

\* Faulty: as if -e were always given.
LeavesAlways(c) == c = exit_code

Leaves(c) == early_exit /\ c = exit_code

More == i + 1 < num

\* The end of the loop's body, with c in r: return early, or go on to the
\* next run, if any.
RunEnds(c) ==
  IF Leaves(c)
    THEN pc' = "done" /\ UNCHANGED i
    ELSE /\ i' = i + 1
         /\ pc' = IF More THEN "run" ELSE "done"

\* Faulty: no pointer for the exit status.
AgentExitedUnseen ==
  /\ pc = "wait"
  /\ WaitExited(agent)
  /\ outcome' = code[agent]
  /\ RunEnds(r)
  /\ UNCHANGED <<options, agent, r>>

\* diag_wait_agent returns, having stored the exit status in r.
AgentExited ==
  /\ pc = "wait"
  /\ WaitExited(agent)
  /\ r' = code[agent]
  /\ outcome' = code[agent]
  /\ RunEnds(code[agent])
  /\ UNCHANGED <<options, agent>>

\* Faulty: any child that exits is taken for the agent.
OtherTaken ==
  /\ pc = "wait"
  /\ \E p \in Pid \ {agent} :
       WaitExited(p) /\ r' = code[p] /\ outcome' = code[p] /\ RunEnds(code[p])
  /\ UNCHANGED <<options, agent>>

\* A child that is not the agent: its exit status is stored in r all the
\* same, and the loop in diag_wait_agent goes on.
OtherExited ==
  /\ pc = "wait"
  /\ \E p \in Pid \ {agent} : WaitExited(p) /\ r' = code[p]
  /\ UNCHANGED <<options, pc, i, agent, outcome>>

ChildKilled ==
  /\ pc = "wait"
  /\ \E p \in Pid :
       WaitKilled(p) /\ outcome' = IF p = agent THEN Killed ELSE outcome
  /\ UNCHANGED <<options, pc, i, agent, r>>

\* Faulty: the call is made again.
WaitAgain == pc = "wait" /\ WaitFails /\ UNCHANGED <<options, pc, i, agent, r, outcome>>

\* diag_wait_agent returns -1, which is ignored: r is what it was.
NoChildren ==
  /\ pc = "wait"
  /\ WaitFails
  /\ RunEnds(r)
  /\ UNCHANGED <<options, agent, r, outcome>>

Parent ==
  \/ Run \/ ForkFails \/ AgentExited \/ OtherExited \/ ChildKilled \/ NoChildren

Environment ==
  /\ \E p \in Pid : Exit(p) \/ Kill(p)
  /\ UNCHANGED <<options, pc, i, agent, r, outcome>>

Terminated == pc = "done" /\ UNCHANGED vars

Next == Parent \/ Environment \/ Terminated

Spec == Init /\ [][Next]_vars

(***************************************************************************)
(* diag keeps executing, and every child ends.                             *)
(***************************************************************************)
Fairness ==
  /\ WF_vars(Parent)
  /\ \A p \in Pid : WF_vars(Exit(p) /\ UNCHANGED <<options, pc, i, agent, r, outcome>>)

FairSpec == Spec /\ Fairness

-----------------------------------------------------------------------------
(***************************************************************************)
(* The exit status is the last run's, if that one was not killed.          *)
(* Statuses of children inherited from elsewhere, which diag_wait_agent    *)
(* also stores, do not show (diag-rep.c:78-86, system.c:519-527).          *)
(***************************************************************************)
StatusOfLastRun == pc = "done" => outcome \in {r, Killed, NoFork}

(***************************************************************************)
(* All runs have been made, or one could not be started, unless the last   *)
(* one had the exit status given with -e or, being killed, left another's  *)
(* that is the same.  With -e no run follows one that had that status      *)
(* (diag-rep.c:78-85).                                                     *)
(***************************************************************************)
RunsAll ==
  /\ pc = "done" /\ i < num =>
       outcome = NoFork \/ (early_exit /\ outcome \in {exit_code, Killed})
  /\ pc = "run" /\ early_exit => outcome # exit_code

(***************************************************************************)
(* Runs do not overlap: whenever one is started there is no other agent,   *)
(* dead or alive (diag-rep.c:80-81).                                       *)
(***************************************************************************)
NoOverlap ==
  /\ pc = "run" => mine = {}
  /\ pc = "wait" => mine \subseteq {agent}

(***************************************************************************)
(* The tool ends if all children do, killed ones included.                 *)
(***************************************************************************)
Terminates == <>(pc = "done")
=============================================================================
