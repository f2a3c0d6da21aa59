------------------------------ MODULE RepProofs -------------------------------
(***************************************************************************)
(* diag-rep makes its runs one after the other, stops early when it should *)
(* and has the last run's exit status, for any number of runs and any set  *)
(* of process ids and exit statuses.                                       *)
(***************************************************************************)
EXTENDS Rep, TLAPS

-----------------------------------------------------------------------------
(***************************************************************************)
(* The inductive invariant.  While the tool waits for its agent the agent  *)
(* has not been reaped, so that its process id is in use, or it has been   *)
(* killed; then the process id is free and no child can be taken for it.   *)
(* A process that exited has one of the statuses that commands have.       *)
(***************************************************************************)
Awaited ==
  pc = "wait" =>
    IF agent \in mine
      THEN proc[agent] # "free"
      ELSE proc[agent] = "free" /\ outcome = Killed

StatusesKnown == \A p \in Pid : proc[p] = "exited" => code[p] \in Codes

RunsLeft == pc \in {"run", "wait"} => i < num

IInv ==
  /\ TypeOK
  /\ NoOverlap
  /\ Awaited
  /\ StatusesKnown
  /\ RunsLeft
  /\ StatusOfLastRun
  /\ RunsAll

LEMMA InitHolds == Init => IInv
<1> SUFFICES ASSUME Init PROVE IInv
  OBVIOUS
<1> USE AgentsAssumption, RepAssumption DEF Init, AgentsInit
<1>1. agent \in Pid
  OBVIOUS
<1>2. TypeOK
  BY <1>1 DEF TypeOK, AgentsTypeOK, EXIT_SUCCESS, EXIT_FAILURE
<1>3. outcome # exit_code
  BY DEF NoRun
<1> QED
  BY <1>2, <1>3 DEF IInv, NoOverlap, Awaited, StatusesKnown, RunsLeft, StatusOfLastRun, RunsAll

-----------------------------------------------------------------------------
LEMMA RunStep == IInv /\ Run => IInv'
<1> SUFFICES ASSUME IInv, Run PROVE IInv'
  OBVIOUS
<1> USE DEF IInv
<1>1. PICK p \in Pid : RunAgent(p) /\ agent' = p
  BY DEF Run
<1>2. /\ pc = "run" /\ pc' = "wait" /\ mine = {}
      /\ mine' = {p}
      /\ proc' = [proc EXCEPT ![p] = "live"]
      /\ UNCHANGED <<code, num, early_exit, exit_code, i, r, outcome>>
  BY <1>1 DEF Run, RunAgent, NoOverlap, options
<1>3. TypeOK'
  BY <1>1, <1>2 DEF TypeOK, AgentsTypeOK
<1>4. NoOverlap' /\ Awaited' /\ StatusesKnown'
  BY <1>1, <1>2 DEF NoOverlap, Awaited, StatusesKnown, TypeOK, AgentsTypeOK
<1>5. RunsLeft' /\ StatusOfLastRun' /\ RunsAll'
  BY <1>2 DEF RunsLeft, StatusOfLastRun, RunsAll
<1> QED
  BY <1>3, <1>4, <1>5

LEMMA ForkFailsStep == IInv /\ ForkFails => IInv'
<1> SUFFICES ASSUME IInv, ForkFails PROVE IInv'
  OBVIOUS
<1> USE DEF IInv, ForkFails, options
<1>1. TypeOK'
  BY DEF TypeOK, AgentsTypeOK
<1> QED
  BY <1>1 DEF NoOverlap, Awaited, StatusesKnown, RunsLeft, StatusOfLastRun, RunsAll

(***************************************************************************)
(* The end of a run, after which no agent is left: c is the status in r,   *)
(* and the run's own unless it was killed.                                 *)
(***************************************************************************)
LEMMA RunEndsStep ==
  ASSUME IInv, pc = "wait", NEW c \in Codes \cup {EXIT_SUCCESS, EXIT_FAILURE},
         RunEnds(c), mine' = {}, r' = c, outcome' \in {c, Killed},
         outcome' = c => c \in Codes, AgentsTypeOK', StatusesKnown',
         UNCHANGED <<options, agent>>
  PROVE  IInv'
<1> USE DEF IInv, options
<1>1. i \in Nat /\ num \in Nat /\ i < num /\ num' = num
  BY RepAssumption DEF TypeOK, RunsLeft
<1>2. \/ early_exit /\ c = exit_code /\ pc' = "done" /\ i' = i
      \/ /\ ~(early_exit /\ c = exit_code)
         /\ i' = i + 1
         /\ \/ i + 1 < num /\ pc' = "run"
            \/ i + 1 = num /\ pc' = "done"
  BY <1>1 DEF RunEnds, Leaves, More
<1>3. TypeOK'
  BY <1>1, <1>2 DEF TypeOK, AgentsTypeOK
<1>4. NoOverlap' /\ Awaited' /\ RunsLeft'
  BY <1>1, <1>2 DEF NoOverlap, Awaited, RunsLeft
<1>5. StatusOfLastRun'
  BY DEF StatusOfLastRun
<1>6. exit_code # Killed
  BY AgentsAssumption DEF TypeOK, Killed
<1>7. RunsAll'
  BY <1>1, <1>2, <1>6 DEF RunsAll
<1> QED
  BY <1>3, <1>4, <1>5, <1>7

LEMMA AgentExitedStep == IInv /\ AgentExited => IInv'
<1> SUFFICES ASSUME IInv, AgentExited PROVE IInv'
  OBVIOUS
<1> USE DEF IInv
<1>1. /\ pc = "wait" /\ proc[agent] = "exited"
      /\ RunEnds(code[agent])
      /\ r' = code[agent] /\ outcome' = code[agent]
      /\ UNCHANGED <<options, agent>>
  BY DEF AgentExited, WaitExited
<1>2. /\ proc' = [proc EXCEPT ![agent] = "free"]
      /\ mine' = mine \ {agent}
      /\ code' = code
  BY DEF AgentExited, WaitExited, Reap
<1>3. mine' = {}
  BY <1>1, <1>2 DEF NoOverlap
<1>4. AgentsTypeOK' /\ StatusesKnown'
  BY <1>2 DEF StatusesKnown, TypeOK, AgentsTypeOK
<1>5. code[agent] \in Codes
  BY <1>1 DEF StatusesKnown, TypeOK
<1> QED
  BY <1>1, <1>3, <1>4, <1>5, RunEndsStep

\* With no children left the agent must have been killed and reaped.
LEMMA NoChildrenStep == IInv /\ NoChildren => IInv'
<1> SUFFICES ASSUME IInv, NoChildren PROVE IInv'
  OBVIOUS
<1> USE DEF IInv
<1>1. /\ pc = "wait" /\ RunEnds(r)
      /\ UNCHANGED <<proc, code, mine, options, agent, r, outcome>>
      /\ \A p \in Pid : proc[p] = "free"
  BY DEF NoChildren, WaitFails
<1>2. agent \in Pid
  BY DEF TypeOK
<1>3. outcome = Killed /\ mine = {}
  BY <1>1, <1>2 DEF Awaited, NoOverlap
<1>4. AgentsTypeOK' /\ StatusesKnown' /\ r \in Codes \cup {EXIT_SUCCESS, EXIT_FAILURE}
  BY <1>1 DEF StatusesKnown, TypeOK, AgentsTypeOK
<1>5. Killed \notin Codes \cup {EXIT_SUCCESS, EXIT_FAILURE}
  BY AgentsAssumption DEF Killed, EXIT_SUCCESS, EXIT_FAILURE
<1>6. outcome' = r => r \in Codes
  BY <1>1, <1>3, <1>4, <1>5
<1> QED
  BY <1>1, <1>3, <1>4, <1>6, RunEndsStep

-----------------------------------------------------------------------------
LEMMA OtherExitedStep == IInv /\ OtherExited => IInv'
<1> SUFFICES ASSUME IInv, OtherExited PROVE IInv'
  OBVIOUS
<1> USE DEF IInv
<1>1. PICK p \in Pid \ {agent} : WaitExited(p) /\ r' = code[p]
  BY DEF OtherExited
<1>2. /\ pc = "wait" /\ UNCHANGED <<pc, num, early_exit, exit_code, i, agent, outcome>>
      /\ proc' = [proc EXCEPT ![p] = "free"]
      /\ mine' = mine \ {p}
      /\ code' = code
  BY <1>1 DEF OtherExited, WaitExited, Reap, options
<1>3. mine' = mine
  BY <1>1, <1>2 DEF NoOverlap
<1>4. TypeOK'
  BY <1>1, <1>2, <1>3 DEF TypeOK, AgentsTypeOK
<1>5. NoOverlap' /\ Awaited' /\ StatusesKnown'
  BY <1>1, <1>2, <1>3 DEF NoOverlap, Awaited, StatusesKnown, TypeOK, AgentsTypeOK
<1>6. RunsLeft' /\ StatusOfLastRun' /\ RunsAll'
  BY <1>2 DEF RunsLeft, StatusOfLastRun, RunsAll
<1> QED
  BY <1>4, <1>5, <1>6

LEMMA ChildKilledStep == IInv /\ ChildKilled => IInv'
<1> SUFFICES ASSUME IInv, ChildKilled PROVE IInv'
  OBVIOUS
<1> USE DEF IInv
<1>1. PICK p \in Pid :
        WaitKilled(p) /\ outcome' = IF p = agent THEN Killed ELSE outcome
  BY DEF ChildKilled
<1>2. /\ pc = "wait" /\ UNCHANGED <<pc, num, early_exit, exit_code, i, agent, r>>
      /\ proc' = [proc EXCEPT ![p] = "free"]
      /\ mine' = mine \ {p}
      /\ code' = code
  BY <1>1 DEF ChildKilled, WaitKilled, Reap, options
<1>3. TypeOK'
  BY <1>1, <1>2 DEF TypeOK, AgentsTypeOK
<1>4. NoOverlap' /\ Awaited' /\ StatusesKnown'
  BY <1>1, <1>2 DEF NoOverlap, Awaited, StatusesKnown, TypeOK, AgentsTypeOK
<1>5. RunsLeft' /\ StatusOfLastRun' /\ RunsAll'
  BY <1>2 DEF RunsLeft, StatusOfLastRun, RunsAll
<1> QED
  BY <1>3, <1>4, <1>5

LEMMA EnvironmentStep == IInv /\ Environment => IInv'
<1> SUFFICES ASSUME IInv, Environment PROVE IInv'
  OBVIOUS
<1> USE DEF IInv
<1>1. PICK p \in Pid : Exit(p) \/ Kill(p)
  BY DEF Environment
<1>2. /\ proc[p] = "live"
      /\ \E st \in {"exited", "killed"} : proc' = [proc EXCEPT ![p] = st]
      /\ code' \in [Pid -> Codes \cup {EXIT_SUCCESS}]
      /\ \A q \in Pid : proc'[q] = "exited" => code'[q] \in Codes
      /\ UNCHANGED <<mine, num, early_exit, exit_code, pc, i, agent, r, outcome>>
  BY <1>1 DEF Exit, Kill, Environment, options, StatusesKnown, TypeOK, AgentsTypeOK
<1>3. TypeOK'
  BY <1>2 DEF TypeOK, AgentsTypeOK
<1>4. NoOverlap' /\ Awaited' /\ StatusesKnown'
  BY <1>1, <1>2 DEF NoOverlap, Awaited, StatusesKnown, TypeOK, AgentsTypeOK
<1>5. RunsLeft' /\ StatusOfLastRun' /\ RunsAll'
  BY <1>2 DEF RunsLeft, StatusOfLastRun, RunsAll
<1> QED
  BY <1>3, <1>4, <1>5

-----------------------------------------------------------------------------
LEMMA NextHolds == IInv /\ [Next]_vars => IInv'
<1> SUFFICES ASSUME IInv, [Next]_vars PROVE IInv'
  OBVIOUS
<1>1. CASE UNCHANGED vars
  BY <1>1 DEF vars, options, IInv, TypeOK, AgentsTypeOK, NoOverlap, Awaited,
              StatusesKnown, RunsLeft, StatusOfLastRun, RunsAll
<1>2. CASE Terminated
  BY <1>1, <1>2 DEF Terminated
<1>3. CASE Parent
  BY <1>3, RunStep, ForkFailsStep, AgentExitedStep, OtherExitedStep,
     ChildKilledStep, NoChildrenStep DEF Parent
<1>4. CASE Environment
  BY <1>4, EnvironmentStep
<1> QED
  BY <1>1, <1>2, <1>3, <1>4 DEF Next

LEMMA Invariance == Spec => []IInv
<1> QED
  BY InitHolds, NextHolds, PTL DEF Spec

(***************************************************************************)
(* No run is started while the agent of the run before, dead or alive, has *)
(* not been reaped (diag-rep.c:78-85, system.c:503-529).                   *)
(***************************************************************************)
THEOREM RepRunsDoNotOverlap == Spec => []NoOverlap
<1>1. IInv => NoOverlap
  BY DEF IInv
<1> QED
  BY <1>1, Invariance, PTL

(***************************************************************************)
(* The exit status is the last run's unless that was killed, whatever      *)
(* statuses of other children have passed through the variable             *)
(* (diag-rep.c:81-86, system.c:519-527).                                   *)
(***************************************************************************)
THEOREM RepStatusOfLastRun == Spec => []StatusOfLastRun
<1>1. IInv => StatusOfLastRun
  BY DEF IInv
<1> QED
  BY <1>1, Invariance, PTL

(***************************************************************************)
(* All runs are made, except when one cannot be started or -e says so      *)
(* (diag-rep.c:78-85).                                                     *)
(***************************************************************************)
THEOREM RepRunsAll == Spec => []RunsAll
<1>1. IInv => RunsAll
  BY DEF IInv
<1> QED
  BY <1>1, Invariance, PTL
=============================================================================
