-------------------------------- MODULE Pool ---------------------------------
(***************************************************************************)
(* diag-pool: keep num instances of the command running (diag-pool.c).     *)
(***************************************************************************)
EXTENDS Agents

CONSTANT
  N  \* the number of processes, option -n

ASSUME PoolAssumption == N \in Nat \ {0}

Slots == 0..(N - 1)

VARIABLES
  pc,
  pv,  \* the vector of process ids; its elements are not set at first
  i,   \* the slot to be filled next
  r,   \* the exit status
  lost \* history: how many agents were killed and reaped

vars == <<proc, code, mine, pc, pv, i, r, lost>>

Unset == 0

ASSUME UnsetAssumption == Unset \notin Pid

TypeOK ==
  /\ AgentsTypeOK
  /\ pc \in {"launch", "wait", "respawn", "done"}
  /\ pv \in [Slots -> Pid \cup {Unset}]
  /\ i \in Slots
  /\ r \in {EXIT_SUCCESS, EXIT_FAILURE}
  /\ lost \in 0..N

Init ==
  /\ AgentsInit
  /\ pc = "launch"
  /\ pv = [s \in Slots |-> Unset]
  /\ i = 0
  /\ r = EXIT_FAILURE
  /\ lost = 0

\* Faulty: one slot too many.
MoreSlotsByOne == i + 1 <= N

MoreSlots == i + 1 < N

Launch ==
  /\ pc = "launch"
  /\ \E p \in Pid : RunAgent(p) /\ pv' = [pv EXCEPT ![i] = p]
  /\ IF MoreSlots
       THEN i' = i + 1 /\ UNCHANGED pc
       ELSE pc' = "wait" /\ UNCHANGED i
  /\ UNCHANGED <<r, lost>>

\* fork fails in diag_run_agent: _Exit, with whatever agents there are.
ForkFails ==
  /\ pc \in {"launch", "respawn"}
  /\ pc' = "done"
  /\ UNCHANGED <<proc, code, mine, pv, i, r, lost>>

\* diag_wait_agent gives the least slot with the process id that exited.
AgentExited ==
  /\ pc = "wait"
  /\ \E p \in Pid, s \in Slots :
       /\ WaitExited(p)
       /\ pv[s] = p
       /\ \A t \in Slots : t < s => pv[t] # p
       /\ i' = s
  /\ pc' = "respawn"
  /\ UNCHANGED <<pv, r, lost>>

\* Faulty: any child that exits is taken for an agent.
OtherReplaced ==
  /\ pc = "wait"
  /\ \E p \in Pid : WaitExited(p) /\ \A s \in Slots : pv[s] # p
  /\ pc' = "respawn"
  /\ UNCHANGED <<pv, i, r, lost>>

\* The loop in diag_wait_agent goes on: no slot has it, or it was killed.
OtherExited ==
  /\ pc = "wait"
  /\ \E p \in Pid : WaitExited(p) /\ \A s \in Slots : pv[s] # p
  /\ UNCHANGED <<pc, pv, i, r, lost>>

AgentKilled ==
  /\ pc = "wait"
  /\ \E p \in Pid :
       WaitKilled(p) /\ lost' = IF p \in mine THEN lost + 1 ELSE lost
  /\ UNCHANGED <<pc, pv, i, r>>

NoChildren ==
  /\ pc = "wait"
  /\ WaitFails
  /\ pc' = "done"
  /\ r' = EXIT_FAILURE
  /\ UNCHANGED <<pv, i, lost>>

\* Faulty: the slot keeps the process id it had.
RespawnUnset ==
  /\ pc = "respawn"
  /\ \E p \in Pid : RunAgent(p)
  /\ pc' = "wait"
  /\ UNCHANGED <<pv, i, r, lost>>

Respawn ==
  /\ pc = "respawn"
  /\ \E p \in Pid : RunAgent(p) /\ pv' = [pv EXCEPT ![i] = p]
  /\ pc' = "wait"
  /\ UNCHANGED <<i, r, lost>>

Parent ==
  \/ Launch \/ ForkFails \/ AgentExited \/ OtherExited \/ AgentKilled
  \/ NoChildren \/ Respawn

Environment ==
  /\ \E p \in Pid : Exit(p) \/ Kill(p)
  /\ UNCHANGED <<pc, pv, i, r, lost>>

Terminated == pc = "done" /\ UNCHANGED vars

Next == Parent \/ Environment \/ Terminated

Spec == Init /\ [][Next]_vars

-----------------------------------------------------------------------------
(***************************************************************************)
(* While the pool waits, every agent not yet reaped is in a slot: no       *)
(* process started by diag-pool can end without diag_wait_agent finding    *)
(* its slot, even if process ids are used again and slots of killed agents *)
(* still hold theirs (diag-pool.c:73-80, system.c:510-528).                *)
(***************************************************************************)
AllTracked == pc = "wait" => \A p \in mine : \E s \in Slots : pv[s] = p

(***************************************************************************)
(* How many agents there are, counting those that ended but were not       *)
(* reaped: one per slot, short of the ones that were killed and reaped,    *)
(* for which the pool never gets new ones.  Each agent that exits is       *)
(* replaced by exactly one (diag-pool.c:69-80, system.c:510-528).          *)
(***************************************************************************)
PoolSize ==
  Cardinality(mine) =
    CASE pc = "launch"  -> i
      [] pc = "wait"    -> N - lost
      [] pc = "respawn" -> N - lost - 1
      [] pc = "done"    -> Cardinality(mine)

(***************************************************************************)
(* As the manual has it, an agent that exits normally or abnormally is     *)
(* replaced so as to keep the number of agents.                            *)
(***************************************************************************)
KeepsNum == pc = "wait" => Cardinality(mine) = N
=============================================================================
