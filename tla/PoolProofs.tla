------------------------------ MODULE PoolProofs ------------------------------
(***************************************************************************)
(* diag-pool tracks all its agents, and the size of the pool is as stated, *)
(* for any number of slots and any set of process ids.                     *)
(***************************************************************************)
EXTENDS Pool, FiniteSetTheorems, TLAPS

-----------------------------------------------------------------------------
(***************************************************************************)
(* The inductive invariant.  AllTracked speaks of the waiting pool only;   *)
(* it depends on where the slots of the agents are before and after: below *)
(* the one being launched, or other than the one to be refilled.  The size *)
(* depends on which children a slot can name: a process id that is in use  *)
(* and in a slot is an agent's, so that a child inherited from elsewhere   *)
(* never takes the place of an agent.                                      *)
(***************************************************************************)
AgentsExist == \A p \in mine : proc[p] # "free"

SlotsAreOwn == \A s \in Slots : pv[s] \in Pid /\ proc[pv[s]] # "free" => pv[s] \in mine

SlotsOfAgents ==
  pc # "done" =>
    \A p \in mine :
      \E s \in Slots :
        /\ pv[s] = p
        /\ pc = "launch" => s < i
        /\ pc = "respawn" => s # i

NoneLostYet == pc = "launch" => lost = 0

IInv ==
  /\ TypeOK
  /\ IsFiniteSet(mine)
  /\ AgentsExist
  /\ SlotsAreOwn
  /\ SlotsOfAgents
  /\ NoneLostYet
  /\ PoolSize

(***************************************************************************)
(* A new agent adds one to their number, since its process id was free;    *)
(* reaping a child takes one away if it is an agent.                       *)
(***************************************************************************)
LEMMA AgentCount ==
  ASSUME IsFiniteSet(mine), NEW p \in Pid
  PROVE  /\ IsFiniteSet(mine \cup {p})
         /\ IsFiniteSet(mine \ {p})
         /\ Cardinality(mine) \in Nat
         /\ Cardinality(mine \ {p}) \in Nat
         /\ p \notin mine => Cardinality(mine \cup {p}) = Cardinality(mine) + 1
         /\ p \in mine => Cardinality(mine \ {p}) = Cardinality(mine) - 1
         /\ p \notin mine => mine \ {p} = mine
BY FS_AddElement, FS_RemoveElement, FS_CardinalityType

LEMMA InitHolds == Init => IInv
<1> SUFFICES ASSUME Init PROVE IInv
  OBVIOUS
<1> USE PoolAssumption DEF Init, AgentsInit
<1>1. TypeOK
  BY DEF TypeOK, AgentsTypeOK, Slots, EXIT_SUCCESS, EXIT_FAILURE
<1>2. IsFiniteSet(mine) /\ Cardinality(mine) = 0
  BY FS_EmptySet
<1>3. SlotsAreOwn
  BY UnsetAssumption DEF SlotsAreOwn, Unset
<1> QED
  BY <1>1, <1>2, <1>3 DEF IInv, AgentsExist, SlotsOfAgents, NoneLostYet, PoolSize

-----------------------------------------------------------------------------
LEMMA LaunchStep == IInv /\ Launch => IInv'
<1> SUFFICES ASSUME IInv, Launch PROVE IInv'
  OBVIOUS
<1> USE PoolAssumption DEF IInv
<1>1. PICK p \in Pid : RunAgent(p) /\ pv' = [pv EXCEPT ![i] = p]
  BY DEF Launch
<1>2. /\ proc[p] = "free" /\ p \notin mine
      /\ proc' = [proc EXCEPT ![p] = "live"]
      /\ mine' = mine \cup {p}
  BY <1>1 DEF RunAgent, AgentsExist
<1>3. /\ pc = "launch" /\ lost = 0 /\ lost' = lost /\ r' = r
      /\ code' = code
      /\ \/ i + 1 < N /\ i' = i + 1 /\ pc' = "launch"
         \/ i + 1 = N /\ i' = i /\ pc' = "wait"
  BY <1>1 DEF Launch, RunAgent, NoneLostYet, TypeOK, Slots, MoreSlots
<1>4. TypeOK'
  BY <1>1, <1>2, <1>3 DEF TypeOK, AgentsTypeOK, Slots
<1>5. IsFiniteSet(mine)' /\ Cardinality(mine') = Cardinality(mine) + 1
  BY <1>2, AgentCount
<1>6. AgentsExist'
  BY <1>2 DEF AgentsExist, TypeOK, AgentsTypeOK
<1>7. SlotsAreOwn'
  BY <1>1, <1>2 DEF SlotsAreOwn, TypeOK, AgentsTypeOK
<1>8. SlotsOfAgents'
  BY <1>1, <1>2, <1>3 DEF SlotsOfAgents, TypeOK, Slots
<1>9. NoneLostYet' /\ PoolSize'
  BY <1>3, <1>5 DEF NoneLostYet, PoolSize, TypeOK, Slots
<1> QED
  BY <1>4, <1>5, <1>6, <1>7, <1>8, <1>9

LEMMA AgentExitedStep == IInv /\ AgentExited => IInv'
<1> SUFFICES ASSUME IInv, AgentExited PROVE IInv'
  OBVIOUS
<1> USE PoolAssumption DEF IInv
<1>1. PICK p \in Pid, s \in Slots :
        WaitExited(p) /\ pv[s] = p /\ i' = s
  BY DEF AgentExited
<1>2. /\ p \in mine
      /\ proc' = [proc EXCEPT ![p] = "free"]
      /\ mine' = mine \ {p}
      /\ code' = code
  BY <1>1 DEF WaitExited, Reap, SlotsAreOwn
<1>3. /\ pc = "wait" /\ pc' = "respawn"
      /\ pv' = pv /\ r' = r /\ lost' = lost
  BY DEF AgentExited
<1>4. TypeOK'
  BY <1>1, <1>2, <1>3 DEF TypeOK, AgentsTypeOK
<1>5. IsFiniteSet(mine)' /\ Cardinality(mine') = Cardinality(mine) - 1
  BY <1>2, AgentCount
<1>6. AgentsExist' /\ SlotsAreOwn'
  BY <1>2, <1>3 DEF AgentsExist, SlotsAreOwn, TypeOK, AgentsTypeOK
<1>7. SlotsOfAgents'
  BY <1>1, <1>2, <1>3 DEF SlotsOfAgents
<1>8. NoneLostYet' /\ PoolSize'
  BY <1>3, <1>5 DEF NoneLostYet, PoolSize
<1> QED
  BY <1>4, <1>5, <1>6, <1>7, <1>8

\* A child that exited and is in no slot was not an agent.
LEMMA OtherExitedStep == IInv /\ OtherExited => IInv'
<1> SUFFICES ASSUME IInv, OtherExited PROVE IInv'
  OBVIOUS
<1> USE PoolAssumption DEF IInv
<1>1. PICK p \in Pid : WaitExited(p) /\ \A s \in Slots : pv[s] # p
  BY DEF OtherExited
<1>2. pc = "wait" /\ UNCHANGED <<pc, pv, i, r, lost>>
  BY DEF OtherExited
<1>3. p \notin mine
  BY <1>1, <1>2 DEF SlotsOfAgents
<1>4. /\ proc' = [proc EXCEPT ![p] = "free"]
      /\ mine' = mine
      /\ code' = code
  BY <1>1, <1>3 DEF WaitExited, Reap
<1>5. TypeOK'
  BY <1>2, <1>4 DEF TypeOK, AgentsTypeOK
<1>6. AgentsExist' /\ SlotsAreOwn'
  BY <1>2, <1>3, <1>4 DEF AgentsExist, SlotsAreOwn, TypeOK, AgentsTypeOK
<1>7. SlotsOfAgents' /\ NoneLostYet' /\ PoolSize'
  BY <1>2, <1>4 DEF SlotsOfAgents, NoneLostYet, PoolSize
<1> QED
  BY <1>4, <1>5, <1>6, <1>7

LEMMA AgentKilledStep == IInv /\ AgentKilled => IInv'
<1> SUFFICES ASSUME IInv, AgentKilled PROVE IInv'
  OBVIOUS
<1> USE PoolAssumption DEF IInv
<1>1. PICK p \in Pid : WaitKilled(p) /\ lost' = IF p \in mine THEN lost + 1 ELSE lost
  BY DEF AgentKilled
<1>2. pc = "wait" /\ UNCHANGED <<pc, pv, i, r>>
  BY DEF AgentKilled
<1>3. /\ proc' = [proc EXCEPT ![p] = "free"]
      /\ mine' = mine \ {p}
      /\ code' = code
  BY <1>1 DEF WaitKilled, Reap
<1>4. /\ IsFiniteSet(mine)'
      /\ Cardinality(mine') \in Nat
      /\ Cardinality(mine) = N - lost
      /\ Cardinality(mine') = N - lost'
  BY <1>1, <1>2, <1>3, AgentCount DEF PoolSize, TypeOK
<1>5. TypeOK'
  BY <1>1, <1>2, <1>3, <1>4 DEF TypeOK, AgentsTypeOK
<1>6. AgentsExist' /\ SlotsAreOwn'
  BY <1>2, <1>3 DEF AgentsExist, SlotsAreOwn, TypeOK, AgentsTypeOK
<1>7. SlotsOfAgents' /\ NoneLostYet' /\ PoolSize'
  BY <1>2, <1>3, <1>4 DEF SlotsOfAgents, NoneLostYet, PoolSize
<1> QED
  BY <1>4, <1>5, <1>6, <1>7

LEMMA RespawnStep == IInv /\ Respawn => IInv'
<1> SUFFICES ASSUME IInv, Respawn PROVE IInv'
  OBVIOUS
<1> USE PoolAssumption DEF IInv
<1>1. PICK p \in Pid : RunAgent(p) /\ pv' = [pv EXCEPT ![i] = p]
  BY DEF Respawn
<1>2. /\ proc[p] = "free" /\ p \notin mine
      /\ proc' = [proc EXCEPT ![p] = "live"]
      /\ mine' = mine \cup {p}
      /\ code' = code
  BY <1>1 DEF RunAgent, AgentsExist
<1>3. pc = "respawn" /\ pc' = "wait" /\ UNCHANGED <<i, r, lost>>
  BY DEF Respawn
<1>4. TypeOK'
  BY <1>1, <1>2, <1>3 DEF TypeOK, AgentsTypeOK
<1>5. /\ IsFiniteSet(mine)' /\ Cardinality(mine) \in Nat
      /\ Cardinality(mine') = Cardinality(mine) + 1
  BY <1>2, AgentCount
<1>6. AgentsExist'
  BY <1>2 DEF AgentsExist, TypeOK, AgentsTypeOK
<1>7. SlotsAreOwn'
  BY <1>1, <1>2 DEF SlotsAreOwn, TypeOK, AgentsTypeOK
<1>8. SlotsOfAgents'
  BY <1>1, <1>2, <1>3 DEF SlotsOfAgents, TypeOK
<1>9. NoneLostYet' /\ PoolSize'
  BY <1>3, <1>5 DEF NoneLostYet, PoolSize, TypeOK
<1> QED
  BY <1>4, <1>5, <1>6, <1>7, <1>8, <1>9

\* The tool gives up: nothing is claimed of its slots any more.
LEMMA DoneStep == IInv /\ (ForkFails \/ NoChildren) => IInv'
<1> SUFFICES ASSUME IInv, ForkFails \/ NoChildren PROVE IInv'
  OBVIOUS
<1>1. pc' = "done" /\ UNCHANGED <<proc, code, mine, pv, i, lost>> /\ r' \in {r, EXIT_FAILURE}
  BY DEF ForkFails, NoChildren, WaitFails
<1>2. TypeOK'
  BY <1>1 DEF IInv, TypeOK, AgentsTypeOK
<1> QED
  BY <1>1, <1>2
     DEF IInv, AgentsExist, SlotsAreOwn, SlotsOfAgents, NoneLostYet, PoolSize

LEMMA EnvironmentStep == IInv /\ Environment => IInv'
<1> SUFFICES ASSUME IInv, Environment PROVE IInv'
  OBVIOUS
<1> USE DEF IInv
<1>1. PICK p \in Pid : Exit(p) \/ Kill(p)
  BY DEF Environment
<1>2. /\ proc[p] = "live"
      /\ \E st \in {"exited", "killed"} : proc' = [proc EXCEPT ![p] = st]
      /\ code' \in [Pid -> Codes \cup {EXIT_SUCCESS}]
      /\ UNCHANGED <<mine, pc, pv, i, r, lost>>
  BY <1>1 DEF Exit, Kill, Environment, TypeOK, AgentsTypeOK
<1>3. TypeOK'
  BY <1>2 DEF TypeOK, AgentsTypeOK
<1>4. AgentsExist' /\ SlotsAreOwn'
  BY <1>2 DEF AgentsExist, SlotsAreOwn, TypeOK, AgentsTypeOK
<1>5. SlotsOfAgents' /\ NoneLostYet' /\ PoolSize'
  BY <1>2 DEF SlotsOfAgents, NoneLostYet, PoolSize
<1> QED
  BY <1>2, <1>3, <1>4, <1>5

-----------------------------------------------------------------------------
LEMMA NextHolds == IInv /\ [Next]_vars => IInv'
<1> SUFFICES ASSUME IInv, [Next]_vars PROVE IInv'
  OBVIOUS
<1>1. CASE UNCHANGED vars
  BY <1>1 DEF vars, IInv, TypeOK, AgentsTypeOK, AgentsExist, SlotsAreOwn,
              SlotsOfAgents, NoneLostYet, PoolSize
<1>2. CASE Terminated
  BY <1>1, <1>2 DEF Terminated
<1>3. CASE Parent
  BY <1>3, LaunchStep, AgentExitedStep, OtherExitedStep, AgentKilledStep,
     RespawnStep, DoneStep DEF Parent
<1>4. CASE Environment
  BY <1>4, EnvironmentStep
<1> QED
  BY <1>1, <1>2, <1>3, <1>4 DEF Next

LEMMA Invariance == Spec => []IInv
<1> QED
  BY InitHolds, NextHolds, PTL DEF Spec

(***************************************************************************)
(* The variables keep their types; in particular the index of a slot never *)
(* leaves the vector, and no more agents are lost than there are slots     *)
(* (diag-pool.c:69-80).                                                    *)
(***************************************************************************)
THEOREM PoolTypeOK == Spec => []TypeOK
<1>1. IInv => TypeOK
  BY DEF IInv
<1> QED
  BY <1>1, Invariance, PTL

(***************************************************************************)
(* The waiting pool has a slot for each of its agents, so that it notices  *)
(* whichever exits (diag-pool.c:73-80, system.c:510-528).                  *)
(***************************************************************************)
THEOREM PoolTracksAll == Spec => []AllTracked
<1>1. IInv => AllTracked
  BY DEF IInv, SlotsOfAgents, AllTracked
<1> QED
  BY <1>1, Invariance, PTL

(***************************************************************************)
(* The pool has one agent per slot, short of those killed: it is never too *)
(* large, and each agent that exits is replaced by exactly one             *)
(* (diag-pool.c:69-80).                                                    *)
(***************************************************************************)
THEOREM PoolHasItsSize == Spec => []PoolSize
<1>1. IInv => PoolSize
  BY DEF IInv
<1> QED
  BY <1>1, Invariance, PTL
=============================================================================
