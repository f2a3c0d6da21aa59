------------------------------ MODULE Iteration ------------------------------
(***************************************************************************)
(* What diag-fix and diag-times promise, whatever files and processes they *)
(* use: starting from an input they apply the command to its own output a  *)
(* given number of times, or until it changes nothing, or they give up.    *)
(***************************************************************************)
EXTENDS Naturals

CONSTANT Data

VARIABLES
  f,        \* the command
  start,    \* the input
  times,    \* how often to apply it; 0 for until a fixed point is reached
  x,        \* the value reached
  n,        \* how many times the command has been applied
  outcome   \* "running", "success" or "failure"

vars == <<f, start, times, x, n, outcome>>

Init ==
  /\ f \in [Data -> Data]
  /\ start \in Data
  /\ times \in Nat
  /\ x = start
  /\ n = 0
  /\ outcome = "running"

Reached == IF times = 0 THEN f[x] = x ELSE n = times

Apply ==
  /\ outcome = "running"
  /\ ~Reached
  /\ x' = f[x]
  /\ n' = n + 1
  /\ UNCHANGED <<f, start, times, outcome>>

Succeed ==
  /\ outcome = "running"
  /\ Reached
  /\ outcome' = "success"
  /\ UNCHANGED <<f, start, times, x, n>>

GiveUp ==
  /\ outcome = "running"
  /\ outcome' = "failure"
  /\ UNCHANGED <<f, start, times, x, n>>

Next == Apply \/ Succeed \/ GiveUp

Spec == Init /\ [][Next]_vars
=============================================================================
