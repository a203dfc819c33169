--------------------------- MODULE SizingScheduler ---------------------------
(***************************************************************************)
(* FairLatestOnlySizingScheduler (strategy_runtime.rs): at most one running *)
(* and one pending sizing snapshot per strategy, dispatched round-robin to  *)
(* a bounded number of workers.  Strategies are numbered in the order of    *)
(* their ids.  A snapshot is the loop iteration it was taken in, which only *)
(* matters while it is pending, so the model keeps whether there is one.    *)
(***************************************************************************)
EXTENDS Naturals, FiniteSets

CONSTANTS
  Strategies,       \* how many strategies
  MaximumRunning    \* workers

Index == 0..(Strategies - 1)

VARIABLES
  running,          \* strategies whose slot runs
  pending,          \* strategies with a pending snapshot
  next_index        \* where take_ready starts looking

slotVars == <<running, pending, next_index>>

SlotInit == running = {} /\ pending = {} /\ next_index = 0

(* take_ready: the first waiting strategy at or after next_index whose slot *)
(* is free.                                                                 *)
Offset(i) == (i + Strategies - next_index) % Strategies
Takable(free) == {i \in pending : i \notin free}
FirstWaiting(i, busy) ==
  /\ i \in Takable(busy)
  /\ \A j \in Takable(busy) : Offset(i) <= Offset(j)

(* Mutant: the search always starts at the first strategy.                  *)
take_from_first(i) == next_index' = next_index
advance(i) == next_index' = (i + 1) % Strategies

(* submit: the end of a loop iteration; the latest snapshot wins.           *)
Submit(i) ==
  /\ i \notin pending
  /\ pending' = pending \cup {i}
  /\ UNCHANGED <<running, next_index>>

(* The loop takes ready jobs after every event and after every result.      *)
TakeReady(i) ==
  /\ Cardinality(running) < MaximumRunning
  /\ FirstWaiting(i, running)
  /\ running' = running \cup {i} /\ pending' = pending \ {i}
  /\ advance(i)

(* complete: the worker's result has been applied.                          *)
Complete(i) ==
  /\ i \in running
  /\ running' = running \ {i}
  /\ UNCHANGED <<pending, next_index>>

SlotNext == \E i \in Index : Submit(i) \/ TakeReady(i) \/ Complete(i)

(* Workers finish, and the loop takes what is ready before it waits again.  *)
SlotFairness ==
  /\ WF_slotVars(\E i \in Index : TakeReady(i))
  /\ \A i \in Index : WF_slotVars(Complete(i))
SlotSpec == SlotInit /\ [][SlotNext]_slotVars /\ SlotFairness

(* However often the other strategies submit, a pending snapshot is given a *)
(* worker: no strategy reacquires workers ahead of a quieter one for ever.  *)
QuietStrategyRuns == \A i \in Index : i \in pending ~> i \in running
=============================================================================
