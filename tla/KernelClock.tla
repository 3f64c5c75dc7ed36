---------------------------- MODULE KernelClock -----------------------------
(***************************************************************************)
(* The sleep list of relative times implements one countdown per sleeper   *)
(* (SleepClock).                                                           *)
(***************************************************************************)
EXTENDS Kernel

(* The countdown of a sleeper: the sum of the times up to its place. *)
Place(t) == CHOOSE k \in 1..Len(sleepQ) : sleepQ[k] = t
Remaining == [t \in Range(sleepQ) |-> TicksUntil[Place(t)]]

Clock == INSTANCE SleepClock WITH remaining <- Remaining

(* Every insertion into and every tick of the sleep list is, for all       *)
(* sleepers at once, what separate countdowns would do: nobody's deadline  *)
(* moves when another thread is inserted in front of it or wakes.          *)
KeepsCountdowns == Clock!Spec
=============================================================================
