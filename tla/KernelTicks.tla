---------------------------- MODULE KernelTicks -----------------------------
(***************************************************************************)
(* Kernel's countdowns count the timer interrupts the kernel handles.      *)
(* Here a history variable counts the ticks of the timer itself.           *)
(***************************************************************************)
EXTENDS KernelClock

(* Ticks of the timer that have to pass before the sleeper may wake: set   *)
(* by time_sleep, decremented when the timer raises SSIP.  A tick that is  *)
(* pending when the thread falls asleep is counted as the first.           *)
VARIABLE owed

ClockInit == Init /\ owed = [t \in Thread |-> 0]

OneLess(n) == IF n > 0 THEN n - 1 ELSE 0

ClockNext ==
  \/ /\ RaiseTimer
     /\ owed' = [t \in Thread |-> IF t \in sleeping THEN OneLess(owed[t]) ELSE 0]
  \/ \E time \in 1..MaxSleep :
       /\ TimeSleep(time)
       /\ owed' = [owed EXCEPT ![running] = IF ssip THEN time - 1 ELSE time]
  \/ /\ Next
     /\ sleeping' \subseteq sleeping
     /\ ssip' => ssip
     /\ owed' = [t \in Thread |-> IF t \in sleeping' THEN owed[t] ELSE 0]

ClockSpec == ClockInit /\ [][ClockNext]_<<vars, owed>>

(* time_sleep(n) sleeps for n periods of the timer: the kernel never has   *)
(* less on a sleeper's countdown than the timer still owes it.             *)
NoEarlyWakeup ==
  \A t \in Range(sleepQ) : Remaining[t] >= owed[t]
=============================================================================
