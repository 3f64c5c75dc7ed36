----------------------------- MODULE SleepClock -----------------------------
(***************************************************************************)
(* What time_sleep promises, with no list: every sleeping thread has a     *)
(* countdown of its own, each timer interrupt takes one off all of them    *)
(* and the threads that reach zero are awake.  Kernel's sleep list keeps   *)
(* relative times instead (KernelClock shows that it implements this).     *)
(***************************************************************************)
EXTENDS Integers

CONSTANTS Thread, MaxSleep

VARIABLE remaining   \* the countdowns of the threads that sleep

Sleepers == DOMAIN remaining

Init == remaining = [t \in {} |-> 0]

FallAsleep(t, time) ==
  /\ t \notin Sleepers
  /\ remaining' = [u \in Sleepers \cup {t} |->
                     IF u = t THEN time ELSE remaining[u]]

Tick ==
  remaining' = [t \in {u \in Sleepers : remaining[u] > 1} |-> remaining[t] - 1]

Next == Tick \/ \E t \in Thread, time \in 1..MaxSleep : FallAsleep(t, time)

Spec == Init /\ [][Next]_remaining
=============================================================================
