----------------------------- MODULE KernelLife -----------------------------
(***************************************************************************)
(* Each thread of Kernel leads a life as ThreadLife describes it.          *)
(***************************************************************************)
EXTENDS Kernel

(* The state that the flags and the scheduler give a TCB. *)
LifeOf(t) ==
  IF t \notin alive THEN "free"
  ELSE IF t = running THEN "running"
  ELSE IF t \in finished THEN "finished"
  ELSE IF t \in blocked THEN "waiting"
  ELSE IF t \in sleeping THEN "sleeping"
  ELSE IF t \in scheduled THEN "ready"
  ELSE "created"

Lives == [t \in Thread |-> LifeOf(t)]

Life == INSTANCE ThreadLife
          WITH first <- main, Started <- {userMain, idle, kProd}, state <- Lives

(* No thread is run that waits, sleeps or has ended, none is made to wait  *)
(* or to sleep by another, none wakes but by a signal or the timer, and a  *)
(* thread that has ended stays so until it is deleted.                     *)
LivesAreLegal == Life!Spec
=============================================================================
