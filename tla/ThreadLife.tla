----------------------------- MODULE ThreadLife -----------------------------
(***************************************************************************)
(* What the kernel promises of its threads, one at a time: the states a    *)
(* thread passes through, and who may move it.  Only the running thread    *)
(* can begin to wait, to sleep or end; a thread gets the processor only    *)
(* when it is ready; the end is final until the TCB is deleted.            *)
(***************************************************************************)
CONSTANTS
  Thread,   \* TCB objects
  first,    \* the thread that runs at first
  Started   \* the threads that are ready at first

VARIABLE state

State == {"free", "created", "ready", "running", "waiting", "sleeping", "finished"}

Init == state = [t \in Thread |-> IF t = first THEN "running"
                                  ELSE IF t \in Started THEN "ready" ELSE "free"]

Moves(t, from, to) == state[t] = from /\ state' = [state EXCEPT ![t] = to]

Create(t) == Moves(t, "free", "created") \/ Moves(t, "free", "ready")
Start(t)  == Moves(t, "created", "ready")
Delete(t) == Moves(t, "created", "free") \/ Moves(t, "finished", "free")
Signal(t) == Moves(t, "waiting", "ready")

(* Any number of sleepers wake at once. *)
WakesOrStays(t) ==
  \/ state'[t] = state[t]
  \/ state[t] = "sleeping" /\ state'[t] = "ready"

Wake ==
  /\ state' \in [Thread -> State]
  /\ \A t \in Thread : WakesOrStays(t)

(* The processor passes from r to t.  The sleepers of a timer interrupt    *)
(* wake in the same step, and t may be one of them; r is ready then, and   *)
(* otherwise may have done something else that gives the processor up.     *)
Switch(r, t) ==
  /\ r # t
  /\ state' \in [Thread -> State]
  /\ state[r] = "running" /\ state'[r] \in {"ready", "waiting", "sleeping", "finished"}
  /\ state[t] \in {"ready", "sleeping"} /\ state'[t] = "running"
  /\ \A u \in Thread \ {r, t} : WakesOrStays(u)
  /\ state'[r] # "ready" =>
       \A u \in Thread : state[u] = "sleeping" => state'[u] = "sleeping"

Next ==
  \/ \E t \in Thread : Create(t) \/ Start(t) \/ Delete(t) \/ Signal(t)
  \/ Wake
  \/ \E r, t \in Thread : Switch(r, t)

Spec == Init /\ [][Next]_state
=============================================================================
