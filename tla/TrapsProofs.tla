---------------------------- MODULE TrapsProofs -----------------------------
(***************************************************************************)
(* Proofs about Traps, for any number of threads and any length of their   *)
(* code: whatever traps and switches come in between, a thread returns to  *)
(* where it was, and in user mode.                                         *)
(***************************************************************************)
EXTENDS Traps, TLAPS

Mode == {"U", "S"}
Value == Thread \cup {Result, Junk}
Registers == [a0 : Value, x : Value]

TypeInv ==
  /\ running \in Thread /\ at \in [Thread -> {"new", "kernel", "user"} \cup Handler]
  /\ pc \in Address /\ a0 \in Value /\ x \in Value /\ mode \in Mode
  /\ sepc \in Address /\ spp \in Mode
  /\ frame \in [Thread -> Registers]
  /\ saved \in [Thread -> [sepc : Address, spp : Mode]]
  /\ left \in [Thread -> [pc : Address, mode : Mode, a0 : Value, x : Value]]

(* Only the running thread is in user mode.  As soon as one thread has     *)
(* been there, sstatus.SPP says "user" in every handler: that is what a    *)
(* fault, which restores nothing, returns by.                              *)
ModeInv ==
  /\ \A t \in Thread : at[t] = "user" => t = running
  /\ mode = IF at[running] = "user" THEN "U" ELSE "S"
  /\ (\E t \in Thread : at[t] \notin {"new", "kernel"}) => spp = "U"

(* What a thread inside a handler will restore is what it has left. *)
SavedInv ==
  \A t \in Thread :
    at[t] \in Interrupt \cup {"ecall"} =>
      /\ saved[t].spp = "U" /\ left[t].mode = "U"
      /\ saved[t].sepc = IF at[t] = "ecall" THEN After(left[t].pc) ELSE left[t].pc
      /\ frame[t].x = left[t].x

TrapInv == TypeInv /\ ModeInv /\ SavedInv

-----------------------------------------------------------------------------
(* Addresses stay within a thread's code. *)
LEMMA AddressClosed ==
  /\ \A t \in Thread : Entry(t) \in Address
  /\ \A i \in Address : After(i) \in Address
<1>1. \A n \in Nat : (n + 1) % Length \in 0..(Length - 1)
  BY TrapsAssumption
<1>2. 0 \in 0..(Length - 1)
  BY TrapsAssumption
<1> QED BY <1>1, <1>2 DEF Address, Entry, After

(* The state in which main stays in the kernel. *)
LEMMA TrapInit == Init => TrapInv
<1> SUFFICES ASSUME Init PROVE TrapInv
  OBVIOUS
<1> USE TrapsAssumption, AddressClosed DEF Init
<1>1. TypeInv
  BY DEF TypeInv, Mode, Value, Registers
<1>2. ModeInv
  BY DEF ModeInv
<1>3. SavedInv
  BY DEF SavedInv, Interrupt
<1> QED BY <1>1, <1>2, <1>3 DEF TrapInv

(* A trap keeps the invariant if what the handler copies is where the      *)
(* thread is to go on.                                                     *)
LEMMA TrapKeeps ==
  ASSUME TrapInv, NEW h, NEW return, Trap(h, return),
         \/ h = "ecall" /\ return = After(pc)
         \/ h \in Interrupt /\ return = pc
  PROVE  TrapInv'
<1> USE AddressClosed DEF TrapInv, Trap, Moves
<1>1. TypeInv'
  BY DEF TypeInv, Mode, Value, Registers, Handler
<1>2. ModeInv'
  BY DEF TypeInv, ModeInv, Interrupt
<1>3. SavedInv'
  <2> SUFFICES ASSUME NEW t \in Thread, at'[t] \in Interrupt \cup {"ecall"}
               PROVE  /\ saved'[t].spp = "U" /\ left'[t].mode = "U"
                      /\ saved'[t].sepc = IF at'[t] = "ecall" THEN After(left'[t].pc)
                                                              ELSE left'[t].pc
                      /\ frame'[t].x = left'[t].x
    BY DEF SavedInv
  <2>1. CASE t = running
    <3>1. saved'[t] = [sepc |-> return, spp |-> "U"] /\ at'[t] = h
      BY <2>1 DEF TypeInv, ModeInv
    <3>2. left'[t].pc = pc /\ left'[t].mode = "U" /\ left'[t].x = x /\ frame'[t].x = x
      BY <2>1 DEF TypeInv, ModeInv
    <3> QED BY <3>1, <3>2 DEF Interrupt
  <2>2. CASE t # running
    BY <2>2 DEF TypeInv, SavedInv
  <2> QED BY <2>1, <2>2
<1> QED BY <1>1, <1>2, <1>3

(* So does a fault, which copies nothing. *)
LEMMA FaultKeeps == TrapInv /\ Fault => TrapInv'
<1> SUFFICES ASSUME TrapInv, Fault PROVE TrapInv'
  OBVIOUS
<1> USE DEF TrapInv, Fault, Moves
<1>1. TypeInv'
  BY DEF TypeInv, Mode, Value, Registers, Handler
<1>2. ModeInv'
  BY DEF TypeInv, ModeInv
<1>3. SavedInv'
  BY DEF TypeInv, SavedInv, Interrupt
<1> QED BY <1>1, <1>2, <1>3

(* A thread that leaves its handler for user mode, with sret by a status   *)
(* that says so.                                                           *)
LEMMA LeaveKeeps ==
  ASSUME TrapInv, NEW h \in Handler, NEW leaves \in {Result, Junk}, Leave(h, leaves),
         sepc' \in Address, spp' = "U"
  PROVE  TrapInv'
<1> USE DEF TrapInv, Leave, Moves, Sret
<1>1. TypeInv'
  BY DEF TypeInv, Mode, Value, Registers
<1>2. ModeInv'
  BY DEF TypeInv, ModeInv
<1>3. SavedInv'
  BY DEF TypeInv, SavedInv, Interrupt
<1> QED BY <1>1, <1>2, <1>3

(* The other steps. *)
LEMMA StartKeeps == TrapInv /\ Start => TrapInv'
<1> SUFFICES ASSUME TrapInv, Start PROVE TrapInv'
  OBVIOUS
<1> USE AddressClosed DEF TrapInv, Start, Moves, Sret
<1>1. TypeInv'
  BY DEF TypeInv, Mode
<1>2. ModeInv'
  BY DEF TypeInv, ModeInv
<1>3. SavedInv'
  BY DEF TypeInv, SavedInv, Interrupt
<1> QED BY <1>1, <1>2, <1>3

(* An instruction of a client's own code changes only its registers. *)
LEMMA ExecuteKeeps == TrapInv /\ Execute => TrapInv'
<1> SUFFICES ASSUME TrapInv, Execute PROVE TrapInv'
  OBVIOUS
<1> USE AddressClosed DEF TrapInv, Execute, csrVars
<1>1. TypeInv'
  BY DEF TypeInv, Value
<1>2. ModeInv' /\ SavedInv'
  BY DEF ModeInv, SavedInv
<1> QED BY <1>1, <1>2

(* A switch inside a handler moves nothing but the processor. *)
LEMMA DispatchKeeps ==
  ASSUME TrapInv, NEW t \in Thread, Dispatch(t)
  PROVE  TrapInv'
<1> USE DEF TrapInv, Dispatch, cpuVars, csrVars
<1>1. TypeInv' /\ SavedInv'
  BY DEF TypeInv, SavedInv
<1>2. ModeInv'
  BY DEF TypeInv, ModeInv, Handler, Interrupt
<1> QED BY <1>1, <1>2

(* No step of any thread disturbs what another one will restore. *)
LEMMA TrapStep == TrapInv /\ [Next]_vars => TrapInv'
<1> SUFFICES ASSUME TrapInv, [Next]_vars PROVE TrapInv'
  OBVIOUS
<1>1. CASE Execute
  BY <1>1, ExecuteKeeps
<1>2. CASE Ecall
  BY <1>2, TrapKeeps DEF Ecall
<1>3. CASE Fault
  BY <1>3, FaultKeeps
<1>4. ASSUME NEW h \in Interrupt, InterruptBy(h) PROVE TrapInv'
  BY <1>4, TrapKeeps DEF InterruptBy
<1>5. ASSUME NEW t \in Thread, Dispatch(t) PROVE TrapInv'
  BY <1>5, DispatchKeeps
<1>6. CASE Start
  BY <1>6, StartKeeps
<1>7. ASSUME NEW h \in Interrupt \cup {"ecall"}, NEW leaves \in {Result, Junk},
             Restore, Leave(h, leaves)
      PROVE  TrapInv'
  <2>1. sepc' \in Address /\ spp' = "U"
    BY <1>7 DEF TrapInv, TypeInv, SavedInv, Restore, Leave
  <2> QED BY <1>7, <2>1, LeaveKeeps DEF Handler
<1>8. CASE LeaveFault
  <2>1. sepc' \in Address /\ spp' = "U"
    BY <1>8 DEF LeaveFault, Leave, csrVars, TrapInv, TypeInv, ModeInv
  <2> QED BY <1>8, <2>1, LeaveKeeps DEF LeaveFault, Handler
<1>9. CASE UNCHANGED vars
  BY <1>9 DEF vars, cpuVars, csrVars, TrapInv, TypeInv, ModeInv, SavedInv
<1> QED BY <1>1, <1>2, <1>3, <1>4, <1>5, <1>6, <1>7, <1>8, <1>9
        DEF Next, LeaveEcall, LeaveInterrupt

(* The invariant of Traps holds in every reachable state. *)
THEOREM TrapInvariance == Spec => []TrapInv
BY TrapInit, TrapStep, PTL DEF Spec

(* No thread gets out of the kernel in system mode. *)
THEOREM UserMode == Spec => []ClientsInUserMode
<1>1. TrapInv => ClientsInUserMode
  BY DEF TrapInv, ModeInv, ClientsInUserMode
<1> QED BY <1>1, TrapInvariance, PTL

(* A thread returns from a system call behind it, with the result, and     *)
(* from an interrupt to the instruction at which it was interrupted, in    *)
(* both cases in the mode it was in and with its other registers.          *)
THEOREM Resumes == Spec => ResumesAfterTrap
<1> DEFINE Returns ==
      \A t \in Thread :
        /\ Leaves(t, {"ecall"}) => pc' = After(left[t].pc) /\ a0' = Result
        /\ Leaves(t, Interrupt) => pc' = left[t].pc
        /\ Leaves(t, Interrupt \cup {"ecall"}) => mode' = left[t].mode /\ x' = left[t].x
<1>1. TrapInv /\ [Next]_vars => [Returns]_vars
  <2> SUFFICES ASSUME TrapInv, Next, NEW t \in Thread,
                      at[t] \in Interrupt \cup {"ecall"}, at'[t] = "user"
               PROVE  /\ pc' = IF at[t] = "ecall" THEN After(left[t].pc) ELSE left[t].pc
                      /\ mode' = left[t].mode /\ x' = left[t].x
                      /\ at[t] = "ecall" => a0' = Result
    BY DEF Leaves, Interrupt
  <2>1. t = running
    <3>1. \A l : Moves(l) /\ t # running => at'[t] = at[t]
      BY DEF TrapInv, TypeInv, Moves
    <3>2. UNCHANGED at \/ \E l : Moves(l)
      BY DEF Next, Execute, Ecall, InterruptBy, Trap, Fault, Dispatch, Start,
             LeaveEcall, LeaveInterrupt, LeaveFault, Leave
    <3> QED BY <3>1, <3>2 DEF Interrupt
  <2>2. \/ LeaveEcall \/ \E h \in Interrupt : LeaveInterrupt(h)
    BY <2>1 DEF TrapInv, TypeInv, Next, Execute, Ecall, InterruptBy, Trap, Fault, Dispatch,
           Start, LeaveFault, Leave, Moves, Interrupt
  <2> QED BY <2>1, <2>2 DEF TrapInv, SavedInv, LeaveEcall, LeaveInterrupt, Leave,
                            Restore, Sret, Interrupt
<1> QED BY <1>1, TrapInvariance, PTL DEF Spec, ResumesAfterTrap
=============================================================================
