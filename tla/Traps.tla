------------------------------- MODULE Traps --------------------------------
(***************************************************************************)
(* What a trap saves and what it restores: the assembly stubs              *)
(* (src/src/handleExcAndEcall.S, handleInterruptTimer.S,                   *)
(* handleInterruptHardware.S), the registers sepc and sstatus that the     *)
(* handlers of src/src/riscv.cpp read and write, and the context switches  *)
(* in between.  Kernel takes for granted that a thread goes on where it    *)
(* was; here is why it does.                                               *)
(*                                                                         *)
(* A trap stores the thread's registers on its own stack and its pc in     *)
(* sepc, of which there is one.  While the handler waits in dispatch()     *)
(* other threads trap and return, so sepc has to be copied at once and     *)
(* written back at the end.  Which thread gets the processor is left open. *)
(***************************************************************************)
EXTENDS Naturals

CONSTANTS
  Thread,
  main,          \* stays in the kernel, in TCB::join
  Length,        \* bound: the instructions of a thread's code, a loop
  Result, Junk   \* what a handler leaves in a register: its result, or anything

ASSUME TrapsAssumption ==
  /\ main \in Thread /\ Length \in Nat \ {0}
  /\ Result \notin Thread /\ Junk \notin Thread /\ Result # Junk

VARIABLES
  running, at,   \* the current thread, and where each thread is
  pc, a0, x,     \* the program counter, register a0, and the other registers
  mode,          \* the privilege mode: "U" or "S"
  sepc, spp,     \* control registers: sepc and sstatus.SPP
  frame,         \* the registers that a thread's stub has put on its stack
  saved,         \* a handler's locals, the copies of sepc and of sstatus.SPP
  left           \* history: pc, mode and registers of a thread at its last trap

csrVars == <<sepc, spp>>
cpuVars == <<pc, a0, x, mode>>
vars == <<running, at, cpuVars, csrVars, frame, saved, left>>

(* A thread's code, and an address in it. *)
Address == Thread \X (0..(Length - 1))
Entry(t) == <<t, 0>>
After(i) == <<i[1], (i[2] + 1) % Length>>

Interrupt == {"timer", "external"}
Handler == Interrupt \cup {"ecall", "fault"}

Init ==
  /\ running = main
  /\ at = [t \in Thread |-> IF t = main THEN "kernel" ELSE "new"]
  /\ pc = Entry(main) /\ a0 = Junk /\ x = Junk /\ mode = "S"
  /\ sepc = Entry(main) /\ spp \in {"U", "S"}
  /\ frame = [t \in Thread |-> [a0 |-> Junk, x |-> Junk]]
  /\ saved = [t \in Thread |-> [sepc |-> Entry(t), spp |-> "U"]]
  /\ left = [t \in Thread |-> [pc |-> Entry(t), mode |-> "U", a0 |-> Junk, x |-> Junk]]

Moves(l) == at' = [at EXCEPT ![running] = l]

-----------------------------------------------------------------------------
(* User code runs an instruction and has registers of its own. *)
Execute ==
  /\ at[running] = "user"
  /\ pc' = After(pc) /\ a0' = running /\ x' = running
  /\ UNCHANGED <<running, at, mode, csrVars, frame, saved, left>>

(* The hardware enters the handler through jumpTable, the stub stores the  *)
(* registers, and the handler copies what it will restore.                 *)
Trap(h, return) ==
  /\ at[running] = "user"
  /\ Moves(h)
  /\ sepc' = pc /\ spp' = mode /\ mode' = "S"
  /\ frame' = [frame EXCEPT ![running] = [a0 |-> a0, x |-> x]]
  /\ left' = [left EXCEPT ![running] = [pc |-> pc, mode |-> mode, a0 |-> a0, x |-> x]]
  /\ saved' = [saved EXCEPT ![running] = [sepc |-> return, spp |-> spp']]
  /\ a0' = Junk /\ x' = Junk
  /\ UNCHANGED <<running, pc>>

(* hExcAndEcall skips the ecall instruction. *)
EcallAgain == Trap("ecall", pc)
Ecall == Trap("ecall", After(pc))

InterruptBy(h) == Trap(h, pc)

(* An illegal instruction or another exception: hExcAndEcall copies        *)
(* sstatus only, and makes no use of it.                                   *)
Fault ==
  /\ at[running] = "user"
  /\ Moves("fault")
  /\ sepc' = pc /\ spp' = mode /\ mode' = "S"
  /\ frame' = [frame EXCEPT ![running] = [a0 |-> a0, x |-> x]]
  /\ left' = [left EXCEPT ![running] = [pc |-> pc, mode |-> mode, a0 |-> a0, x |-> x]]
  /\ a0' = Junk /\ x' = Junk
  /\ UNCHANGED <<running, pc, saved>>

(* TCB::dispatch, called by a system call, the timer, the put() of the     *)
(* console interrupt or of a fault's message, or by main.                  *)
Dispatch(t) ==
  /\ at[running] \in Handler \cup {"kernel"}
  /\ t # running
  /\ running' = t
  /\ UNCHANGED <<at, cpuVars, csrVars, frame, saved, left>>

-----------------------------------------------------------------------------
(* sret *)
Sret == pc' = sepc' /\ mode' = spp'

(* popSppSpie, called at the start of threadWrapper: the thread's code     *)
(* begins at the call's return address.                                    *)
StartInMode ==
  /\ at[running] = "new"
  /\ sepc' = Entry(running) /\ spp' = spp
  /\ Sret
  /\ Moves("user")
  /\ UNCHANGED <<running, a0, x, frame, saved, left>>
Start ==
  /\ at[running] = "new"
  /\ sepc' = Entry(running) /\ spp' = "U"
  /\ Sret
  /\ Moves("user")
  /\ UNCHANGED <<running, a0, x, frame, saved, left>>

(* The end of a handler and the rest of the stub: the a0 that the handler  *)
(* leaves is stored into the frame, then the frame is restored.            *)
Leave(h, leaves) ==
  /\ at[running] = h
  /\ Moves("user")
  /\ frame' = [frame EXCEPT ![running].a0 = leaves]
  /\ a0' = leaves /\ x' = frame[running].x
  /\ Sret
  /\ UNCHANGED <<running, saved, left>>

(* w_sepc and w_sstatus; without them sret uses what is there. *)
Restore == sepc' = saved[running].sepc /\ spp' = saved[running].spp

LeaveEcall == Restore /\ Leave("ecall", Result)

LeaveUnrestored(h) == UNCHANGED csrVars /\ Leave(h, Junk)
LeaveInterrupt(h) == Restore /\ Leave(h, Junk)

LeaveFault == UNCHANGED csrVars /\ Leave("fault", Junk)

Next ==
  \/ Execute
  \/ Ecall \/ Fault \/ \E h \in Interrupt : InterruptBy(h)
  \/ \E t \in Thread : Dispatch(t)
  \/ Start \/ LeaveEcall \/ LeaveFault
  \/ \E h \in Interrupt : LeaveInterrupt(h)

Spec == Init /\ [][Next]_vars

-----------------------------------------------------------------------------
(* Properties *)

Leaves(t, H) == at[t] \in H /\ at'[t] = "user"

(* Whatever other threads did in the meantime, be it to trap, to start or  *)
(* to fault: a thread returns from a system call behind its ecall, with    *)
(* the result in a0, and from an interrupt to the instruction that it has  *)
(* not executed yet; in the mode it was in and with its registers (after   *)
(* an interrupt, a0 apart).                                                *)
ResumesAfterTrap ==
  [][\A t \in Thread :
       /\ Leaves(t, {"ecall"}) => pc' = After(left[t].pc) /\ a0' = Result
       /\ Leaves(t, Interrupt) => pc' = left[t].pc
       /\ Leaves(t, Interrupt \cup {"ecall"}) => mode' = left[t].mode /\ x' = left[t].x]_vars

(* No thread gets out of the kernel in system mode, not even the first one *)
(* to start, and not after a fault.                                        *)
ClientsInUserMode == at[running] = "user" <=> mode = "U"

(* An interrupted thread has all its registers back. *)
InterruptKeepsRegisters ==
  [][\A t \in Thread : Leaves(t, Interrupt) => a0' = left[t].a0 /\ x' = left[t].x]_vars
=============================================================================
