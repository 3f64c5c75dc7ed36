------------------------------ MODULE Console -------------------------------
(***************************************************************************)
(* The console: the two kBuffers between the client threads and the        *)
(* device (src/src/kBuffer.cpp, Console.cpp), the system calls getc, putc  *)
(* and 0xFE and the console interrupt (src/src/riscv.cpp), on top of       *)
(* Kernel's threads, scheduler, semaphores and timer.                      *)
(*                                                                         *)
(*   putc  puts into "out"     0xFE (kProducer) gets from "out" and sends  *)
(*   rx    puts into "in"      getc             gets from "in"             *)
(*                                                                         *)
(* put() and get() are cut at their semaphore operations, because a thread *)
(* may lose the processor in each wait().  The labels of pc are named for  *)
(* the operation that comes next.  A local variable that is dead when its  *)
(* function has returned is reset, to tell no more states apart.           *)
(***************************************************************************)
EXTENDS Kernel

CONSTANTS
  Char, NoChar, \* what can be written to the console
  Written,      \* bound: the characters that clients write to it
  Typed,        \* bound: the characters that may arrive from it
  Cap,          \* the argument of kBuffer(); the array has one place more
  BootText      \* the characters of the boot message in "out" at first

Buffer == {"out", "in"}
Mutex  == {"head", "tail"}
SemsOf == Buffer \X ({"item", "space"} \cup Mutex)

ASSUME ConsoleAssumption ==
  /\ IsFiniteSet(Thread) \* the heap ends somewhere
  /\ Cap \in Nat \ {0} /\ BootText \in Seq(Char) /\ Len(BootText) <= Cap
  /\ NoChar \notin Char /\ Written \cup Typed \subseteq Char
  /\ KernelSem = SemsOf /\ itemAvailable = <<"out", "item">>
  /\ \A b \in Buffer :
       LET n == IF b = "out" THEN Len(BootText) ELSE 0
       IN  /\ BootVal[<<b, "item">>] = n /\ BootVal[<<b, "space">>] = Cap - n
           /\ BootVal[<<b, "head">>] = 1 /\ BootVal[<<b, "tail">>] = 1

VARIABLES
  buffer, head, tail, \* of each kBuffer
  doing,      \* the operation a thread is in
  chr,        \* val in put(), ret in get()
  txReady,    \* CONSOLE_TX_STATUS_BIT
  rxData,     \* the received character, NoChar if CONSOLE_RX_STATUS_BIT is 0
  claimed     \* the PLIC has handed the console's interrupt out

bufferVars == <<buffer, head, tail>>
deviceVars == <<txReady, rxData, claimed>>
callVars   == <<doing, chr>>
consoleVars == <<vars, bufferVars, deviceVars, callVars>>

Operation == {"none", "putc", "getc", "drain", "rx"}
BufferOf(op) == IF op \in {"putc", "drain"} THEN "out" ELSE "in"
Back(op) == CASE op \in {"putc", "getc"} -> "ecall"
              [] op = "drain" -> "send"
              [] op = "rx" -> "rx"

ConsoleInit ==
  /\ Init
  /\ buffer = [b \in Buffer |-> [i \in 0..Cap |->
                 IF b = "out" /\ i < Len(BootText) THEN BootText[i + 1] ELSE NoChar]]
  /\ head = [b \in Buffer |-> 0]
  /\ tail = [b \in Buffer |-> IF b = "out" THEN Len(BootText) ELSE 0]
  /\ doing = [t \in Thread |-> "none"]
  /\ chr = [t \in Thread |-> NoChar]
  /\ txReady = TRUE /\ rxData = NoChar /\ claimed = FALSE

-----------------------------------------------------------------------------
(* kBuffer::put and kBuffer::get by the running thread. *)

(* The index after i.  As in Kernel, a definition that directly precedes    *)
(* one it varies is a mistake that the code could contain.                 *)
AfterUnwrapped(i) == i + 1
AfterCapacity(i) == (i + 1) % Cap
After(i) == (i + 1) % (Cap + 1)

Of(kind) == <<BufferOf(doing[running]), kind>>

AwaitAt(from, kind, next) ==
  /\ pc[running] = from
  /\ Wait(Of(kind), next)
  /\ UNCHANGED <<bufferVars, deviceVars, callVars>>

SignalAt(from, kind, next) ==
  /\ pc[running] = from
  /\ Signal(Of(kind)) /\ SignalFrame
  /\ GoTo(next)
  /\ UNCHANGED deviceVars

PutSpace == AwaitAt("put_space", "space", "put_tail")
PutTailByHead == AwaitAt("put_tail", "head", "put_write")
PutTail  == AwaitAt("put_tail", "tail", "put_write")

PutWrite ==
  LET b == BufferOf(doing[running])
  IN  /\ SignalAt("put_write", "tail", "put_item")
      /\ buffer' = [buffer EXCEPT ![b][tail[b]] = chr[running]]
      /\ tail' = [tail EXCEPT ![b] = After(@)]
      /\ UNCHANGED <<head, callVars>>

PutItem ==
  /\ SignalAt("put_item", "item", Back(doing[running]))
  /\ doing' = [doing EXCEPT ![running] = "none"]
  /\ chr' = [chr EXCEPT ![running] = NoChar]
  /\ UNCHANGED bufferVars

GetItem == AwaitAt("get_item", "item", "get_head")
GetHead == AwaitAt("get_head", "head", "get_read")

GetRead ==
  LET b == BufferOf(doing[running])
  IN  /\ SignalAt("get_read", "head", "get_space")
      /\ chr' = [chr EXCEPT ![running] = buffer[b][head[b]]]
      /\ head' = [head EXCEPT ![b] = After(@)]
      /\ UNCHANGED <<buffer, tail, doing>>

GetSpaceAsItem ==
  /\ SignalAt("get_space", "item", Back(doing[running]))
  /\ doing' = [doing EXCEPT ![running] = "none"]
  /\ chr' = [chr EXCEPT ![running] = IF doing[running] = "drain" THEN @ ELSE NoChar]
  /\ UNCHANGED bufferVars
GetSpace ==
  /\ SignalAt("get_space", "space", Back(doing[running]))
  /\ doing' = [doing EXCEPT ![running] = "none"]
  /\ chr' = [chr EXCEPT ![running] = IF doing[running] = "drain" THEN @ ELSE NoChar]
  /\ UNCHANGED bufferVars

-----------------------------------------------------------------------------
(* The running thread enters operation op at label l. *)
Enter(op, l, c) ==
  /\ GoTo(l)
  /\ doing' = [doing EXCEPT ![running] = op]
  /\ chr' = [chr EXCEPT ![running] = c]
  /\ UNCHANGED <<cpuVars, threadVars, semVars, sleepVars, joinTarget, ssip, bufferVars>>

(* putc, 0x42 and getc, 0x41 *)
PutcCall(c) == ClientCalls /\ Enter("putc", "put_space", c) /\ UNCHANGED deviceVars
GetcCall    == ClientCalls /\ Enter("getc", "get_item", NoChar) /\ UNCHANGED deviceVars

(* kProducer makes 0xFE, which loops while the transmitter is ready. *)
DrainCall ==
  /\ running = kProd /\ pc[kProd] = "user"
  /\ Enter("none", "drain", NoChar) /\ UNCHANGED deviceVars

DrainUntested ==
  /\ pc[running] = "drain"
  /\ Enter("drain", "get_item", NoChar)
  /\ UNCHANGED deviceVars
DrainTest ==
  /\ pc[running] = "drain"
  /\ \/ txReady /\ Enter("drain", "get_item", NoChar)
     \/ ~txReady /\ Enter("none", "user", NoChar)
  /\ UNCHANGED deviceVars

(* The character got from the buffer is written to CONSOLE_TX_DATA. *)
Send ==
  /\ pc[running] = "send"
  /\ Enter("none", "drain", NoChar)
  /\ txReady' = FALSE
  /\ UNCHANGED <<rxData, claimed>>

(* hInterruptHardware: claim, the loop over received characters, complete. *)
InterruptHardware ==
  /\ pc[running] = "user"
  /\ rxData # NoChar /\ ~claimed
  /\ Enter("none", "rx", NoChar)
  /\ claimed' = TRUE
  /\ UNCHANGED <<txReady, rxData>>

ReceiveUncompleted ==
  /\ pc[running] = "rx"
  /\ \/ rxData # NoChar /\ Enter("rx", "put_space", rxData) /\ rxData' = NoChar
     \/ rxData = NoChar /\ Enter("none", "user", NoChar) /\ UNCHANGED rxData
  /\ UNCHANGED <<claimed, txReady>>
Receive ==
  /\ pc[running] = "rx"
  /\ \/ /\ rxData # NoChar
        /\ Enter("rx", "put_space", rxData)
        /\ rxData' = NoChar
        /\ UNCHANGED claimed
     \/ /\ rxData = NoChar
        /\ Enter("none", "user", NoChar)
        /\ claimed' = FALSE
        /\ UNCHANGED rxData
  /\ UNCHANGED txReady

-----------------------------------------------------------------------------
(* The device (external): it finishes sending, and characters arrive. *)
Contents(b) ==
  [i \in 1..((tail[b] - head[b] + Cap + 1) % (Cap + 1)) |->
     buffer[b][(head[b] + i - 1) % (Cap + 1)]]

TransmitterReady ==
  /\ txReady' = TRUE
  /\ UNCHANGED <<vars, rxData, claimed, bufferVars, callVars>>

Arrive(c) ==
  /\ rxData = NoChar
  /\ rxData' = c
  /\ UNCHANGED <<vars, txReady, claimed, bufferVars, callVars>>

-----------------------------------------------------------------------------
BufferStep ==
  \/ PutSpace \/ PutTail \/ PutWrite \/ PutItem
  \/ GetItem \/ GetHead \/ GetRead \/ GetSpace

(* Kernel's steps besides its own view of the console. *)
Scheduling ==
  /\ ClientSyscall \/ KernelStep \/ RaiseTimer \/ InterruptTimer
  /\ UNCHANGED <<bufferVars, deviceVars, callVars>>

ConsoleNext ==
  \/ Scheduling \/ BufferStep
  \/ \E c \in Written : PutcCall(c)
  \/ \E c \in Typed : Arrive(c)
  \/ GetcCall
  \/ DrainCall \/ DrainTest \/ Send
  \/ InterruptHardware \/ Receive
  \/ TransmitterReady

ConsoleSpec == ConsoleInit /\ [][ConsoleNext]_consoleVars

(* dispatch() hands idle out when nobody is ready, also when the interrupt *)
(* routine has blocked idle in put() because "in" was full.  Idle then     *)
(* runs on without the place it waited for, and a later signal puts it     *)
(* into the ready queue although it is running, so that the list links it  *)
(* twice.  KeptSpec has the behaviours of ConsoleSpec in which this does   *)
(* not happen, and so every behaviour up to the step where it does.        *)
IdleKept == running \notin blocked
KeptNext == ConsoleNext /\ IdleKept'
KeptSpec == ConsoleInit /\ [][KeptNext]_consoleVars

(* Kernel code with interrupts masked. *)
MaskedStep ==
  \/ KernelStep /\ UNCHANGED <<bufferVars, deviceVars, callVars>>
  \/ BufferStep \/ DrainTest \/ Send \/ Receive

(* As in Kernel: code that runs with interrupts masked goes on, and the    *)
(* timer is taken.  kProducer's loop, kernel code in user mode, makes its  *)
(* call each time it has the processor, and the transmitter gets ready.    *)
ConsoleFairness ==
  /\ WF_consoleVars(MaskedStep)
  /\ SF_consoleVars(DrainCall)
  /\ WF_consoleVars(TransmitterReady)
  /\ WF_consoleVars(RaiseTimer /\ UNCHANGED <<bufferVars, deviceVars, callVars>>)
  /\ SF_consoleVars(InterruptTimer /\ UNCHANGED <<bufferVars, deviceVars, callVars>>)
  /\ SF_consoleVars(InterruptHardware)

FairKeptSpec == KeptSpec /\ ConsoleFairness

-----------------------------------------------------------------------------
(* Properties *)

ConsolePC ==
  {"new", "user", "ecall", "timer", "join", "drain", "done", "send", "rx",
   "put_space", "put_tail", "put_write", "put_item",
   "get_item", "get_head", "get_read", "get_space"}

(* Every variable of the console keeps its type; the indices stay in the   *)
(* array and no character is taken from a place that was never written.    *)
ConsoleTypeOK ==
  /\ pc \in [Thread -> ConsolePC]
  /\ buffer \in [Buffer -> [0..Cap -> Char \cup {NoChar}]]
  /\ head \in [Buffer -> 0..Cap] /\ tail \in [Buffer -> 0..Cap]
  /\ doing \in [Thread -> Operation] /\ chr \in [Thread -> Char \cup {NoChar}]
  /\ txReady \in BOOLEAN /\ claimed \in BOOLEAN
  /\ rxData \in Char \cup {NoChar}
  /\ \A t \in Thread : pc[t] = "send" => chr[t] # NoChar

(* The threads that have been let past a semaphore of b and have not yet   *)
(* done what it was for; a thread still in its queue has not been let past. *)
Past(b, ops, labels) ==
  {t \in Thread \ blocked : doing[t] \in ops /\ BufferOf(doing[t]) = b /\ pc[t] \in labels}

Spent(n) == IF n > 0 THEN n ELSE 0

(* No character and no place is lost or counted twice, whichever threads   *)
(* are inside put() and get(): the ring holds what itemAvailable counts,   *)
(* what getters have claimed and what putters have still to announce, and  *)
(* the same for its free places and spaceAvailable.                        *)
TokensMatchRing ==
  \A b \in Buffer :
    LET put == {"putc", "rx"}  get == {"getc", "drain"}
    IN  /\ Len(Contents(b)) = Spent(val[<<b, "item">>])
                             + Cardinality(Past(b, get, {"get_head", "get_read"}))
                             + Cardinality(Past(b, put, {"put_item"}))
        /\ Cap - Len(Contents(b)) = Spent(val[<<b, "space">>])
                             + Cardinality(Past(b, put, {"put_tail", "put_write"}))
                             + Cardinality(Past(b, get, {"get_space"}))

(* A thread is never preempted, and never waits, between the wait and the  *)
(* signal of a mutex: the mutexes only ever hold off the same masked code. *)
MutexUncontended ==
  \A b \in Buffer, m \in Mutex :
    /\ blockedQ[<<b, m>>] = <<>>
    /\ val[<<b, m>>] = 1 \/ pc[running] \in {"put_write", "get_read"}

(* CONSOLE_TX_DATA is written only when the transmitter is ready, although *)
(* 0xFE reads the status before a get() that may block for long.           *)
SendsWhenReady == \A t \in Thread : pc[t] = "send" => txReady

(* Each kBuffer is a bounded FIFO queue, whichever threads put into it and *)
(* get from it: no character is lost, doubled, reordered or overwritten.   *)
Out == INSTANCE BoundedFifo
         WITH Item <- Char, Capacity <- Cap, Initially <- BootText, queue <- Contents("out")
In == INSTANCE BoundedFifo
         WITH Item <- Char, Capacity <- Cap, Initially <- <<>>, queue <- Contents("in")

(* The output buffer, between putc and kProducer's 0xFE, is such a queue.  *)
OutputIsFifo == Out!Spec

(* The input buffer, between the console interrupt and getc, is one.       *)
InputIsFifo == In!Spec


(* A received character is taken from the device, unless threads polling   *)
(* in join keep the interrupts masked for ever, or the interrupt routine   *)
(* waits for ever, its claim open, for a place in the full input buffer.   *)
InputIsTaken ==
  []<>(pc[running] = "user") /\ []<>(val[<<"in", "space">>] >= 0)
    => (rxData # NoChar ~> rxData = NoChar)

(* The producers never put more characters into a buffer than it has room  *)
(* for: itemAvailable counts at most the capacity.                         *)
CapacityKept == \A b \in Buffer : val[<<b, "item">>] <= Cap
=============================================================================
