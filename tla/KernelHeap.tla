----------------------------- MODULE KernelHeap -----------------------------
(***************************************************************************)
(* The heap as the kernel itself uses it: the stacks and TCBs of threads   *)
(* and the Sem objects that system calls allocate and free                 *)
(* (src/src/riscv.cpp, tcb.cpp, Semaphore.cpp), between the allocations    *)
(* and releases of clients.  A thread takes two blocks, and the second     *)
(* allocation may fail.                                                    *)
(***************************************************************************)
EXTENDS MemoryAllocator

CONSTANTS
  StackSize, TcbSize, SemSize,  \* DEFAULT_STACK_SIZE, sizeof(TCB), sizeof(Sem)
  NoBlock                       \* an address that mem_alloc never returns

(* The objects are far smaller than size_t can count (4096 bytes the      *)
(* largest), so that rounding their sizes up to blocks does not wrap.      *)
ASSUME ObjectAssumption ==
  /\ {StackSize, TcbSize, SemSize} \subseteq 1..(Modulus - Block)
  /\ NoBlock \in HeapStart..(HeapStart + Header - 1)

VARIABLES
  threads,  \* the threads created and not deleted: a TCB and its field stack
  sems,     \* the Sem objects
  leaked    \* history: stacks whose TCB could not be allocated

kernelVars == <<threads, sems, leaked>>

HeapInit == Init /\ threads = {} /\ sems = {} /\ leaked = {}

(* The memory that only the kernel uses. *)
KernelMemory ==
  UNION {{t.tcb, t.stack - StackSize} : t \in threads} \cup sems \cup leaked

-----------------------------------------------------------------------------
ClientAlloc == (\E size \in Requests : MemAlloc(size)) /\ UNCHANGED kernelVars

(* Clients free what they got, or pass an address that nobody got. *)
ClientFree ==
  /\ \E p \in (DOMAIN owned \ KernelMemory) \cup {Null, NoBlock} : MemFree(p)
  /\ UNCHANGED kernelVars

(* thread_create, 0x11, and thread_create_only, 0x0F: the stack, then the  *)
(* TCB, which remembers the stack's end.  If there is no room for the TCB  *)
(* the call returns 0 all the same and the stack is nobody's: operator new *)
(* may not return nullptr, so that nothing tests it.  (The constructor     *)
(* then writes to address 0; what follows from this is left out.)          *)
ThreadCreate ==
  LET stack == Pointer(heap, StackSize)
      first == Allocated(heap, StackSize)
      tcb == Pointer(first, TcbSize)
  IN  /\ stack # Null
      /\ Becomes(Allocated(first, TcbSize))
      /\ IF tcb = Null
         THEN /\ leaked' = leaked \cup {stack}
              /\ owned' = With(owned, stack, StackSize)
              /\ UNCHANGED threads
         ELSE /\ threads' = threads \cup {[tcb |-> tcb, stack |-> stack + StackSize]}
              /\ owned' = With(With(owned, stack, StackSize), tcb, TcbSize)
              /\ UNCHANGED leaked
      /\ UNCHANGED sems

(* No room for the stack: the call returns -1. *)
ThreadCreateFails ==
  /\ Pointer(heap, StackSize) = Null
  /\ UNCHANGED <<heapVars, kernelVars>>

(* ~TCB frees the stack, counting back from its end; operator delete then  *)
(* frees the TCB.                                                          *)
DestroyedFromEnd(h, t) == Freed(Freed(h, t.stack), t.tcb)
Destroyed(h, t) == Freed(Freed(h, t.stack - StackSize), t.tcb)

(* thread_delete_only, 0x0E *)
ThreadDelete(t) ==
  /\ Becomes(Destroyed(heap, t))
  /\ threads' = threads \ {t}
  /\ owned' = [p \in DOMAIN owned \ {t.tcb, t.stack - StackSize} |-> owned[p]]
  /\ UNCHANGED <<sems, leaked>>

(* sem_open, 0x21 *)
SemOpen ==
  LET sem == Pointer(heap, SemSize)
  IN  /\ Becomes(Allocated(heap, SemSize))
      /\ IF sem = Null
         THEN UNCHANGED <<sems, owned>>
         ELSE sems' = sems \cup {sem} /\ owned' = With(owned, sem, SemSize)
      /\ UNCHANGED <<threads, leaked>>

(* sem_close, 0x22: *handle is read from the Sem that handle points to, so *)
(* that what is freed is not the Sem (see SemClose of Kernel).             *)
SemClose ==
  /\ sems # {}
  /\ Becomes(Freed(heap, NoBlock))
  /\ UNCHANGED <<owned, kernelVars>>

HeapNext ==
  \/ ClientAlloc \/ ClientFree
  \/ ThreadCreate \/ ThreadCreateFails
  \/ \E t \in threads : ThreadDelete(t)
  \/ SemOpen \/ SemClose

HeapSpec == HeapInit /\ [][HeapNext]_<<heapVars, kernelVars>>
=============================================================================
