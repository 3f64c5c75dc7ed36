------------------------------- MODULE Kernel -------------------------------
(***************************************************************************)
(* The thread core of the kernel: thread control blocks, the FIFO          *)
(* scheduler, semaphores, the sleep list and the timer interrupt           *)
(* (src/src/tcb.cpp, scheduler.cpp, Semaphore.cpp, SleepList.cpp and the   *)
(* handlers of src/src/riscv.cpp), driven by client threads that may make  *)
(* any legal sequence of system calls.                                     *)
(*                                                                         *)
(* The machine has one hart and the kernel is entered with interrupts      *)
(* masked, so everything between a trap and the context switch (or the     *)
(* sret) that ends it is one step.  A thread gives the processor up only   *)
(* inside TCB::dispatch, on its own stack; pc[t] says where it goes on     *)
(* when it gets the processor back:                                        *)
(*   "new"    it starts in threadWrapper                                   *)
(*   "ecall"  it leaves hExcAndEcall and returns to user mode              *)
(*   "timer"  it goes on inside hInterruptTimer, after its dispatch()      *)
(*   "join"   it tests the loop condition of TCB::join again               *)
(*   "drain"  it goes on inside the 0xFE loop (kProducer only)             *)
(*   "user"   it is in user mode; only then are interrupts taken           *)
(*   "done"   main has passed both of its joins                            *)
(***************************************************************************)
EXTENDS Integers, Sequences, Functions, FiniteSets

CONSTANTS
  Thread,         \* the TCB objects the heap has room for
  main, idle, userMain, kProd,  \* the four threads the boot code creates
  NoThread,       \* joinTarget of a thread that is not inside join
  Sem,            \* the Sem objects the heap has room for
  KernelSem,      \* those of the console buffers, which no client can name
  itemAvailable,  \* the output buffer's semaphore, on which kProducer waits
  BootVal,        \* the values of KernelSem when main enters its first join
  TimeSlice,      \* DEFAULT_TIME_SLICE
  MaxSleep,       \* bound: longest time_sleep argument
  MaxVal,         \* bound: a client does not signal a semaphore beyond it
  Bodies,         \* which bodies clients pass: TRUE a function, FALSE nullptr
  Joins,          \* do clients call thread_join?
  SafeDelete      \* do clients delete only threads that cannot run any more?

ASSUME ThreadAssumption ==
  /\ {main, idle, userMain, kProd} \subseteq Thread
  /\ IsInjective(<<main, idle, userMain, kProd>>)
  /\ NoThread \notin Thread
ASSUME SemAssumption ==
  /\ KernelSem \subseteq Sem /\ itemAvailable \in KernelSem
  /\ BootVal \in [KernelSem -> Nat]
ASSUME BoundAssumption ==
  /\ TimeSlice \in Nat \ {0}
  /\ MaxSleep \in Nat /\ MaxVal \in Nat
ASSUME ClientAssumption ==
  Bodies \subseteq BOOLEAN /\ Joins \in BOOLEAN /\ SafeDelete \in BOOLEAN

VARIABLES
  running,          \* TCB::running
  ready,            \* the scheduler's queue, from head to tail
  alive,            \* TCBs that have been constructed and not deleted
  scheduled,        \* history: TCBs given to Scheduler::put since construction
  bodyless,         \* TCBs whose body is nullptr
  finished, blocked, sleeping,       \* TCBs with that flag set
  pc, joinTarget,   \* where a thread goes on, and the thread it is joining
  opened,           \* Sem objects that are allocated
  closed,           \* history: semaphores on which sem_close was called
  val, blockedQ,    \* Sem::val and the queue of TCBs blocked on it
  sleepQ,           \* the sleep list, from head to tail
  sleepTime,        \* ticks after the predecessor in the sleep list
  timeSliceCounter, \* ticks since the last dispatch
  ssip              \* sip.SSIP: a timer interrupt is pending

threadVars == <<alive, scheduled, bodyless, finished, blocked, sleeping>>
semVars    == <<opened, closed, val, blockedQ>>
sleepVars  == <<sleepQ, sleepTime>>
cpuVars    == <<running, ready, timeSliceCounter>>
vars == <<threadVars, semVars, sleepVars, cpuVars, pc, joinTarget, ssip>>

System == {main, idle, kProd}
Client == Thread \ System

-----------------------------------------------------------------------------
(* The state when main, having created the other three, enters its first   *)
(* join.  idle is in the ready queue: createThread(idle) runs before       *)
(* idleThread is assigned.                                                 *)
Init ==
  /\ running = main
  /\ ready = <<userMain, idle, kProd>>
  /\ alive = {main, idle, userMain, kProd}
  /\ scheduled = {main, idle, userMain, kProd}
  /\ bodyless = {main}
  /\ finished = {} /\ blocked = {} /\ sleeping = {}
  /\ pc = [t \in Thread |-> IF t = main THEN "join" ELSE "new"]
  /\ joinTarget = [t \in Thread |-> IF t = main THEN userMain ELSE NoThread]
  /\ opened = KernelSem /\ closed = {}
  /\ val = [s \in Sem |-> IF s \in KernelSem THEN BootVal[s] ELSE 0]
  /\ blockedQ = [s \in Sem |-> <<>>]
  /\ sleepQ = <<>> /\ sleepTime = [t \in Thread |-> 0]
  /\ timeSliceCounter = 0
  /\ ssip = FALSE

-----------------------------------------------------------------------------
(* TCB::dispatch.  rq is the ready queue after what the caller has put     *)
(* into it; the caller has already determined the primed flags.  (The      *)
(* definitions that directly precede one they vary, here and below, are    *)
(* mistakes the code could contain; no action uses them.)                  *)
EligibleWhileBlocked(t)   == t \notin finished' \cup sleeping' \cup {idle}
EligibleWhenFinished(t)   == t \notin blocked' \cup sleeping' \cup {idle}
EligibleOnlyWithBody(t)   == t \notin finished' \cup blocked' \cup sleeping' \cup bodyless'
Eligible(t) == t \notin finished' \cup blocked' \cup sleeping' \cup {idle}

Requeued(rq) == IF Eligible(running) THEN Append(rq, running) ELSE rq

Dispatch(rq) ==
  LET q == Requeued(rq)
  IN  /\ timeSliceCounter' = 0
      /\ \/ /\ q = <<>>
            /\ running' = idle
            /\ ready' = q
         \/ /\ q # <<>>
            /\ Head(q) = running
            /\ running' = idle
            /\ ready' = Append(Tail(q), running)
         \/ /\ q # <<>>
            /\ Head(q) # running
            /\ running' = Head(q)
            /\ ready' = Tail(q)

(* The running thread resumes at label l. *)
GoTo(l) == pc' = [pc EXCEPT ![running] = l]

-----------------------------------------------------------------------------
(* System calls.  A client thread in user mode traps into hExcAndEcall.    *)

InUser(t) == running = t /\ pc[t] = "user"
ClientCalls == running \in Client /\ InUser(running)

(* The TCB constructor. *)
Construct(t, hasBody) ==
  /\ t \in Thread \ alive
  /\ alive' = alive \cup {t}
  /\ bodyless' = IF hasBody THEN bodyless \ {t} ELSE bodyless \cup {t}
  /\ finished' = finished \ {t}
  /\ blocked' = blocked \ {t}
  /\ sleeping' = sleeping \ {t}
  /\ sleepTime' = [sleepTime EXCEPT ![t] = 0]
  /\ pc' = [pc EXCEPT ![t] = "new"]

(* thread_create, 0x11 *)
ThreadCreate(t, hasBody) ==
  /\ ClientCalls
  /\ Construct(t, hasBody)
  /\ ready' = IF hasBody THEN Append(ready, t) ELSE ready
  /\ scheduled' = IF hasBody THEN scheduled \cup {t} ELSE scheduled
  /\ UNCHANGED <<running, timeSliceCounter, semVars, sleepQ, joinTarget, ssip>>

(* thread_create_only, 0x0F *)
ThreadCreateOnly(t, hasBody) ==
  /\ ClientCalls
  /\ Construct(t, hasBody)
  /\ UNCHANGED <<cpuVars, scheduled, semVars, sleepQ, joinTarget, ssip>>

(* thread_schedule_only, 0x10: a client starts a thread once. *)
ThreadScheduleOnly(t) ==
  /\ ClientCalls
  /\ t \in alive \ (scheduled \cup bodyless)
  /\ ready' = Append(ready, t)
  /\ scheduled' = scheduled \cup {t}
  /\ UNCHANGED <<running, timeSliceCounter, alive, bodyless, finished, blocked,
                 sleeping, semVars, sleepVars, pc, joinTarget, ssip>>

(* What SafeDelete clients delete, an assumption on them.  No code checks  *)
(* it, and the tests of the repository do not keep to it.                  *)
MayDelete(t) ==
  SafeDelete => /\ t \in finished \/ t \notin scheduled
                /\ \A u \in Thread : joinTarget[u] # t

(* thread_delete_only, 0x0E.  The handler frees the TCB and its stack      *)
(* whatever the thread is doing.                                           *)
ThreadDeleteOnly(t) ==
  /\ ClientCalls
  /\ t \in (alive \cap Client) \ {running}
  /\ MayDelete(t)
  /\ alive' = alive \ {t}
  /\ scheduled' = scheduled \ {t}
  /\ UNCHANGED <<cpuVars, bodyless, finished, blocked, sleeping, semVars,
                 sleepVars, pc, joinTarget, ssip>>

(* thread_exit, 0x12, also made by threadWrapper when the body returns. *)
ThreadExit ==
  /\ ClientCalls
  /\ finished' = finished \cup {running}
  /\ GoTo("ecall")
  /\ UNCHANGED <<alive, scheduled, bodyless, blocked, sleeping, semVars,
                 sleepVars, joinTarget, ssip>>
  /\ Dispatch(ready)

(* thread_dispatch, 0x13, and every unassigned call number. *)
ThreadDispatch ==
  /\ ClientCalls
  /\ GoTo("ecall")
  /\ UNCHANGED <<threadVars, semVars, sleepVars, joinTarget, ssip>>
  /\ Dispatch(ready)

(* TCB::join: one evaluation of the loop condition; leave is the label     *)
(* behind the loop.                                                        *)
JoinSpins(t, leave, next) ==
  /\ \/ /\ t \in finished
        /\ GoTo(leave)
        /\ joinTarget' = [joinTarget EXCEPT ![running] = next]
        /\ UNCHANGED <<threadVars, cpuVars>>
     \/ /\ t \notin finished
        /\ GoTo("join")
        /\ joinTarget' = [joinTarget EXCEPT ![running] = t]
        /\ UNCHANGED <<threadVars, cpuVars>>
  /\ UNCHANGED <<semVars, sleepVars, ssip>>

JoinTest(t, leave, next) ==
  /\ \/ /\ t \in finished
        /\ GoTo(leave)
        /\ joinTarget' = [joinTarget EXCEPT ![running] = next]
        /\ UNCHANGED <<threadVars, cpuVars>>
     \/ /\ t \notin finished
        /\ GoTo("join")
        /\ joinTarget' = [joinTarget EXCEPT ![running] = t]
        /\ UNCHANGED threadVars
        /\ Dispatch(ready)
  /\ UNCHANGED <<semVars, sleepVars, ssip>>

(* thread_join, 0x14 *)
ThreadJoin(t) ==
  /\ Joins
  /\ ClientCalls
  /\ t \in (alive \cap Client) \ {running}
  /\ JoinTest(t, "user", NoThread)

(* sem_open, 0x21 *)
SemOpen(s, init) ==
  /\ ClientCalls
  /\ s \in Sem \ opened
  /\ opened' = opened \cup {s}
  /\ val' = [val EXCEPT ![s] = init]
  /\ blockedQ' = [blockedQ EXCEPT ![s] = <<>>]
  /\ UNCHANGED <<cpuVars, threadVars, sleepVars, closed, pc, joinTarget, ssip>>

(* sem_close, 0x22.  The C API passes the handle itself, the handler takes *)
(* it for a pointer to the handle: the object it deletes is the one whose  *)
(* address is the semaphore's first word, val.  ~Sem does nothing and      *)
(* mem_free of such an address finds no block, so nothing changes.         *)
SemClose(s) ==
  /\ ClientCalls
  /\ s \in opened \ (closed \cup KernelSem)
  /\ closed' = closed \cup {s}
  /\ UNCHANGED <<cpuVars, threadVars, sleepVars, opened, val, blockedQ, pc,
                 joinTarget, ssip>>

(* Sem::wait by the running thread, with block() when the value is spent;  *)
(* the thread goes on at label next.                                       *)
Wait(s, next) ==
  /\ val' = [val EXCEPT ![s] = @ - 1]
  /\ GoTo(next)
  /\ UNCHANGED <<alive, scheduled, bodyless, finished, sleeping, opened, closed,
                 sleepVars, joinTarget, ssip>>
  /\ \/ /\ val[s] - 1 >= 0
        /\ UNCHANGED <<blocked, blockedQ, cpuVars>>
     \/ /\ val[s] - 1 < 0
        /\ blocked' = blocked \cup {running}
        /\ blockedQ' = [blockedQ EXCEPT ![s] = Append(@, running)]
        /\ Dispatch(ready)

(* sem_wait, 0x23 *)
SemWait(s) ==
  /\ ClientCalls
  /\ s \in opened \ (closed \cup KernelSem)
  /\ Wait(s, "ecall")

(* Sem::signal, with unblock() when a thread waits. *)
SignalTooFew(s) ==
  /\ val' = [val EXCEPT ![s] = @ + 1]
  /\ \/ val[s] + 1 >= 0 /\ UNCHANGED <<blocked, blockedQ, ready>>
     \/ /\ val[s] + 1 < 0
        /\ blocked' = blocked \ {Head(blockedQ[s])}
        /\ blockedQ' = [blockedQ EXCEPT ![s] = Tail(@)]
        /\ ready' = Append(ready, Head(blockedQ[s]))

SignalKeepsFlag(s) ==
  /\ val' = [val EXCEPT ![s] = @ + 1]
  /\ \/ val[s] + 1 > 0 /\ UNCHANGED <<blocked, blockedQ, ready>>
     \/ /\ val[s] + 1 <= 0
        /\ blockedQ' = [blockedQ EXCEPT ![s] = Tail(@)]
        /\ ready' = Append(ready, Head(blockedQ[s]))
        /\ UNCHANGED blocked

Signal(s) ==
  /\ val' = [val EXCEPT ![s] = @ + 1]
  /\ \/ /\ val[s] + 1 > 0
        /\ UNCHANGED <<blocked, blockedQ, ready>>
     \/ /\ val[s] + 1 <= 0
        /\ blocked' = blocked \ {Head(blockedQ[s])}
        /\ blockedQ' = [blockedQ EXCEPT ![s] = Tail(@)]
        /\ ready' = Append(ready, Head(blockedQ[s]))

SignalFrame ==
  UNCHANGED <<running, timeSliceCounter, alive, scheduled, bodyless, finished,
              sleeping, opened, closed, sleepVars, joinTarget, ssip>>

(* sem_signal, 0x24 *)
SemSignal(s) ==
  /\ ClientCalls
  /\ s \in opened \ (closed \cup KernelSem)
  /\ val[s] < MaxVal
  /\ Signal(s)
  /\ SignalFrame /\ UNCHANGED pc

(* SleepList::putSleeping.  The new thread's time is reduced by that of    *)
(* each sleeper it goes past, so that rest ticks are left when it stands   *)
(* behind the k-th; it goes past the head unless it is due earlier, and    *)
(* past another sleeper only if it is due later, and stops at the first it *)
(* does not go past.  Every sleeper counts its ticks from its              *)
(* predecessor's end, so the successor's share shrinks by rest.            *)
TicksUntil[k \in Nat \ {0}] ==
  IF k = 1 THEN sleepTime[sleepQ[1]]
           ELSE TicksUntil[k - 1] + sleepTime[sleepQ[k]]

Left(k, time) == IF k = 0 THEN time ELSE time - TicksUntil[k]

GoesPast(k, time) ==
  IF k = 1 THEN Left(0, time) >= sleepTime[sleepQ[1]]
           ELSE Left(k - 1, time) > sleepTime[sleepQ[k]]

Insertion(k, rest, time) ==
  /\ \A j \in 1..k : GoesPast(j, time)
  /\ k < Len(sleepQ) => ~GoesPast(k + 1, time)
  /\ rest = Left(k, time)

SharesUnchanged(t, k, rest) == [sleepTime EXCEPT ![t] = rest]
Shares(t, k, rest) ==
  [u \in Thread |->
     IF u = t THEN rest
     ELSE IF k < Len(sleepQ) /\ u = sleepQ[k + 1] THEN sleepTime[u] - rest
     ELSE sleepTime[u]]

PutSleeping(t, time) ==
  \E k \in 0..Len(sleepQ), rest \in 0..time :
    /\ Insertion(k, rest, time)
    /\ sleeping' = sleeping \cup {t}
    /\ sleepQ' = SubSeq(sleepQ, 1, k) \o <<t>> \o SubSeq(sleepQ, k + 1, Len(sleepQ))
    /\ sleepTime' = Shares(t, k, rest)

(* time_sleep, 0x31; the C API does not make the call for 0. *)
TimeSleep(time) ==
  /\ ClientCalls
  /\ PutSleeping(running, time)
  /\ GoTo("ecall")
  /\ UNCHANGED <<alive, scheduled, bodyless, finished, blocked, semVars,
                 joinTarget, ssip>>
  /\ Dispatch(ready)

(* putc, 0x42, and kProducer's 0xFE reduced to the one semaphore on which  *)
(* they meet (module Console has the buffers): putc adds an item; 0xFE     *)
(* takes items while the transmitter is ready, waiting for them.           *)
Putc ==
  /\ ClientCalls
  /\ val[itemAvailable] < MaxVal
  /\ Signal(itemAvailable)
  /\ SignalFrame /\ UNCHANGED pc

KProducer ==
  /\ running = kProd
  /\ pc[kProd] = "user"
  /\ Wait(itemAvailable, "drain")

-----------------------------------------------------------------------------
(* A thread that got the processor back goes on, interrupts still masked.  *)

Continue(from, to) ==
  /\ pc[running] = from
  /\ GoTo(to)
  /\ UNCHANGED <<cpuVars, threadVars, semVars, sleepVars, joinTarget>>

(* popSppSpie at the start of threadWrapper, and the end of hExcAndEcall. *)
StartBody == Continue("new", "user") /\ UNCHANGED ssip
ReturnFromEcall == Continue("ecall", "user") /\ UNCHANGED ssip

(* The end of hInterruptTimer clears the pending bit. *)
ReturnFromTimer == Continue("timer", "user") /\ ssip' = FALSE

DrainAgain == running = kProd /\ pc[kProd] = "drain" /\ Wait(itemAvailable, "drain")
LeaveDrain == running = kProd /\ Continue("drain", "user") /\ UNCHANGED ssip

JoinLoop ==
  /\ running # main
  /\ pc[running] = "join"
  /\ JoinTest(joinTarget[running], "user", NoThread)

(* main joins userMain and then kProd. *)
MainJoin ==
  /\ running = main
  /\ pc[main] = "join"
  /\ JoinTest(joinTarget[main],
              IF joinTarget[main] = userMain THEN "join" ELSE "done",
              IF joinTarget[main] = userMain THEN kProd ELSE NoThread)

-----------------------------------------------------------------------------
(* The timer (external) raises SSIP every period. *)
RaiseTimer ==
  /\ ssip' = TRUE
  /\ UNCHANGED <<cpuVars, threadVars, semVars, sleepVars, pc, joinTarget>>

(* The sleep times after the tick: only the head is decremented. *)
TickedAboveOne ==
  [t \in Thread |-> IF sleepQ # <<>> /\ t = Head(sleepQ) /\ sleepTime[t] > 1
                    THEN sleepTime[t] - 1 ELSE sleepTime[t]]
Ticked ==
  [t \in Thread |-> IF sleepQ # <<>> /\ t = Head(sleepQ)
                    THEN sleepTime[t] - 1 ELSE sleepTime[t]]

(* SleepList::wakeSleeping takes the first n off the list: those at 0. *)
WakesHeadOnly(n) ==
  n = IF sleepQ # <<>> /\ Ticked[Head(sleepQ)] = 0 THEN 1 ELSE 0
Wakes(n) ==
  /\ \A i \in 1..n : Ticked[sleepQ[i]] = 0
  /\ n < Len(sleepQ) => Ticked[sleepQ[n + 1]] # 0

SliceOverLate == timeSliceCounter + 1 > TimeSlice
SliceOver     == timeSliceCounter + 1 >= TimeSlice

(* hInterruptTimer *)
InterruptTimer ==
  /\ ssip
  /\ pc[running] = "user"
  /\ sleepTime' = Ticked
  /\ UNCHANGED <<alive, scheduled, bodyless, finished, blocked, semVars,
                 joinTarget>>
  /\ \E n \in 0..Len(sleepQ) :
       LET woken == SubSeq(sleepQ, 1, n)
       IN  /\ Wakes(n)
           /\ sleepQ' = SubSeq(sleepQ, n + 1, Len(sleepQ))
           /\ sleeping' = sleeping \ Range(woken)
           /\ \/ /\ SliceOver
                 /\ GoTo("timer")
                 /\ UNCHANGED ssip
                 /\ Dispatch(ready \o woken)
              \/ /\ ~SliceOver
                 /\ timeSliceCounter' = timeSliceCounter + 1
                 /\ ready' = ready \o woken
                 /\ ssip' = FALSE
                 /\ UNCHANGED <<running, pc>>

-----------------------------------------------------------------------------
ClientSyscall ==
  \/ \E t \in Thread, b \in Bodies : ThreadCreate(t, b) \/ ThreadCreateOnly(t, b)
  \/ \E t \in Thread : \/ ThreadScheduleOnly(t)
                       \/ ThreadDeleteOnly(t)
                       \/ ThreadJoin(t)
  \/ ThreadExit
  \/ ThreadDispatch
  \/ \E s \in Sem : \/ \E init \in 0..MaxVal : SemOpen(s, init)
                    \/ SemClose(s)
                    \/ SemWait(s)
                    \/ SemSignal(s)
  \/ \E time \in 1..MaxSleep : TimeSleep(time)

KernelStep ==
  \/ StartBody \/ ReturnFromEcall \/ ReturnFromTimer
  \/ JoinLoop \/ MainJoin

DrainLoop == DrainAgain \/ LeaveDrain

Next ==
  \/ ClientSyscall \/ KernelStep
  \/ Putc \/ KProducer \/ DrainLoop
  \/ RaiseTimer \/ InterruptTimer

Spec == Init /\ [][Next]_vars

(* The timer keeps ticking and kernel code goes on.  The processor looks   *)
(* for pending interrupts after every sret, so one that is pending each    *)
(* time a thread returns to user mode is taken (strong fairness).  Client  *)
(* code owes nothing: a thread may stay in user mode for ever.             *)
Fairness ==
  /\ WF_vars(KernelStep) /\ WF_vars(DrainLoop)
  /\ WF_vars(RaiseTimer)
  /\ SF_vars(InterruptTimer)

FairSpec == Spec /\ Fairness

-----------------------------------------------------------------------------
(* Properties *)

PC == {"new", "user", "ecall", "timer", "join", "drain", "done"}

(* Every variable keeps its type, the sleep times never wrap below zero    *)
(* and no thread keeps the processor beyond its slice: the counter is      *)
(* always reset before it passes DEFAULT_TIME_SLICE.                       *)
TypeOK ==
  /\ running \in Thread
  /\ ready \in Seq(Thread)
  /\ alive \subseteq Thread /\ scheduled \subseteq alive
  /\ bodyless \subseteq Thread /\ finished \subseteq Thread
  /\ blocked \subseteq Thread /\ sleeping \subseteq Thread
  /\ pc \in [Thread -> PC]
  /\ joinTarget \in [Thread -> Thread \cup {NoThread}]
  /\ opened \subseteq Sem /\ closed \subseteq opened
  /\ val \in [Sem -> Int]
  /\ blockedQ \in [Sem -> Seq(Thread)]
  /\ sleepQ \in Seq(Thread)
  /\ sleepTime \in [Thread -> Nat]
  /\ timeSliceCounter \in 0..(TimeSlice - 1)
  /\ ssip \in BOOLEAN

(* No thread is linked twice, in one queue or in two: the ready queue, the *)
(* semaphores' queues and the sleep list share no TCB and none repeats     *)
(* one, so the intrusive next/nextBlocked/nextSleep links stay lists.      *)
LinkedOnce ==
  /\ IsInjective(ready) /\ IsInjective(sleepQ)
  /\ \A s \in Sem : IsInjective(blockedQ[s])
  /\ Range(ready) \cap Range(sleepQ) = {}
  /\ \A s \in Sem : Range(blockedQ[s]) \cap (Range(ready) \cup Range(sleepQ)) = {}
  /\ \A r, s \in Sem : r # s => Range(blockedQ[r]) \cap Range(blockedQ[s]) = {}

(* The flags dispatch() looks at say where the thread is: blocked exactly  *)
(* in some semaphore's queue, sleeping exactly in the sleep list.          *)
FlagsMatchQueues ==
  /\ \A t \in alive : t \in blocked <=> \E s \in Sem : t \in Range(blockedQ[s])
  /\ \A t \in alive : t \in sleeping <=> t \in Range(sleepQ)

(* What is runnable is queued, and nothing else is: no wakeup is lost in   *)
(* dispatch, signal or the timer interrupt, and no waiting, finished or    *)
(* running thread is handed out a second time.                             *)
RunnableIsReady ==
  \A t \in alive \ {idle} :
    t \in Range(ready) <=> /\ t \in scheduled
                          /\ t \notin finished \cup blocked \cup sleeping
                          /\ t # running

(* The thread that has the processor may have it, and idle, when it runs,  *)
(* is not waiting for it as well.                                          *)
RunningMayRun ==
  /\ running \in scheduled \ (finished \cup blocked \cup sleeping)
  /\ running \notin Range(ready)

(* A negative semaphore value counts the threads in its queue, otherwise   *)
(* the queue is empty: signal() never unblocks from an empty queue.        *)
ValCountsWaiters ==
  \A s \in Sem : Len(blockedQ[s]) = IF val[s] < 0 THEN -val[s] ELSE 0

(* The head of the sleep list is never at 0 between interrupts: the next  *)
(* tick would wrap its unsigned time and the list would stand still.       *)
SleepHeadPositive == sleepQ # <<>> => sleepTime[Head(sleepQ)] > 0

(* Every TCB the kernel can still reach is allocated: the running one, the *)
(* queued ones and those that a thread inside join looks at.               *)
NoDangling ==
  /\ running \in alive /\ Range(joinTarget) \subseteq alive \cup {NoThread}
  /\ Range(ready) \cup Range(sleepQ) \subseteq alive
  /\ \A s \in Sem : Range(blockedQ[s]) \subseteq alive

(* A ready thread gets the processor: the FIFO queue, the time slice and   *)
(* the polling joins starve nobody.                                        *)
ReadyRuns == \A t \in Thread : t \in Range(ready) ~> running = t

(* A thread that called time_sleep is woken. *)
SleeperWakes == \A t \in Thread : t \in sleeping ~> t \notin sleeping

(* Only the polling of join can keep a sleeper from waking: as long as     *)
(* some thread is in user mode now and then, every sleeper is woken.       *)
SleeperWakesUnlessPolling == []<>(pc[running] = "user") => SleeperWakes
=============================================================================
