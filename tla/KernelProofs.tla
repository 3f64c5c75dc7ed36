---------------------------- MODULE KernelProofs ----------------------------
(***************************************************************************)
(* The safety of Kernel's thread management for any number of threads and  *)
(* semaphores, any time slice and any bound, when clients delete only      *)
(* threads that cannot run any more.                                       *)
(*                                                                         *)
(* TypeOK and the placement invariants are not inductive one by one: that  *)
(* dispatch() may hand a thread out depends on the ready queue holding     *)
(* runnable threads only, this on the flags, and the flags on the queues   *)
(* of the semaphores and the sleep list.  Inv states, for each queue, what *)
(* it holds in terms of the flags.                                         *)
(*                                                                         *)
(* In Kernel idle never blocks.  Where interrupts put characters into a    *)
(* buffer it may (module Console), so Inv allows it, and the lemmas about  *)
(* steps have the hypothesis that a blocked idle is not handed out.        *)
(***************************************************************************)
EXTENDS Kernel, QueueLemmas

(* The threads that may have the processor, besides idle. *)
Runnable == scheduled \ (finished \cup blocked \cup sleeping \cup {idle})

(* Every thread has a label in pc; which labels there are is a matter of   *)
(* the module that has the actions (LabelInv below, for Kernel's own).     *)
Labelled == pc = [t \in Thread |-> pc[t]]

(* Control state that no queue depends on. *)
ControlInv ==
  /\ bodyless \subseteq Thread /\ finished \subseteq Thread
  /\ Labelled
  /\ joinTarget \in [Thread -> Thread \cup {NoThread}]
  /\ KernelSem \subseteq opened /\ opened \subseteq Sem
  /\ closed \subseteq opened
  /\ timeSliceCounter \in 0..(TimeSlice - 1)
  /\ ssip \in BOOLEAN

FlagInv ==
  /\ alive \subseteq Thread /\ scheduled \subseteq alive
  /\ idle \in scheduled \ finished
  /\ finished \cap alive \subseteq scheduled
  /\ blocked \cup sleeping \subseteq scheduled \ finished
  /\ idle \notin sleeping /\ blocked \cap sleeping = {}

(* Outside dispatch(), what is runnable has the processor or is queued. *)
CpuInv ==
  /\ running \in Thread
  /\ ready \in Queue(Thread)
  /\ running \notin Range(ready)
  /\ idle \in blocked => idle \notin Range(ready) \cup {running}
  /\ (Range(ready) \cup {running}) \ {idle} = Runnable

WaitInv ==
  /\ val \in [Sem -> Int]
  /\ blockedQ \in [Sem -> Queue(Thread)]
  /\ \A s \in Sem : Range(blockedQ[s]) \subseteq blocked
  /\ \A t \in blocked : \E s \in Sem : t \in Range(blockedQ[s])
  /\ \A r, s \in Sem : r # s => Range(blockedQ[r]) \cap Range(blockedQ[s]) = {}
  /\ ValCountsWaiters
  /\ \A s \in Sem \ opened : blockedQ[s] = <<>>

SleepInv ==
  /\ sleepTime \in [Thread -> Nat]
  /\ sleepQ \in Queue(Thread)
  /\ Range(sleepQ) = sleeping
  /\ SleepHeadPositive

Inv == ControlInv /\ FlagInv /\ CpuInv /\ WaitInv /\ SleepInv

(* The processor is not handed to a blocked idle.                          *)
IdleStays == idle \in blocked => running # idle

(* The labels of Kernel's own actions. *)
LabelInv == \A t \in Thread : pc[t] \in PC

-----------------------------------------------------------------------------
(* The four boot threads are different threads. *)
LEMMA BootThreads ==
  /\ {main, idle, userMain, kProd} \subseteq Thread
  /\ main # idle /\ main # userMain /\ main # kProd
  /\ idle # userMain /\ idle # kProd /\ userMain # kProd
<1> DEFINE b == <<main, idle, userMain, kProd>>
<1>1. \A i, j \in DOMAIN b : b[i] = b[j] => i = j
  BY ThreadAssumption DEF IsInjective
<1>2. DOMAIN b = 1..4 /\ b[1] = main /\ b[2] = idle /\ b[3] = userMain /\ b[4] = kProd
  OBVIOUS
<1> HIDE DEF b
<1>3. 1 \in DOMAIN b /\ 2 \in DOMAIN b /\ 3 \in DOMAIN b /\ 4 \in DOMAIN b
  BY <1>2
<1> QED BY <1>1, <1>2, <1>3, ThreadAssumption

(* The state at main's first join satisfies the invariant. *)
LEMMA InitInv == Init => Inv
<1> SUFFICES ASSUME Init PROVE Inv
  OBVIOUS
<1> USE BootThreads DEF Init
<1>1. ControlInv
  <2>1. Labelled /\ joinTarget \in [Thread -> Thread \cup {NoThread}]
    BY DEF Labelled
  <2>2. opened \subseteq Sem /\ closed \subseteq opened
    BY SemAssumption
  <2>3. timeSliceCounter \in 0..(TimeSlice - 1)
    BY BoundAssumption
  <2> QED BY <2>1, <2>2, <2>3 DEF ControlInv
<1>2. FlagInv
  BY DEF FlagInv
<1>3. CpuInv
  <2>1. /\ DOMAIN ready = 1..3
        /\ ready[1] = userMain /\ ready[2] = idle /\ ready[3] = kProd
    OBVIOUS
  <2>2. ready \in Seq(Thread)
    OBVIOUS
  <2> DEFINE r == ready
  <2>3. IsInjective(r)
    BY <2>1 DEF IsInjective
  <2>4. Range(ready) = {userMain, idle, kProd}
    BY <2>1 DEF Range
  <2> QED BY <2>2, <2>3, <2>4 DEF CpuInv, Queue, Runnable
<1>4. WaitInv
  <2>1. val \in [Sem -> Int] /\ \A s \in Sem : ~(val[s] < 0)
    BY SemAssumption
  <2>2. \A s \in Sem : blockedQ[s] \in Queue(Thread) /\ Range(blockedQ[s]) = {}
                       /\ Len(blockedQ[s]) = 0
    BY QueueEmpty
  <2> QED BY <2>1, <2>2 DEF WaitInv, ValCountsWaiters
<1>5. SleepInv
  BY QueueEmpty DEF SleepInv, SleepHeadPositive
<1> QED BY <1>1, <1>2, <1>3, <1>4, <1>5 DEF Inv

-----------------------------------------------------------------------------
(* dispatch() re-establishes CpuInv: if what the caller leaves in the ready *)
(* queue rq, together with the old thread if it is eligible, is what is    *)
(* runnable, then afterwards the same holds of the new running thread and  *)
(* the new queue.                                                          *)
LEMMA DispatchCpu ==
  ASSUME NEW rq \in Queue(Thread), running \in Thread, running \notin Range(rq),
         Dispatch(rq), IdleStays', idle \in blocked' => idle \notin Range(rq),
         (Range(rq) \cup IF Eligible(running) THEN {running} ELSE {}) \ {idle}
           = Runnable'
  PROVE  CpuInv' /\ timeSliceCounter' = 0
<1> DEFINE q == Requeued(rq)
<1>1. /\ q \in Queue(Thread)
      /\ Range(q) = Range(rq) \cup IF Eligible(running) THEN {running} ELSE {}
  BY QueueAppend DEF Requeued
<1>2. \/ q = <<>> /\ running' = idle /\ ready' = q
      \/ q # <<>> /\ Head(q) = running /\ running' = idle /\ ready' = Append(Tail(q), running)
      \/ q # <<>> /\ Head(q) # running /\ running' = Head(q) /\ ready' = Tail(q)
  BY DEF Dispatch
<1>3. timeSliceCounter' = 0
  BY DEF Dispatch
<1>4. Eligible(running) => running # idle
  BY DEF Eligible
<1>5. Head(q) = running /\ q # <<>> => Eligible(running) /\ Tail(q) = <<>>
  <2> SUFFICES ASSUME Head(q) = running, q # <<>>
               PROVE  Eligible(running) /\ Tail(q) = <<>>
    OBVIOUS
  <2>1. running \in Range(q)
    BY <1>1, QueueTail
  <2>2. Eligible(running)
    BY <1>1, <2>1
  <2>3. q = Append(rq, running)
    BY <2>2 DEF Requeued
  <2>4. rq = <<>>
    <3> SUFFICES ASSUME rq # <<>> PROVE FALSE
      OBVIOUS
    <3>1. rq \in Seq(Thread)
      BY DEF Queue
    <3>2. Head(Append(rq, running)) = Head(rq)
      BY <3>1
    <3>3. Head(rq) \in Range(rq)
      BY QueueTail
    <3> QED BY <3>2, <3>3, <2>3
  <2> QED BY <2>2, <2>3, <2>4
<1>6. idle \in Thread
  BY BootThreads
<1>7. Range(q) \ {idle} = Runnable'
  BY <1>1
<1> HIDE DEF q
<1>8. CASE q = <<>> /\ running' = idle /\ ready' = q
  <2>1. Range(ready') = {} /\ ready' \in Queue(Thread) /\ running' \in Thread
    BY <1>1, <1>6, <1>8, QueueEmpty
  <2>2. (Range(ready') \cup {running'}) \ {idle} = Range(q) \ {idle}
    BY <1>8, <2>1
  <2> QED BY <1>3, <1>7, <2>1, <2>2 DEF CpuInv, IdleStays
<1>9. CASE q # <<>> /\ Head(q) = running /\ running' = idle
           /\ ready' = Append(Tail(q), running)
  <2>1. Tail(q) = <<>> /\ Eligible(running) /\ running # idle
    BY <1>4, <1>5, <1>9
  <2>2. Range(q) \ {running} = {} /\ running \in Range(q)
    BY <1>1, <1>9, <2>1, QueueTail, QueueEmpty
  <2>3. <<>> \in Queue(Thread) /\ running \notin Range(<<>>) /\ Range(<<>>) = {}
    BY QueueEmpty
  <2>4. ready' \in Queue(Thread) /\ Range(ready') = {running}
    <3> DEFINE e == <<>>
    <3>1. e \in Queue(Thread) /\ running \notin Range(e) /\ Range(e) = {}
      BY <2>3
    <3>2. ready' = Append(e, running)
      BY <1>9, <2>1
    <3> HIDE DEF e
    <3> QED BY <3>1, <3>2, QueueAppend
  <2>5. (Range(ready') \cup {running'}) \ {idle} = Range(q) \ {idle}
    BY <1>9, <2>2, <2>4
  <2> QED BY <1>3, <1>6, <1>7, <1>9, <2>1, <2>4, <2>5 DEF CpuInv, IdleStays
<1>10. CASE q # <<>> /\ Head(q) # running /\ running' = Head(q) /\ ready' = Tail(q)
  <2>1. /\ ready' \in Queue(Thread) /\ running' \in Thread
        /\ Range(ready') = Range(q) \ {running'} /\ running' \in Range(q)
    BY <1>1, <1>10, QueueTail
  <2>2. (Range(ready') \cup {running'}) \ {idle} = Range(q) \ {idle}
    BY <2>1
  <2>3. idle \in blocked' => idle \notin Range(ready') \cup {running'}
    BY <1>1, <1>4, <2>1 DEF IdleStays
  <2> QED BY <1>3, <1>7, <2>1, <2>2, <2>3 DEF CpuInv
<1> QED BY <1>2, <1>3, <1>8, <1>9, <1>10

(* dispatch() by a thread that stays as runnable as it was. *)
LEMMA DispatchKeeps ==
  ASSUME CpuInv, UNCHANGED threadVars, Dispatch(ready), IdleStays'
  PROVE  CpuInv' /\ timeSliceCounter' = 0
<1>1. Runnable' = Runnable
  BY DEF Runnable, threadVars
<1>2. Eligible(running) <=> running \notin finished \cup blocked \cup sleeping \cup {idle}
  BY DEF Eligible, threadVars
<1>3. running # idle => Eligible(running)
  BY <1>2 DEF CpuInv, Runnable
<1>4. running = idle => ~Eligible(running)
  BY <1>2
<1>5. (Range(ready) \cup IF Eligible(running) THEN {running} ELSE {}) \ {idle} = Runnable'
  BY <1>1, <1>3, <1>4 DEF CpuInv
<1>6. idle \in blocked' => idle \notin Range(ready)
  BY DEF CpuInv, threadVars
<1> QED BY <1>5, <1>6, DispatchCpu DEF CpuInv

(* dispatch() by a thread that has just stopped being runnable. *)
LEMMA DispatchLeaves ==
  ASSUME CpuInv, Dispatch(ready), ~Eligible(running), IdleStays',
         Runnable' = Runnable \ {running}, blocked' \subseteq blocked \cup {running}
  PROVE  CpuInv' /\ timeSliceCounter' = 0
<1>1. (Range(ready) \cup IF Eligible(running) THEN {running} ELSE {}) \ {idle} = Runnable'
  BY DEF CpuInv
<1>2. idle \in blocked' => idle \notin Range(ready)
  BY DEF CpuInv
<1> QED BY <1>1, <1>2, DispatchCpu DEF CpuInv

-----------------------------------------------------------------------------
(* What a step leaves alone it keeps. *)
LEMMA FlagFrame ==
  FlagInv /\ UNCHANGED threadVars => FlagInv'
BY DEF FlagInv, threadVars

(* CpuInv depends only on the processor, the ready queue and the flags. *)
LEMMA CpuFrame ==
  CpuInv /\ UNCHANGED <<running, ready, scheduled, finished, blocked, sleeping>> => CpuInv'
BY DEF CpuInv, Runnable

(* WaitInv depends only on the semaphores and the blocked flags. *)
LEMMA WaitFrame ==
  WaitInv /\ UNCHANGED <<opened, val, blockedQ, blocked>> => WaitInv'
BY DEF WaitInv, ValCountsWaiters

(* SleepInv depends only on the sleep list and the sleeping flags. *)
LEMMA SleepFrame ==
  SleepInv /\ UNCHANGED <<sleepVars, sleeping>> => SleepInv'
BY DEF SleepInv, SleepHeadPositive, sleepVars

(* The counter restarts at a dispatch. *)
LEMMA SliceRestarts == 0 \in 0..(TimeSlice - 1)
BY BoundAssumption

(* The running thread moves to a label and the others keep theirs. *)
LEMMA GoToType ==
  ASSUME ControlInv, running \in Thread, NEW l, GoTo(l)
  PROVE  /\ Labelled' /\ pc'[running] = l
         /\ \A t \in Thread \ {running} : pc'[t] = pc[t]
BY DEF ControlInv, Labelled, GoTo

-----------------------------------------------------------------------------
(* Steps that neither dispatch nor touch a flag. *)
LEMMA StutterInv == Inv /\ UNCHANGED vars => Inv'
<1> SUFFICES ASSUME Inv, UNCHANGED vars PROVE Inv'
  OBVIOUS
<1> USE DEF vars, cpuVars, threadVars, semVars, sleepVars
<1>1. ControlInv' BY DEF Inv, ControlInv, Labelled
<1>2. FlagInv' BY FlagFrame DEF Inv
<1>3. CpuInv' BY CpuFrame DEF Inv
<1>4. WaitInv' BY WaitFrame DEF Inv
<1>5. SleepInv' BY SleepFrame DEF Inv
<1> QED BY <1>1, <1>2, <1>3, <1>4, <1>5 DEF Inv

(* The timer raising SSIP keeps the invariant. *)
LEMMA RaiseTimerInv == Inv /\ RaiseTimer => Inv'
<1> SUFFICES ASSUME Inv, RaiseTimer PROVE Inv'
  OBVIOUS
<1> USE DEF RaiseTimer, cpuVars, threadVars, semVars, sleepVars
<1>1. ControlInv' BY DEF Inv, ControlInv, Labelled
<1>2. FlagInv' BY FlagFrame DEF Inv
<1>3. CpuInv' BY CpuFrame DEF Inv
<1>4. WaitInv' BY WaitFrame DEF Inv
<1>5. SleepInv' BY SleepFrame DEF Inv
<1> QED BY <1>1, <1>2, <1>3, <1>4, <1>5 DEF Inv

(* A thread that goes on inside the kernel keeps the invariant. *)
LEMMA ContinueInv ==
  ASSUME Inv, NEW from, NEW to, Continue(from, to), ssip' \in BOOLEAN
  PROVE  Inv'
<1> USE DEF Continue, cpuVars, threadVars, semVars, sleepVars
<1>1. ControlInv'
  <2>1. Labelled' BY GoToType DEF Inv, CpuInv
  <2> QED BY <2>1 DEF Inv, ControlInv
<1>2. FlagInv' BY FlagFrame DEF Inv
<1>3. CpuInv' BY CpuFrame DEF Inv
<1>4. WaitInv' BY WaitFrame DEF Inv
<1>5. SleepInv' BY SleepFrame DEF Inv
<1> QED BY <1>1, <1>2, <1>3, <1>4, <1>5 DEF Inv

(* thread_dispatch keeps the invariant. *)
LEMMA ThreadDispatchInv == Inv /\ ThreadDispatch /\ IdleStays' => Inv'
<1> SUFFICES ASSUME Inv, ThreadDispatch, IdleStays' PROVE Inv'
  OBVIOUS
<1> USE DEF ThreadDispatch, semVars, sleepVars
<1>1. CpuInv' /\ timeSliceCounter' = 0 BY DispatchKeeps DEF Inv
<1>2. ControlInv'
  <2>1. Labelled' BY GoToType DEF Inv, CpuInv
  <2> QED BY <1>1, <2>1, SliceRestarts DEF Inv, ControlInv, threadVars
<1>3. FlagInv' BY FlagFrame DEF Inv
<1>4. WaitInv' BY WaitFrame DEF Inv, threadVars
<1>5. SleepInv' BY SleepFrame DEF Inv, threadVars
<1> QED BY <1>1, <1>2, <1>3, <1>4, <1>5 DEF Inv

(* One evaluation of join's loop condition keeps the invariant. *)
LEMMA JoinTestInv ==
  ASSUME Inv, NEW t \in Thread \cup {NoThread}, NEW leave,
         NEW next \in Thread \cup {NoThread}, JoinTest(t, leave, next), IdleStays'
  PROVE  Inv'
<1> USE DEF JoinTest, semVars, sleepVars
<1>1. UNCHANGED threadVars
  OBVIOUS
<1>2. CpuInv' /\ timeSliceCounter' \in 0..(TimeSlice - 1)
  <2>1. CASE UNCHANGED cpuVars
    BY <1>1, <2>1, CpuFrame DEF Inv, ControlInv, cpuVars, threadVars
  <2>2. CASE Dispatch(ready)
    BY <1>1, <2>2, DispatchKeeps, SliceRestarts DEF Inv
  <2> QED BY <2>1, <2>2
<1>3. ControlInv'
  <2>1. Labelled'
    <3>1. GoTo(leave) \/ GoTo("join") OBVIOUS
    <3> QED BY <3>1, GoToType DEF Inv, CpuInv
  <2>2. joinTarget' \in [Thread -> Thread \cup {NoThread}]
    BY DEF Inv, ControlInv
  <2> QED BY <1>1, <1>2, <2>1, <2>2 DEF Inv, ControlInv, threadVars
<1>4. FlagInv' BY <1>1, FlagFrame DEF Inv
<1>5. WaitInv' BY <1>1, WaitFrame DEF Inv, threadVars
<1>6. SleepInv' BY <1>1, SleepFrame DEF Inv, threadVars
<1> QED BY <1>2, <1>3, <1>4, <1>5, <1>6 DEF Inv

-----------------------------------------------------------------------------
(* Creating, starting and deleting threads. *)
LEMMA ConstructInv ==
  ASSUME Inv, NEW t, NEW hasBody, Construct(t, hasBody),
         UNCHANGED <<semVars, sleepQ>>
  PROVE  /\ t \notin scheduled /\ t # idle /\ t \notin Runnable
         /\ WaitInv' /\ SleepInv'
         /\ blocked' = blocked /\ sleeping' = sleeping
         /\ alive' = alive \cup {t} /\ t \in Thread
         /\ finished' = finished \ {t}
         /\ Labelled' /\ bodyless' \subseteq Thread
<1> USE DEF Construct, semVars
<1>1. t \notin scheduled /\ t # idle /\ t \notin Runnable
  BY DEF Inv, FlagInv, Runnable
<1>2. blocked' = blocked /\ sleeping' = sleeping
  BY <1>1 DEF Inv, FlagInv
<1>3. WaitInv'
  BY <1>2, WaitFrame DEF Inv
<1>4. SleepInv'
  <2>1. \A u \in sleeping : sleepTime'[u] = sleepTime[u]
    BY <1>1 DEF Inv, FlagInv, SleepInv
  <2>2. sleepTime' \in [Thread -> Nat]
    BY DEF Inv, SleepInv
  <2>3. sleepQ # <<>> => Head(sleepQ) \in sleeping
    BY QueueTail DEF Inv, SleepInv
  <2> QED BY <1>2, <2>1, <2>2, <2>3 DEF Inv, SleepInv, SleepHeadPositive
<1>5. Labelled' /\ bodyless' \subseteq Thread
  BY DEF Inv, ControlInv, Labelled
<1> QED BY <1>1, <1>2, <1>3, <1>4, <1>5 DEF Inv, FlagInv

(* A thread that is made runnable and put at the tail of the ready queue. *)
LEMMA PutCpu ==
  ASSUME CpuInv, NEW t \in Thread, t \notin Runnable, t = idle => idle \in blocked,
         running' = running, ready' = Append(ready, t),
         Runnable' = Runnable \cup ({t} \ {idle}), blocked' \subseteq blocked \ {t}
  PROVE  CpuInv'
<1>1. t \notin Range(ready) /\ t # running
  BY DEF CpuInv
<1>2. ready' \in Queue(Thread) /\ Range(ready') = Range(ready) \cup {t}
  BY <1>1, QueueAppend DEF CpuInv
<1> QED BY <1>1, <1>2 DEF CpuInv

(* thread_create keeps the invariant. *)
LEMMA ThreadCreateInv ==
  ASSUME Inv, NEW t, NEW b \in BOOLEAN, ThreadCreate(t, b)
  PROVE  Inv'
<1> USE DEF ThreadCreate
<1>1. Construct(t, b) /\ UNCHANGED <<semVars, sleepQ>>
  OBVIOUS
<1>2. /\ t \notin scheduled /\ t # idle /\ t \notin Runnable
      /\ WaitInv' /\ SleepInv'
      /\ blocked' = blocked /\ sleeping' = sleeping
      /\ alive' = alive \cup {t} /\ t \in Thread
      /\ finished' = finished \ {t}
      /\ Labelled' /\ bodyless' \subseteq Thread
  BY <1>1, ConstructInv
<1>3. ControlInv'
  BY <1>2 DEF Inv, ControlInv, semVars
<1>4. FlagInv'
  BY <1>2 DEF Inv, FlagInv
<1>5. CpuInv'
  <2>1. CASE b
    <3>1. Runnable' = Runnable \cup {t}
      BY <1>2, <2>1 DEF Inv, FlagInv, Runnable
    <3> QED BY <1>2, <2>1, <3>1, PutCpu DEF Inv, FlagInv
  <2>2. CASE ~b
    <3>1. Runnable' = Runnable
      BY <1>2, <2>2 DEF Runnable
    <3> QED BY <1>2, <2>2, <3>1 DEF Inv, CpuInv
  <2> QED BY <2>1, <2>2
<1> QED BY <1>2, <1>3, <1>4, <1>5 DEF Inv

(* thread_create_only keeps the invariant. *)
LEMMA ThreadCreateOnlyInv ==
  ASSUME Inv, NEW t, NEW b \in BOOLEAN, ThreadCreateOnly(t, b)
  PROVE  Inv'
<1> USE DEF ThreadCreateOnly
<1>1. Construct(t, b) /\ UNCHANGED <<semVars, sleepQ>>
  OBVIOUS
<1>2. /\ t \notin scheduled /\ t # idle /\ t \notin Runnable
      /\ WaitInv' /\ SleepInv'
      /\ blocked' = blocked /\ sleeping' = sleeping
      /\ alive' = alive \cup {t} /\ t \in Thread
      /\ finished' = finished \ {t}
      /\ Labelled' /\ bodyless' \subseteq Thread
  BY <1>1, ConstructInv
<1>3. ControlInv'
  BY <1>2 DEF Inv, ControlInv, semVars, cpuVars
<1>4. FlagInv'
  BY <1>2 DEF Inv, FlagInv
<1>5. CpuInv'
  <2>1. Runnable' = Runnable
    BY <1>2 DEF Runnable
  <2> QED BY <1>2, <2>1 DEF Inv, CpuInv, cpuVars
<1> QED BY <1>2, <1>3, <1>4, <1>5 DEF Inv

(* thread_schedule_only keeps the invariant. *)
LEMMA ThreadScheduleOnlyInv ==
  ASSUME Inv, NEW t, ThreadScheduleOnly(t)
  PROVE  Inv'
<1> USE DEF ThreadScheduleOnly, semVars, sleepVars
<1>1. t \in Thread /\ t # idle /\ t \notin Runnable
  BY DEF Inv, FlagInv, Runnable
<1>2. ControlInv' BY DEF Inv, ControlInv, Labelled
<1>3. FlagInv' BY DEF Inv, FlagInv
<1>4. CpuInv'
  <2>1. t \notin finished \cup blocked \cup sleeping
    BY DEF Inv, FlagInv
  <2>2. Runnable' = Runnable \cup {t}
    BY <1>1, <2>1 DEF Runnable
  <2> QED BY <1>1, <2>1, <2>2, PutCpu DEF Inv
<1>5. WaitInv' BY WaitFrame DEF Inv
<1>6. SleepInv' BY SleepFrame DEF Inv
<1> QED BY <1>2, <1>3, <1>4, <1>5, <1>6 DEF Inv

(* thread_delete_only of a thread that cannot run keeps the invariant. *)
LEMMA ThreadDeleteOnlyInv ==
  ASSUME Inv, SafeDelete, NEW t, ThreadDeleteOnly(t)
  PROVE  Inv'
<1> USE DEF ThreadDeleteOnly, cpuVars, semVars, sleepVars
<1>1. t # idle /\ (t \in finished \/ t \notin scheduled)
  BY DEF MayDelete, Client, System
<1>2. ControlInv' BY DEF Inv, ControlInv, Labelled
<1>3. FlagInv' BY <1>1 DEF Inv, FlagInv
<1>4. CpuInv'
  <2>1. Runnable' = Runnable BY <1>1 DEF Runnable
  <2> QED BY <2>1 DEF Inv, CpuInv
<1>5. WaitInv' BY WaitFrame DEF Inv
<1>6. SleepInv' BY SleepFrame DEF Inv
<1> QED BY <1>2, <1>3, <1>4, <1>5, <1>6 DEF Inv

-----------------------------------------------------------------------------
(* A running thread other than idle is runnable, hence in no queue. *)
LEMMA RunningRunnable ==
  ASSUME Inv, running # idle
  PROVE  running \in Runnable /\ running \in scheduled
         /\ running \notin finished \cup blocked \cup sleeping
BY DEF Inv, CpuInv, Runnable

(* thread_exit keeps the invariant. *)
LEMMA ThreadExitInv == Inv /\ ThreadExit /\ IdleStays' => Inv'
<1> SUFFICES ASSUME Inv, ThreadExit, IdleStays' PROVE Inv'
  OBVIOUS
<1> USE DEF ThreadExit, semVars, sleepVars
<1>1. running # idle
  BY DEF ClientCalls, Client, System
<1>2. CpuInv' /\ timeSliceCounter' = 0
  <2>1. Runnable' = Runnable \ {running}
    BY DEF Runnable
  <2>2. ~Eligible(running)
    BY DEF Eligible
  <2> QED BY <2>1, <2>2, DispatchLeaves DEF Inv
<1>3. ControlInv'
  <2>1. Labelled' BY GoToType DEF Inv, CpuInv
  <2> QED BY <1>2, <2>1, SliceRestarts DEF Inv, ControlInv, CpuInv
<1>4. FlagInv'
  BY <1>1, RunningRunnable DEF Inv, FlagInv
<1>5. WaitInv' BY WaitFrame DEF Inv
<1>6. SleepInv' BY SleepFrame DEF Inv
<1> QED BY <1>2, <1>3, <1>4, <1>5, <1>6 DEF Inv

-----------------------------------------------------------------------------
(* Semaphores. *)
LEMMA SemOpenInv ==
  ASSUME Inv, NEW s, NEW init \in Nat, SemOpen(s, init)
  PROVE  Inv'
<1> USE DEF SemOpen, cpuVars, threadVars, sleepVars
<1>1. ControlInv' BY DEF Inv, ControlInv, Labelled
<1>2. FlagInv' BY FlagFrame DEF Inv
<1>3. CpuInv' BY CpuFrame DEF Inv
<1>4. WaitInv'
  <2>1. blockedQ' = blockedQ
    BY DEF Inv, WaitInv
  <2>2. val' \in [Sem -> Int]
    BY DEF Inv, WaitInv
  <2>3. ValCountsWaiters'
    <3> SUFFICES ASSUME NEW r \in Sem
                 PROVE  Len(blockedQ[r]) = IF val'[r] < 0 THEN -val'[r] ELSE 0
      BY <2>1 DEF ValCountsWaiters
    <3>1. CASE r = s
      BY <3>1 DEF Inv, WaitInv
    <3>2. CASE r # s
      BY <3>2 DEF Inv, WaitInv, ValCountsWaiters
    <3> QED BY <3>1, <3>2
  <2> QED BY <2>1, <2>2, <2>3 DEF Inv, WaitInv
<1>5. SleepInv' BY SleepFrame DEF Inv
<1> QED BY <1>1, <1>2, <1>3, <1>4, <1>5 DEF Inv

(* sem_close keeps the invariant. *)
LEMMA SemCloseInv ==
  ASSUME Inv, NEW s, SemClose(s)
  PROVE  Inv'
<1> USE DEF SemClose, cpuVars, threadVars, sleepVars
<1>1. ControlInv' BY DEF Inv, ControlInv, Labelled
<1>2. FlagInv' BY FlagFrame DEF Inv
<1>3. CpuInv' BY CpuFrame DEF Inv
<1>4. WaitInv' BY WaitFrame DEF Inv
<1>5. SleepInv' BY SleepFrame DEF Inv
<1> QED BY <1>1, <1>2, <1>3, <1>4, <1>5 DEF Inv

(* Sem::wait keeps the invariant, whether or not it blocks, and whoever    *)
(* waits: idle, which handles interrupts, may.                             *)
LEMMA WaitStepInv ==
  ASSUME Inv, NEW s \in opened, NEW label, Wait(s, label), IdleStays'
  PROVE  Inv'
<1> USE DEF Wait, sleepVars
<1> s \in Sem
  BY DEF Inv, ControlInv
<1>1. running \in scheduled /\ running \notin finished \cup blocked \cup sleeping
  BY RunningRunnable DEF Inv, FlagInv, CpuInv
<1>2. /\ val' = [val EXCEPT ![s] = @ - 1] /\ val' \in [Sem -> Int]
      /\ val[s] \in Int
  BY DEF Inv, WaitInv
<1>3. Labelled'
  BY GoToType DEF Inv, CpuInv
<1>4. SleepInv' BY SleepFrame DEF Inv
<1>5. CASE val[s] - 1 >= 0 /\ UNCHANGED <<blocked, blockedQ, cpuVars>>
  <2>1. ControlInv' BY <1>3, <1>5 DEF Inv, ControlInv, cpuVars
  <2>2. FlagInv' BY <1>5, FlagFrame DEF Inv, threadVars
  <2>3. CpuInv' BY <1>5, CpuFrame DEF Inv, cpuVars
  <2>4. ValCountsWaiters'
    <3> SUFFICES ASSUME NEW r \in Sem
                 PROVE  Len(blockedQ[r]) = IF val'[r] < 0 THEN -val'[r] ELSE 0
      BY <1>5 DEF ValCountsWaiters
    <3>1. Len(blockedQ[r]) = IF val[r] < 0 THEN -val[r] ELSE 0
      BY DEF Inv, WaitInv, ValCountsWaiters
    <3>2. val'[r] = IF r = s THEN val[s] - 1 ELSE val[r]
      BY <1>2 DEF Inv, WaitInv
    <3> QED BY <1>2, <1>5, <3>1, <3>2
  <2>5. WaitInv' BY <1>2, <1>5, <2>4 DEF Inv, WaitInv
  <2> QED BY <1>4, <2>1, <2>2, <2>3, <2>5 DEF Inv
<1>6. CASE /\ val[s] - 1 < 0
           /\ blocked' = blocked \cup {running}
           /\ blockedQ' = [blockedQ EXCEPT ![s] = Append(@, running)]
           /\ Dispatch(ready)
  <2>1. CpuInv' /\ timeSliceCounter' = 0
    <3>1. Runnable' = Runnable \ {running}
      BY <1>6 DEF Runnable
    <3>2. ~Eligible(running)
      BY <1>6 DEF Eligible
    <3> QED BY <1>6, <3>1, <3>2, DispatchLeaves DEF Inv
  <2>2. ControlInv' BY <1>3, <2>1, SliceRestarts DEF Inv, ControlInv
  <2>3. FlagInv' BY <1>1, <1>6 DEF Inv, FlagInv
  <2>4. /\ blockedQ \in [Sem -> Queue(Thread)] /\ running \in Thread
        /\ \A r \in Sem : running \notin Range(blockedQ[r])
    BY <1>1 DEF Inv, WaitInv, CpuInv
  <2>5. /\ blockedQ'[s] \in Queue(Thread)
        /\ Range(blockedQ'[s]) = Range(blockedQ[s]) \cup {running}
        /\ Len(blockedQ'[s]) = Len(blockedQ[s]) + 1
    BY <1>6, <2>4, QueueAppend
  <2>6. \A r \in Sem : r # s => blockedQ'[r] = blockedQ[r]
    BY <1>6, <2>4
  <2>7. blockedQ' \in [Sem -> Queue(Thread)]
    BY <1>6, <2>4, <2>5
  <2>8. ValCountsWaiters'
    <3> SUFFICES ASSUME NEW r \in Sem
                 PROVE  Len(blockedQ'[r]) = IF val'[r] < 0 THEN -val'[r] ELSE 0
      BY DEF ValCountsWaiters
    <3>1. Len(blockedQ[r]) = IF val[r] < 0 THEN -val[r] ELSE 0
      BY DEF Inv, WaitInv, ValCountsWaiters
    <3>2. val'[r] = IF r = s THEN val[s] - 1 ELSE val[r]
      BY <1>2 DEF Inv, WaitInv
    <3>3. CASE r = s BY <1>2, <1>6, <2>5, <3>1, <3>2, <3>3
    <3>4. CASE r # s BY <2>6, <3>1, <3>2, <3>4
    <3> QED BY <3>3, <3>4
  <2>9. \A r \in Sem : Range(blockedQ'[r]) \subseteq blocked'
    BY <1>6, <2>5, <2>6 DEF Inv, WaitInv
  <2>10. \A t \in blocked' : \E r \in Sem : t \in Range(blockedQ'[r])
    <3> SUFFICES ASSUME NEW t \in blocked'
                 PROVE  \E r \in Sem : t \in Range(blockedQ'[r])
      OBVIOUS
    <3>1. CASE t = running BY <2>5, <3>1
    <3>2. CASE t \in blocked
      <4>1. PICK r \in Sem : t \in Range(blockedQ[r])
        BY <3>2 DEF Inv, WaitInv
      <4> QED BY <2>5, <2>6, <4>1
    <3> QED BY <1>6, <3>1, <3>2
  <2>11. \A q, r \in Sem : q # r => Range(blockedQ'[q]) \cap Range(blockedQ'[r]) = {}
    <3> SUFFICES ASSUME NEW q \in Sem, NEW r \in Sem, q # r
                 PROVE  Range(blockedQ'[q]) \cap Range(blockedQ'[r]) = {}
      OBVIOUS
    <3>1. Range(blockedQ[q]) \cap Range(blockedQ[r]) = {}
      BY DEF Inv, WaitInv
    <3> QED BY <2>4, <2>5, <2>6, <3>1
  <2>12. \A r \in Sem \ opened' : blockedQ'[r] = <<>>
    BY <2>6 DEF Inv, WaitInv
  <2>13. WaitInv'
    BY <1>2, <2>7, <2>8, <2>9, <2>10, <2>11, <2>12 DEF WaitInv
  <2> QED BY <1>4, <2>1, <2>2, <2>3, <2>13 DEF Inv
<1> QED BY <1>5, <1>6

(* Signalling s, when nobody waits and when its head is unblocked. *)
LEMMA SignalStepInv ==
  ASSUME Inv, NEW s \in opened, Signal(s), SignalFrame, Labelled'
  PROVE  Inv'
<1> USE DEF Signal, SignalFrame, sleepVars
<1> s \in Sem
  BY DEF Inv, ControlInv
<1>1. /\ val' = [val EXCEPT ![s] = @ + 1] /\ val' \in [Sem -> Int]
      /\ val[s] \in Int
      /\ \A r \in Sem : val'[r] = IF r = s THEN val[s] + 1 ELSE val[r]
  BY DEF Inv, WaitInv
<1>2. ControlInv' BY DEF Inv, ControlInv
<1>3. SleepInv' BY SleepFrame DEF Inv
<1>4. \A r \in Sem : Len(blockedQ[r]) = IF val[r] < 0 THEN -val[r] ELSE 0
  BY DEF Inv, WaitInv, ValCountsWaiters
<1>5. CASE val[s] + 1 > 0 /\ UNCHANGED <<blocked, blockedQ, ready>>
  <2>1. FlagInv' BY <1>5, FlagFrame DEF Inv, threadVars
  <2>2. CpuInv' BY <1>5, CpuFrame DEF Inv
  <2>3. ValCountsWaiters'
    <3> SUFFICES ASSUME NEW r \in Sem
                 PROVE  Len(blockedQ[r]) = IF val'[r] < 0 THEN -val'[r] ELSE 0
      BY <1>5 DEF ValCountsWaiters
    <3> QED BY <1>1, <1>4, <1>5
  <2>4. WaitInv' BY <1>1, <1>5, <2>3 DEF Inv, WaitInv
  <2> QED BY <1>2, <1>3, <2>1, <2>2, <2>4 DEF Inv
<1>6. CASE /\ val[s] + 1 <= 0
           /\ blocked' = blocked \ {Head(blockedQ[s])}
           /\ blockedQ' = [blockedQ EXCEPT ![s] = Tail(@)]
           /\ ready' = Append(ready, Head(blockedQ[s]))
  <2> DEFINE h == Head(blockedQ[s])
  <2>1. blockedQ \in [Sem -> Queue(Thread)] /\ blockedQ[s] \in Queue(Thread)
    BY DEF Inv, WaitInv
  <2>2. blockedQ[s] # <<>>
    <3>1. Len(blockedQ[s]) > 0
      BY <1>1, <1>4, <1>6
    <3> QED BY <3>1
  <2>3. /\ Tail(blockedQ[s]) \in Queue(Thread) /\ h \in Thread
        /\ h \in Range(blockedQ[s])
        /\ Range(Tail(blockedQ[s])) = Range(blockedQ[s]) \ {h}
        /\ Len(Tail(blockedQ[s])) = Len(blockedQ[s]) - 1
    BY <2>1, <2>2, QueueTail
  <2>4. blockedQ' \in [Sem -> Queue(Thread)]
    BY <1>6, <2>1, <2>3
  <2>5. blocked' = blocked \ {h} /\ ready' = Append(ready, h)
    BY <1>6
  <2>6. \A r \in Sem : blockedQ'[r] = IF r = s THEN Tail(blockedQ[s]) ELSE blockedQ[r]
    BY <1>6, <2>1
  <2> HIDE DEF h
  <2>7. h \in blocked
    BY <2>3 DEF Inv, WaitInv
  <2>8. h \in scheduled /\ h \notin finished \cup sleeping /\ h \notin Runnable
    BY <2>7 DEF Inv, FlagInv, Runnable
  <2>9. FlagInv' BY <2>5, <2>7 DEF Inv, FlagInv
  <2>10. CpuInv'
    <3>1. Runnable' = Runnable \cup ({h} \ {idle})
      BY <2>5, <2>8 DEF Runnable
    <3> QED BY <2>3, <2>5, <2>7, <2>8, <3>1, PutCpu DEF Inv
  <2>11. \A r \in Sem : Len(blockedQ'[r]) = IF val'[r] < 0 THEN -val'[r] ELSE 0
    <3> SUFFICES ASSUME NEW r \in Sem
                 PROVE  Len(blockedQ'[r]) = IF val'[r] < 0 THEN -val'[r] ELSE 0
      OBVIOUS
    <3>1. CASE r = s BY <1>1, <1>4, <1>6, <2>3, <2>6, <3>1
    <3>2. CASE r # s BY <1>1, <1>4, <2>6, <3>2
    <3> QED BY <3>1, <3>2
  <2>12. \A r \in Sem : r # s => h \notin Range(blockedQ[r])
    BY <2>3 DEF Inv, WaitInv
  <2>13. \A r \in Sem : Range(blockedQ'[r]) = Range(blockedQ[r]) \ {h}
    BY <2>3, <2>6, <2>12
  <2>14. \A r \in Sem : Range(blockedQ'[r]) \subseteq blocked'
    BY <2>5, <2>13 DEF Inv, WaitInv
  <2>15. \A t \in blocked' : \E r \in Sem : t \in Range(blockedQ'[r])
    BY <2>5, <2>13 DEF Inv, WaitInv
  <2>16. \A q, r \in Sem : q # r => Range(blockedQ'[q]) \cap Range(blockedQ'[r]) = {}
    BY <2>13 DEF Inv, WaitInv
  <2>17. \A r \in Sem \ opened' : blockedQ'[r] = <<>>
    BY <2>6 DEF Inv, WaitInv
  <2>18. WaitInv'
    BY <1>1, <2>4, <2>11, <2>14, <2>15, <2>16, <2>17 DEF WaitInv, ValCountsWaiters
  <2> QED BY <1>2, <1>3, <2>9, <2>10, <2>18 DEF Inv
<1> QED BY <1>5, <1>6

-----------------------------------------------------------------------------
(* The sleep list and the timer interrupt. *)
LEMMA PutSleepingInv ==
  ASSUME Inv, NEW t \in Thread, t \notin sleeping,
         NEW time \in Nat \ {0}, PutSleeping(t, time)
  PROVE  SleepInv' /\ sleeping' = sleeping \cup {t}
<1>1. PICK k \in 0..Len(sleepQ), rest \in 0..time :
        /\ Insertion(k, rest, time)
        /\ sleeping' = sleeping \cup {t}
        /\ sleepQ' = SubSeq(sleepQ, 1, k) \o <<t>> \o SubSeq(sleepQ, k + 1, Len(sleepQ))
        /\ sleepTime' = [u \in Thread |->
             IF u = t THEN rest
             ELSE IF k < Len(sleepQ) /\ u = sleepQ[k + 1] THEN sleepTime[u] - rest
             ELSE sleepTime[u]]
  BY DEF PutSleeping, Shares
<1>2. /\ sleepQ \in Queue(Thread) /\ Range(sleepQ) = sleeping
      /\ sleepTime \in [Thread -> Nat] /\ rest \in Nat /\ k \in Nat
      /\ sleepQ \in Seq(Thread) /\ Len(sleepQ) \in Nat
  BY DEF Inv, SleepInv, Queue
<1>3. /\ sleepQ' \in Queue(Thread) /\ Range(sleepQ') = Range(sleepQ) \cup {t}
      /\ Head(sleepQ') = IF k = 0 THEN t ELSE sleepQ[1]
  <2>1. t \notin Range(sleepQ)
    BY <1>2
  <2>2. sleepQ' = Inserted(sleepQ, k, t)
    BY <1>1 DEF Inserted
  <2> QED BY <1>2, <2>1, <2>2, QueueInsert
<1>4. k = 0 => rest = time
  BY <1>1 DEF Insertion, Left
<1>5. k < Len(sleepQ) => /\ sleepQ[k + 1] \in Thread
                         /\ sleepTime[sleepQ[k + 1]] \in Nat
                         /\ rest <= sleepTime[sleepQ[k + 1]]
  <2> SUFFICES ASSUME k < Len(sleepQ)
               PROVE  /\ sleepQ[k + 1] \in Thread
                      /\ sleepTime[sleepQ[k + 1]] \in Nat
                      /\ rest <= sleepTime[sleepQ[k + 1]]
    OBVIOUS
  <2>1. sleepQ[k + 1] \in Thread
    BY <1>2
  <2>2. sleepTime[sleepQ[k + 1]] \in Nat
    BY <1>2, <2>1
  <2>3. ~GoesPast(k + 1, time) /\ rest = Left(k, time)
    BY <1>1 DEF Insertion
  <2>4. CASE k = 0
    BY <1>2, <2>2, <2>1, <2>3, <2>4 DEF GoesPast, Left
  <2>5. CASE k # 0
    <3>1. ~(rest > sleepTime[sleepQ[k + 1]])
      BY <1>2, <2>3, <2>5 DEF GoesPast
    <3> QED BY <1>2, <2>2, <2>1, <3>1
  <2> QED BY <2>4, <2>5
<1>6. sleepTime' \in [Thread -> Nat]
  <2> SUFFICES ASSUME NEW u \in Thread PROVE sleepTime'[u] \in Nat
    BY <1>1
  <2>1. CASE u = t BY <1>1, <1>2, <2>1
  <2>2. CASE u # t /\ k < Len(sleepQ) /\ u = sleepQ[k + 1]
    BY <1>1, <1>2, <1>5, <2>2
  <2>3. CASE u # t /\ ~(k < Len(sleepQ) /\ u = sleepQ[k + 1])
    BY <1>1, <1>2, <2>3
  <2> QED BY <2>1, <2>2, <2>3
<1>7. sleepTime'[Head(sleepQ')] > 0
  <2>1. CASE k = 0
    BY <1>1, <1>3, <1>4, <2>1
  <2>2. CASE k # 0
    <3>1. sleepQ # <<>> /\ sleepQ[1] = Head(sleepQ) /\ 1 \in 1..Len(sleepQ)
      BY <1>2, <2>2
    <3>2. sleepQ[1] \in Range(sleepQ) /\ sleepQ[1] \in Thread
      BY <1>2, <3>1, QueueTail
    <3>3. k < Len(sleepQ) => sleepQ[1] # sleepQ[k + 1]
      <4>1. k < Len(sleepQ) => k + 1 \in 1..Len(sleepQ) /\ k + 1 # 1
        BY <1>2, <2>2
      <4>2. \A i, j \in 1..Len(sleepQ) : sleepQ[i] = sleepQ[j] => i = j
        BY <1>2, QueueDef DEF Queue
      <4> QED BY <3>1, <4>1, <4>2
    <3>4. sleepTime'[sleepQ[1]] = sleepTime[sleepQ[1]]
      BY <1>1, <1>2, <3>2, <3>3
    <3> QED BY <1>3, <2>2, <3>1, <3>4 DEF Inv, SleepInv, SleepHeadPositive
  <2> QED BY <2>1, <2>2
<1> QED BY <1>1, <1>2, <1>3, <1>6, <1>7 DEF SleepInv, SleepHeadPositive

(* time_sleep keeps the invariant. *)
LEMMA TimeSleepInv ==
  ASSUME Inv, NEW time \in Nat \ {0}, TimeSleep(time), IdleStays'
  PROVE  Inv'
<1> USE DEF TimeSleep, semVars
<1>1. running # idle
  BY DEF ClientCalls, Client, System
<1>2. /\ running \in Runnable /\ running \in scheduled /\ running \in Thread
      /\ running \notin finished \cup blocked \cup sleeping
  BY <1>1, RunningRunnable DEF Inv, CpuInv
<1>3. SleepInv' /\ sleeping' = sleeping \cup {running}
  BY <1>2, PutSleepingInv
<1>4. CpuInv' /\ timeSliceCounter' = 0
  <2>1. Runnable' = Runnable \ {running}
    BY <1>3 DEF Runnable
  <2>2. ~Eligible(running)
    BY <1>3 DEF Eligible
  <2> QED BY <2>1, <2>2, DispatchLeaves DEF Inv
<1>5. ControlInv'
  <2>1. Labelled' BY GoToType DEF Inv, CpuInv
  <2> QED BY <1>4, <2>1, SliceRestarts DEF Inv, ControlInv
<1>6. FlagInv' BY <1>1, <1>2, <1>3 DEF Inv, FlagInv
<1>7. WaitInv' BY WaitFrame DEF Inv
<1> QED BY <1>3, <1>4, <1>5, <1>6, <1>7 DEF Inv

(* Decrementing the head's time cannot wrap it. *)
LEMMA TickedType == SleepInv => Ticked \in [Thread -> Nat]
<1> SUFFICES ASSUME SleepInv, NEW t \in Thread
             PROVE  (IF sleepQ # <<>> /\ t = Head(sleepQ)
                     THEN sleepTime[t] - 1 ELSE sleepTime[t]) \in Nat
  BY DEF Ticked
<1>1. sleepTime[t] \in Nat
  BY DEF SleepInv
<1>2. sleepQ # <<>> /\ t = Head(sleepQ) => sleepTime[t] > 0
  BY DEF SleepInv, SleepHeadPositive
<1> QED BY <1>1, <1>2

(* The threads woken by a tick, and what they leave of the sleep list. *)
LEMMA WakeInv ==
  ASSUME Inv, sleepTime' = Ticked, NEW n \in 0..Len(sleepQ), Wakes(n),
         NEW woken, woken = SubSeq(sleepQ, 1, n),
         sleepQ' = SubSeq(sleepQ, n + 1, Len(sleepQ)),
         sleeping' = sleeping \ Range(woken)
  PROVE  /\ SleepInv'
         /\ woken \in Queue(Thread) /\ Range(woken) \subseteq sleeping
<1>1. sleepQ \in Queue(Thread) /\ Range(sleepQ) = sleeping /\ Len(sleepQ) \in Nat
  BY DEF Inv, SleepInv, Queue
<1>2. /\ woken \in Queue(Thread) /\ sleepQ' \in Queue(Thread)
      /\ Range(woken) \cup Range(sleepQ') = Range(sleepQ)
      /\ Range(woken) \cap Range(sleepQ') = {}
      /\ Len(sleepQ') = Len(sleepQ) - n
      /\ \A i \in 1..(Len(sleepQ) - n) : sleepQ'[i] = sleepQ[n + i]
  BY <1>1, QueueSplit
<1>3. sleepTime' \in [Thread -> Nat]
  BY TickedType DEF Inv
<1>4. SleepHeadPositive'
  <2> SUFFICES ASSUME sleepQ' # <<>> PROVE sleepTime'[Head(sleepQ')] > 0
    BY DEF SleepHeadPositive
  <2>1. /\ Len(sleepQ') > 0 /\ Head(sleepQ') = sleepQ'[1]
        /\ Head(sleepQ') \in Thread
    BY <1>2 DEF Queue
  <2>2. n < Len(sleepQ) /\ sleepQ'[1] = sleepQ[n + 1]
    BY <1>1, <1>2, <2>1
  <2>3. sleepTime'[sleepQ[n + 1]] # 0
    BY <2>2 DEF Wakes
  <2>4. sleepTime'[sleepQ[n + 1]] \in Nat
    BY <1>3, <2>1, <2>2
  <2> QED BY <2>1, <2>2, <2>3, <2>4
<1>5. Range(sleepQ') = sleeping'
  BY <1>1, <1>2
<1> QED BY <1>1, <1>2, <1>3, <1>4, <1>5 DEF SleepInv

(* The timer interrupt keeps the invariant. *)
LEMMA InterruptTimerInv == Inv /\ InterruptTimer /\ IdleStays' => Inv'
<1> SUFFICES ASSUME Inv, InterruptTimer, IdleStays' PROVE Inv'
  OBVIOUS
<1> USE DEF semVars
<1>1. /\ sleepTime' = Ticked
      /\ UNCHANGED <<alive, scheduled, bodyless, finished, blocked, semVars, joinTarget>>
  BY DEF InterruptTimer
<1>2. PICK n \in 0..Len(sleepQ) :
        /\ Wakes(n)
        /\ sleepQ' = SubSeq(sleepQ, n + 1, Len(sleepQ))
        /\ sleeping' = sleeping \ Range(SubSeq(sleepQ, 1, n))
        /\ \/ /\ GoTo("timer")
              /\ UNCHANGED ssip
              /\ Dispatch(ready \o SubSeq(sleepQ, 1, n))
           \/ /\ timeSliceCounter + 1 < TimeSlice
              /\ timeSliceCounter' = timeSliceCounter + 1
              /\ ready' = ready \o SubSeq(sleepQ, 1, n)
              /\ ssip' = FALSE
              /\ UNCHANGED <<running, pc>>
  <2>1. ~SliceOver => timeSliceCounter + 1 < TimeSlice
    BY BoundAssumption DEF SliceOver, Inv, ControlInv
  <2> QED BY <2>1 DEF InterruptTimer
<1> DEFINE woken == SubSeq(sleepQ, 1, n)
<1>3. /\ SleepInv'
      /\ woken \in Queue(Thread) /\ Range(woken) \subseteq sleeping
  BY <1>1, <1>2, WakeInv
<1>4. /\ sleeping' = sleeping \ Range(woken)
      /\ \/ GoTo("timer") /\ UNCHANGED ssip /\ Dispatch(ready \o woken)
         \/ /\ timeSliceCounter + 1 < TimeSlice
            /\ timeSliceCounter' = timeSliceCounter + 1
            /\ ready' = ready \o woken
            /\ ssip' = FALSE
            /\ UNCHANGED <<running, pc>>
  BY <1>2
<1> HIDE DEF woken
<1>5. /\ Range(woken) \cap (Range(ready) \cup {running}) = {}
      /\ idle \notin Range(woken)
  BY <1>3 DEF Inv, FlagInv, CpuInv, Runnable
<1>6. /\ ready \o woken \in Queue(Thread)
      /\ Range(ready \o woken) = Range(ready) \cup Range(woken)
  BY <1>3, <1>5, QueueConcat DEF Inv, CpuInv
<1>7. Runnable' = Runnable \cup Range(woken)
  BY <1>1, <1>3, <1>4 DEF Inv, FlagInv, Runnable
<1>8. FlagInv' BY <1>1, <1>4 DEF Inv, FlagInv
<1>9. WaitInv' BY <1>1, WaitFrame DEF Inv
<1>10. CASE GoTo("timer") /\ UNCHANGED ssip /\ Dispatch(ready \o woken)
  <2>1. CpuInv' /\ timeSliceCounter' = 0
    <3>1. Eligible(running) <=> running # idle
      BY <1>1, <1>4, <1>5 DEF Eligible, Inv, CpuInv, Runnable
    <3>2. (Range(ready \o woken) \cup IF Eligible(running) THEN {running} ELSE {}) \ {idle}
            = Runnable'
      <4>1. CASE running = idle
        BY <1>5, <1>6, <1>7, <3>1, <4>1 DEF Inv, CpuInv
      <4>2. CASE running # idle
        BY <1>5, <1>6, <1>7, <3>1, <4>2 DEF Inv, CpuInv
      <4> QED BY <4>1, <4>2
    <3>3. running \notin Range(ready \o woken) /\ running \in Thread
      BY <1>5, <1>6 DEF Inv, CpuInv
    <3>4. idle \in blocked' => idle \notin Range(ready \o woken)
      BY <1>1, <1>5, <1>6 DEF Inv, CpuInv
    <3> QED BY <1>6, <1>10, <3>2, <3>3, <3>4, DispatchCpu
  <2>2. ControlInv'
    <3>1. Labelled' BY <1>10, GoToType DEF Inv, CpuInv
    <3> QED BY <1>1, <1>10, <2>1, <3>1, SliceRestarts DEF Inv, ControlInv
  <2> QED BY <1>3, <1>8, <1>9, <2>1, <2>2 DEF Inv
<1>11. CASE /\ timeSliceCounter + 1 < TimeSlice
            /\ timeSliceCounter' = timeSliceCounter + 1
            /\ ready' = ready \o woken
            /\ ssip' = FALSE
            /\ UNCHANGED <<running, pc>>
  <2>1. CpuInv'
    <3>1. idle \in blocked' => idle \notin Range(ready') \cup {running'}
      BY <1>1, <1>5, <1>6, <1>11 DEF Inv, CpuInv
    <3> QED BY <1>5, <1>6, <1>7, <1>11, <3>1 DEF Inv, CpuInv
  <2>2. timeSliceCounter' \in 0..(TimeSlice - 1)
    BY <1>11, BoundAssumption DEF Inv, ControlInv
  <2>3. ControlInv'
    BY <1>1, <1>11, <2>2 DEF Inv, ControlInv, Labelled
  <2> QED BY <1>3, <1>8, <1>9, <2>1, <2>3 DEF Inv
<1> QED BY <1>4, <1>10, <1>11

-----------------------------------------------------------------------------
(* The console's semaphores stay open. *)
LEMMA ConsoleSem == Inv => itemAvailable \in opened
BY SemAssumption DEF Inv, ControlInv

(* A thread inside join, main included, tests its condition again. *)
LEMMA JoiningInv == Inv /\ (JoinLoop \/ MainJoin) /\ IdleStays' => Inv'
<1> SUFFICES ASSUME Inv, JoinLoop \/ MainJoin, IdleStays' PROVE Inv'
  OBVIOUS
<1>1. running \in Thread /\ joinTarget[running] \in Thread \cup {NoThread}
  BY DEF Inv, CpuInv, ControlInv
<1>2. CASE JoinLoop
  BY <1>1, <1>2, JoinTestInv DEF JoinLoop
<1>3. CASE MainJoin
  <2> DEFINE leave == IF joinTarget[main] = userMain THEN "join" ELSE "done"
             next == IF joinTarget[main] = userMain THEN kProd ELSE NoThread
  <2>1. next \in Thread \cup {NoThread}
    BY BootThreads
  <2>2. running = main /\ JoinTest(joinTarget[main], leave, next)
    BY <1>3 DEF MainJoin
  <2> HIDE DEF leave, next
  <2> QED BY <1>1, <2>1, <2>2, JoinTestInv
<1> QED BY <1>2, <1>3

(* Every step preserves the invariant. *)
LEMMA NextInv == ASSUME SafeDelete, Inv, [Next]_vars, IdleStays' PROVE Inv'
<1>1. CASE UNCHANGED vars
  BY <1>1, StutterInv
<1>2. CASE ClientSyscall
  <2>1. ASSUME NEW t \in Thread, NEW b \in Bodies, ThreadCreate(t, b) \/ ThreadCreateOnly(t, b)
        PROVE  Inv'
    <3>1. b \in BOOLEAN BY ClientAssumption
    <3> QED BY <2>1, <3>1, ThreadCreateInv, ThreadCreateOnlyInv
  <2>2. ASSUME NEW t \in Thread, ThreadScheduleOnly(t) PROVE Inv'
    BY <2>2, ThreadScheduleOnlyInv
  <2>3. ASSUME NEW t \in Thread, ThreadDeleteOnly(t) PROVE Inv'
    BY <2>3, ThreadDeleteOnlyInv
  <2>4. ASSUME NEW t \in Thread, ThreadJoin(t) PROVE Inv'
    BY <2>4, JoinTestInv DEF ThreadJoin
  <2>5. CASE ThreadExit BY <2>5, ThreadExitInv
  <2>6. CASE ThreadDispatch BY <2>6, ThreadDispatchInv
  <2>7. ASSUME NEW s \in Sem, NEW init \in 0..MaxVal, SemOpen(s, init) PROVE Inv'
    BY <2>7, SemOpenInv, BoundAssumption
  <2>8. ASSUME NEW s \in Sem, SemClose(s) PROVE Inv'
    BY <2>8, SemCloseInv
  <2>9. ASSUME NEW s \in Sem, SemWait(s) PROVE Inv'
    BY <2>9, WaitStepInv DEF SemWait, ClientCalls, Client, System
  <2>10. ASSUME NEW s \in Sem, SemSignal(s) PROVE Inv'
    BY <2>10, SignalStepInv DEF SemSignal, Inv, ControlInv, Labelled
  <2>11. ASSUME NEW time \in 1..MaxSleep, TimeSleep(time) PROVE Inv'
    BY <2>11, TimeSleepInv, BoundAssumption
  <2> QED BY <1>2, <2>1, <2>2, <2>3, <2>4, <2>5, <2>6, <2>7, <2>8, <2>9, <2>10, <2>11
          DEF ClientSyscall
<1>3. CASE KernelStep
  <2>1. CASE StartBody
    BY <2>1, ContinueInv DEF StartBody, Inv, ControlInv
  <2>2. CASE ReturnFromEcall
    BY <2>2, ContinueInv DEF ReturnFromEcall, Inv, ControlInv
  <2>3. CASE ReturnFromTimer
    BY <2>3, ContinueInv DEF ReturnFromTimer
  <2>4. CASE JoinLoop \/ MainJoin
    BY <2>4, JoiningInv
  <2> QED BY <1>3, <2>1, <2>2, <2>3, <2>4 DEF KernelStep
<1>4. CASE Putc
  BY <1>4, ConsoleSem, SignalStepInv DEF Putc, Inv, ControlInv, Labelled
<1>5. CASE KProducer \/ DrainAgain
  BY <1>5, ConsoleSem, BootThreads, WaitStepInv DEF KProducer, DrainAgain
<1>6. CASE LeaveDrain
  BY <1>6, ContinueInv DEF LeaveDrain, Inv, ControlInv
<1>7. CASE RaiseTimer BY <1>7, RaiseTimerInv
<1>8. CASE InterruptTimer BY <1>8, InterruptTimerInv
<1> QED BY <1>1, <1>2, <1>3, <1>4, <1>5, <1>6, <1>7, <1>8 DEF Next, DrainLoop

(* In Kernel nobody makes idle wait for a semaphore. *)
LEMMA IdleNeverWaits ==
  ASSUME Inv, idle \notin blocked, [Next]_vars
  PROVE  idle \notin blocked'
<1>1. ASSUME NEW t, NEW b, Construct(t, b) PROVE idle \notin blocked'
  BY <1>1 DEF Construct
<1>2. ASSUME NEW s, NEW l, Wait(s, l), running # idle PROVE idle \notin blocked'
  BY <1>2 DEF Wait
<1>3. ASSUME NEW s, Signal(s) PROVE idle \notin blocked'
  BY <1>3 DEF Signal
<1>4. CASE ClientSyscall
  <2>1. ASSUME NEW t \in Thread, NEW b \in Bodies, ThreadCreate(t, b) \/ ThreadCreateOnly(t, b)
        PROVE  idle \notin blocked'
    BY <1>1, <2>1 DEF ThreadCreate, ThreadCreateOnly
  <2>2. ASSUME NEW t \in Thread, ThreadScheduleOnly(t) \/ ThreadDeleteOnly(t) \/ ThreadJoin(t)
        PROVE  idle \notin blocked'
    BY <2>2 DEF ThreadScheduleOnly, ThreadDeleteOnly, ThreadJoin, JoinTest, threadVars
  <2>3. CASE ThreadExit \/ ThreadDispatch \/ \E time \in 1..MaxSleep : TimeSleep(time)
    BY <2>3 DEF ThreadExit, ThreadDispatch, TimeSleep, threadVars
  <2>4. ASSUME NEW s \in Sem, \/ \E init \in 0..MaxVal : SemOpen(s, init)
                             \/ SemClose(s)
        PROVE  idle \notin blocked'
    BY <2>4 DEF SemOpen, SemClose, threadVars
  <2>5. ASSUME NEW s \in Sem, SemWait(s) \/ SemSignal(s) PROVE idle \notin blocked'
    BY <1>2, <1>3, <2>5 DEF SemWait, SemSignal, ClientCalls, Client, System
  <2> QED BY <1>4, <2>1, <2>2, <2>3, <2>4, <2>5 DEF ClientSyscall
<1>5. CASE Putc
  BY <1>3, <1>5 DEF Putc
<1>6. CASE KProducer \/ DrainAgain
  BY <1>2, <1>6, BootThreads DEF KProducer, DrainAgain
<1>7. CASE JoinLoop \/ MainJoin
  BY <1>7 DEF JoinLoop, MainJoin, JoinTest, threadVars
<1>8. CASE StartBody \/ ReturnFromEcall \/ ReturnFromTimer \/ LeaveDrain
  BY <1>8 DEF StartBody, ReturnFromEcall, ReturnFromTimer, LeaveDrain, Continue, threadVars
<1>9. CASE RaiseTimer \/ InterruptTimer \/ UNCHANGED vars
  BY <1>9 DEF RaiseTimer, InterruptTimer, vars, threadVars
<1> QED BY <1>4, <1>5, <1>6, <1>7, <1>8, <1>9 DEF Next, KernelStep, DrainLoop

(* The inductive invariant holds in every reachable state. *)
THEOREM Invariance == ASSUME SafeDelete PROVE Spec => [](Inv /\ idle \notin blocked)
<1> DEFINE J == Inv /\ idle \notin blocked
<1>1. Init => J
  BY InitInv DEF Init
<1>2. ASSUME J, [Next]_vars PROVE J'
  BY <1>2, IdleNeverWaits, NextInv DEF IdleStays
<1> QED BY <1>1, <1>2, PTL DEF Spec

(* A step moves at most one thread, to one of Kernel's labels. *)
LEMMA NextLabels ==
  ASSUME Inv, [Next]_vars
  PROVE  UNCHANGED pc \/ \E t \in Thread, l \in PC : pc' = [pc EXCEPT ![t] = l]
<1> DEFINE Moves == \E t \in Thread, l \in PC : pc' = [pc EXCEPT ![t] = l]
<1>1. ASSUME NEW l \in PC, GoTo(l) PROVE Moves
  BY <1>1 DEF GoTo, Inv, CpuInv
<1>2. /\ "user" \in PC /\ "ecall" \in PC /\ "timer" \in PC /\ "join" \in PC
      /\ "drain" \in PC /\ "done" \in PC /\ "new" \in PC
  BY DEF PC
<1>3. ASSUME NEW t, NEW b, Construct(t, b) PROVE Moves
  BY <1>2, <1>3 DEF Construct
<1>4. ASSUME NEW t, NEW leave \in PC, NEW label, JoinTest(t, leave, label) PROVE Moves
  BY <1>1, <1>2, <1>4 DEF JoinTest
<1>5. ASSUME NEW s, NEW l \in PC, Wait(s, l) PROVE Moves
  BY <1>1, <1>5 DEF Wait
<1>6. ASSUME NEW from, NEW to \in PC, Continue(from, to) PROVE Moves
  BY <1>1, <1>6 DEF Continue
<1> HIDE DEF Moves
<1>7. CASE ClientSyscall
  <2>1. ASSUME NEW t \in Thread, NEW b \in Bodies, ThreadCreate(t, b) \/ ThreadCreateOnly(t, b)
        PROVE  Moves
    BY <1>3, <2>1 DEF ThreadCreate, ThreadCreateOnly
  <2>2. ASSUME NEW t \in Thread, ThreadScheduleOnly(t) \/ ThreadDeleteOnly(t) PROVE UNCHANGED pc
    BY <2>2 DEF ThreadScheduleOnly, ThreadDeleteOnly
  <2>3. ASSUME NEW t \in Thread, ThreadJoin(t) PROVE Moves
    BY <1>2, <1>4, <2>3 DEF ThreadJoin
  <2>4. CASE ThreadExit \/ ThreadDispatch \/ \E time \in 1..MaxSleep : TimeSleep(time)
    <3>1. GoTo("ecall")
      BY <2>4 DEF ThreadExit, ThreadDispatch, TimeSleep
    <3> QED BY <1>1, <1>2, <3>1 DEF Moves
  <2>5. ASSUME NEW s \in Sem, \/ \E init \in 0..MaxVal : SemOpen(s, init)
                             \/ SemClose(s) \/ SemSignal(s)
        PROVE  UNCHANGED pc
    BY <2>5 DEF SemOpen, SemClose, SemSignal
  <2>6. ASSUME NEW s \in Sem, SemWait(s) PROVE Moves
    BY <1>2, <1>5, <2>6 DEF SemWait
  <2> QED BY <1>7, <2>1, <2>2, <2>3, <2>4, <2>5, <2>6 DEF ClientSyscall, Moves
<1>8. CASE KernelStep
  BY <1>2, <1>4, <1>6, <1>8
     DEF KernelStep, StartBody, ReturnFromEcall, ReturnFromTimer, JoinLoop, MainJoin, Moves
<1>9. CASE KProducer \/ DrainLoop
  BY <1>2, <1>5, <1>6, <1>9 DEF KProducer, DrainLoop, DrainAgain, LeaveDrain, Moves
<1>10. CASE Putc \/ RaiseTimer \/ UNCHANGED vars
  BY <1>10 DEF Putc, RaiseTimer, vars
<1>11. CASE InterruptTimer
  <2>1. UNCHANGED pc \/ GoTo("timer")
    BY <1>11 DEF InterruptTimer
  <2> QED BY <1>1, <1>2, <2>1 DEF Moves
<1> QED BY <1>7, <1>8, <1>9, <1>10, <1>11 DEF Next, Moves

(* Threads go on only at labels that some action takes up. *)
LEMMA Labels == ASSUME SafeDelete PROVE Spec => []LabelInv
<1>1. Init => LabelInv
  BY DEF Init, LabelInv, PC
<1>2. ASSUME Inv, LabelInv, [Next]_vars PROVE LabelInv'
  <2>1. CASE UNCHANGED pc
    BY <1>2, <2>1 DEF LabelInv
  <2>2. ASSUME NEW t \in Thread, NEW l \in PC, pc' = [pc EXCEPT ![t] = l] PROVE LabelInv'
    BY <1>2, <2>2 DEF LabelInv, Inv, ControlInv, Labelled
  <2> QED BY <1>2, <2>1, <2>2, NextLabels
<1> QED BY <1>1, <1>2, Invariance, PTL DEF Spec

(* The variables of Kernel keep their types; sleepTime never wraps and the *)
(* slice counter never reaches DEFAULT_TIME_SLICE between interrupts.      *)
THEOREM TypeCorrect == ASSUME SafeDelete PROVE Spec => []TypeOK
<1>1. Inv /\ LabelInv => TypeOK
  <2> SUFFICES ASSUME Inv, LabelInv PROVE TypeOK
    OBVIOUS
  <2>1. \A q : q \in Queue(Thread) => q \in Seq(Thread)
    BY DEF Queue
  <2>2. ready \in Seq(Thread) /\ sleepQ \in Seq(Thread)
    BY <2>1 DEF Inv, CpuInv, SleepInv
  <2>3. blockedQ \in [Sem -> Seq(Thread)] /\ val \in [Sem -> Int]
    BY <2>1 DEF Inv, WaitInv
  <2>4. /\ running \in Thread /\ alive \subseteq Thread /\ scheduled \subseteq alive
        /\ blocked \subseteq Thread /\ sleeping \subseteq Thread
    BY DEF Inv, CpuInv, FlagInv
  <2>5. sleepTime \in [Thread -> Nat]
    BY DEF Inv, SleepInv
  <2>6. pc \in [Thread -> PC]
    BY DEF Inv, ControlInv, Labelled, LabelInv
  <2> QED BY <2>2, <2>3, <2>4, <2>5, <2>6 DEF Inv, ControlInv, TypeOK
<1> QED BY <1>1, Invariance, Labels, PTL

(* What the inductive invariant says of the queues, flags and values. *)
LEMMA InvGives ==
  ASSUME Inv
  PROVE  /\ LinkedOnce /\ FlagsMatchQueues /\ RunnableIsReady /\ RunningMayRun
         /\ ValCountsWaiters /\ SleepHeadPositive
<1>1. LinkedOnce
  <2>1. IsInjective(ready) /\ IsInjective(sleepQ) /\ \A s \in Sem : IsInjective(blockedQ[s])
    BY DEF Inv, CpuInv, SleepInv, WaitInv, Queue
  <2>2. \A t \in Range(ready) : t \notin blocked /\ t \notin sleeping
    BY DEF Inv, CpuInv, FlagInv, Runnable
  <2>3. /\ \A s \in Sem : Range(blockedQ[s]) \subseteq blocked
        /\ Range(sleepQ) = sleeping /\ blocked \cap sleeping = {}
    BY DEF Inv, WaitInv, SleepInv, FlagInv
  <2>4. Range(ready) \cap Range(sleepQ) = {}
    BY <2>2, <2>3
  <2>5. \A s \in Sem : Range(blockedQ[s]) \cap (Range(ready) \cup Range(sleepQ)) = {}
    BY <2>2, <2>3
  <2>6. \A r, s \in Sem : r # s => Range(blockedQ[r]) \cap Range(blockedQ[s]) = {}
    BY DEF Inv, WaitInv
  <2> QED BY <2>1, <2>4, <2>5, <2>6 DEF LinkedOnce
<1>2. FlagsMatchQueues
  BY DEF Inv, WaitInv, SleepInv, FlagsMatchQueues
<1>3. RunnableIsReady
  BY DEF Inv, CpuInv, Runnable, RunnableIsReady
<1>4. RunningMayRun
  BY DEF Inv, CpuInv, FlagInv, Runnable, RunningMayRun
<1>5. ValCountsWaiters /\ SleepHeadPositive
  BY DEF Inv, WaitInv, SleepInv
<1> QED BY <1>1, <1>2, <1>3, <1>4, <1>5

(* No TCB is linked into two queues, or twice into one. *)
THEOREM EveryThreadLinkedOnce == ASSUME SafeDelete PROVE Spec => []LinkedOnce
BY InvGives, Invariance, PTL

(* The blocked and sleeping flags say in which kind of queue a thread is. *)
THEOREM FlagsMatch == ASSUME SafeDelete PROVE Spec => []FlagsMatchQueues
BY InvGives, Invariance, PTL

(* No wakeup is lost and no thread is handed out twice: the ready queue    *)
(* holds exactly the started threads that may run and do not.              *)
THEOREM NoLostThread == ASSUME SafeDelete PROVE Spec => []RunnableIsReady
BY InvGives, Invariance, PTL

(* The processor belongs to a thread that may run.                         *)
THEOREM ProcessorWellGiven == ASSUME SafeDelete PROVE Spec => []RunningMayRun
BY InvGives, Invariance, PTL

(* A negative semaphore value counts the waiters. *)
THEOREM WaitersCounted == ASSUME SafeDelete PROVE Spec => []ValCountsWaiters
BY InvGives, Invariance, PTL

(* The next tick never wraps the head of the sleep list. *)
THEOREM HeadNeverWraps == ASSUME SafeDelete PROVE Spec => []SleepHeadPositive
BY InvGives, Invariance, PTL
=============================================================================
