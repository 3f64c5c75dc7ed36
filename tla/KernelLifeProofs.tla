-------------------------- MODULE KernelLifeProofs --------------------------
(***************************************************************************)
(* Every thread of Kernel leads a life as ThreadLife describes it, for any *)
(* number of threads: the abstract specification is implemented step by    *)
(* step.  The flags decide what a thread is; the invariant of KernelProofs *)
(* says which flags go together and that dispatch() hands out none but     *)
(* threads that may run.                                                   *)
(***************************************************************************)
EXTENDS KernelLife, KernelProofs

(* A step of ThreadLife, or none. *)
LifeStep == Life!Next \/ UNCHANGED Lives

(* What the invariant says of a thread's flags. *)
LEMMA LifeByFlags ==
  ASSUME Inv
  PROVE  /\ running \in scheduled /\ scheduled \subseteq alive /\ alive \subseteq Thread
         /\ running \notin finished \cup blocked \cup sleeping
         /\ finished \cap alive \subseteq scheduled
         /\ blocked \cup sleeping \subseteq scheduled
         /\ blocked \cap sleeping = {} /\ finished \cap (blocked \cup sleeping) = {}
<1>1. running \in Runnable \cup {idle} /\ (idle \in blocked => running # idle)
  BY DEF Inv, CpuInv
<1> QED BY <1>1 DEF Inv, FlagInv, Runnable

(* main runs at first, the other boot threads are ready. *)
LEMMA LifeInit == Init => Life!Init
<1> SUFFICES ASSUME Init, NEW t \in Thread
             PROVE  LifeOf(t) = IF t = main THEN "running"
                                ELSE IF t \in {userMain, idle, kProd} THEN "ready" ELSE "free"
  BY DEF Life!Init, Lives
<1> QED BY BootThreads DEF Init, LifeOf

(* A step that moves one thread only. *)
LEMMA OneMoves ==
  ASSUME NEW t \in Thread, NEW to, LifeOf(t)' = to,
         \A u \in Thread \ {t} : LifeOf(u)' = LifeOf(u)
  PROVE  Life!Moves(t, LifeOf(t), to)
BY DEF Life!Moves, Lives

(* Steps that create, start, delete and kill no thread but perhaps the     *)
(* running one: the processor may pass to another thread, and either the   *)
(* running thread has stopped, or sleepers have woken.                     *)
LEMMA SwitchOrWake ==
  ASSUME Inv, Inv', UNCHANGED <<alive, scheduled>>,
         \/ /\ finished \subseteq finished' /\ finished' \subseteq finished \cup {running}
            /\ blocked \subseteq blocked' /\ blocked' \subseteq blocked \cup {running}
            /\ sleeping \subseteq sleeping' /\ sleeping' \subseteq sleeping \cup {running}
         \/ UNCHANGED <<finished, blocked>> /\ sleeping' \subseteq sleeping
  PROVE  LifeStep
<1>1. /\ running \in scheduled /\ scheduled \subseteq alive /\ alive \subseteq Thread
      /\ running \notin finished \cup blocked \cup sleeping
      /\ finished \cap alive \subseteq scheduled
      /\ blocked \cup sleeping \subseteq scheduled
      /\ blocked \cap sleeping = {} /\ finished \cap (blocked \cup sleeping) = {}
  BY LifeByFlags
<1>2. /\ running' \in scheduled'
      /\ running' \notin finished' \cup blocked' \cup sleeping'
      /\ finished' \cap alive' \subseteq scheduled'
      /\ blocked' \cup sleeping' \subseteq scheduled'
      /\ blocked' \cap sleeping' = {} /\ finished' \cap (blocked' \cup sleeping') = {}
  <2>1. running' \in Runnable' \cup {idle} /\ (idle \in blocked' => running' # idle)
    BY DEF Inv, CpuInv
  <2> QED BY <2>1 DEF Inv, FlagInv, Runnable
<1>3. Lives' \in [Thread -> Life!State]
  BY DEF Lives, LifeOf, Life!State
<1>4. \A u \in Thread \ {running, running'} : Life!WakesOrStays(u)
  BY <1>1, <1>2 DEF Life!WakesOrStays, Lives, LifeOf
<1>5. CASE running' = running
  <2>1. Life!WakesOrStays(running)
    BY <1>1, <1>5 DEF Life!WakesOrStays, Lives, LifeOf
  <2>2. Life!Wake
    BY <1>3, <1>4, <1>5, <2>1 DEF Life!Wake
  <2> QED BY <2>2 DEF LifeStep, Life!Next
<1>6. CASE running' # running
  <2>1. Lives[running] = "running" /\ Lives'[running'] = "running"
    BY <1>1, <1>2 DEF Lives, LifeOf
  <2>2. Lives[running'] \in {"ready", "sleeping"}
    BY <1>1, <1>2, <1>6 DEF Lives, LifeOf
  <2>3. Lives'[running] \in {"ready", "waiting", "sleeping", "finished"}
    BY <1>1, <1>2, <1>6 DEF Lives, LifeOf
  <2>4. Lives'[running] # "ready" =>
          \A u \in Thread : Lives[u] = "sleeping" => Lives'[u] = "sleeping"
    BY <1>1, <1>2, <1>6 DEF Lives, LifeOf
  <2>5. Life!Switch(running, running')
    BY <1>3, <1>4, <1>6, <2>1, <2>2, <2>3, <2>4 DEF Life!Switch
  <2> QED BY <1>1, <1>2, <2>5 DEF LifeStep, Life!Next
<1> QED BY <1>5, <1>6

(* thread_create and thread_create_only *)
LEMMA CreateLife ==
  ASSUME Inv, NEW t \in Thread, NEW b, ThreadCreate(t, b) \/ ThreadCreateOnly(t, b)
  PROVE  LifeStep
<1>1. /\ t \in Thread \ alive /\ alive' = alive \cup {t}
      /\ finished' = finished \ {t} /\ blocked' = blocked \ {t} /\ sleeping' = sleeping \ {t}
      /\ running' = running /\ scheduled \subseteq scheduled'
      /\ scheduled' \subseteq scheduled \cup {t}
  BY DEF ThreadCreate, ThreadCreateOnly, Construct, cpuVars
<1>2. LifeOf(t) = "free" /\ LifeOf(t)' \in {"created", "ready"}
  BY <1>1, LifeByFlags DEF LifeOf
<1>3. \A u \in Thread \ {t} : LifeOf(u)' = LifeOf(u)
  BY <1>1 DEF LifeOf
<1>4. Life!Create(t)
  BY <1>2, <1>3, OneMoves DEF Life!Create
<1> QED BY <1>4 DEF LifeStep, Life!Next

(* thread_schedule_only *)
LEMMA StartLife ==
  ASSUME Inv, NEW t \in Thread, ThreadScheduleOnly(t)
  PROVE  LifeStep
<1> USE DEF ThreadScheduleOnly
<1>1. LifeOf(t) = "created" /\ LifeOf(t)' = "ready"
  BY LifeByFlags DEF LifeOf
<1>2. \A u \in Thread \ {t} : LifeOf(u)' = LifeOf(u)
  BY DEF LifeOf
<1>3. Life!Start(t)
  BY <1>1, <1>2, OneMoves DEF Life!Start
<1> QED BY <1>3 DEF LifeStep, Life!Next

(* thread_delete_only, by a client that deletes safely *)
LEMMA DeleteLife ==
  ASSUME SafeDelete, Inv, NEW t \in Thread, ThreadDeleteOnly(t)
  PROVE  LifeStep
<1> USE DEF ThreadDeleteOnly, cpuVars
<1>1. LifeOf(t) \in {"created", "finished"} /\ LifeOf(t)' = "free"
  BY LifeByFlags DEF LifeOf, MayDelete
<1>2. \A u \in Thread \ {t} : LifeOf(u)' = LifeOf(u)
  BY DEF LifeOf
<1>3. Life!Delete(t)
  BY <1>1, <1>2, OneMoves DEF Life!Delete
<1> QED BY <1>3 DEF LifeStep, Life!Next

(* Sem::signal, for a client or by putc *)
LEMMA SignalLife ==
  ASSUME Inv, NEW s \in Sem, Signal(s), SignalFrame
  PROVE  LifeStep
<1> USE DEF Signal, SignalFrame
<1>1. CASE UNCHANGED blocked
  BY <1>1 DEF LifeStep, Lives, LifeOf
<1>2. CASE /\ val[s] + 1 <= 0
           /\ blocked' = blocked \ {Head(blockedQ[s])}
  <2>1. blockedQ[s] \in Queue(Thread) /\ blockedQ[s] # <<>>
    <3>1. val[s] \in Int /\ val[s] < 0
      BY <1>2 DEF Inv, WaitInv
    <3>2. Len(blockedQ[s]) # 0
      BY <3>1 DEF Inv, WaitInv, ValCountsWaiters
    <3> QED BY <3>2 DEF Inv, WaitInv
  <2>2. Head(blockedQ[s]) \in Thread \cap blocked
    BY <2>1, QueueTail DEF Inv, WaitInv
  <2>3. PICK t \in Thread \cap blocked : blocked' = blocked \ {t}
    BY <1>2, <2>2
  <2>4. LifeOf(t) = "waiting" /\ LifeOf(t)' = "ready"
    BY <2>3, LifeByFlags DEF LifeOf
  <2>5. \A u \in Thread \ {t} : LifeOf(u)' = LifeOf(u)
    BY <2>3 DEF LifeOf
  <2>6. Life!Signal(t)
    BY <2>4, <2>5, OneMoves DEF Life!Signal
  <2> QED BY <2>6 DEF LifeStep, Life!Next
<1> QED BY <1>1, <1>2

(* The calls that give the processor up, or may. *)
LEMMA StopLife ==
  ASSUME Inv, Inv',
         \/ ThreadExit \/ ThreadDispatch
         \/ \E s \in Sem : SemWait(s)
         \/ KProducer \/ DrainAgain
         \/ \E time \in 1..MaxSleep : TimeSleep(time)
         \/ \E t \in Thread : ThreadJoin(t)
         \/ JoinLoop \/ MainJoin
         \/ InterruptTimer
  PROVE  LifeStep
<1>1. CASE ThreadExit
  BY <1>1, SwitchOrWake DEF ThreadExit
<1>2. CASE \/ ThreadDispatch \/ JoinLoop \/ MainJoin
           \/ \E t \in Thread : ThreadJoin(t)
  <2>1. UNCHANGED threadVars
    BY <1>2 DEF ThreadDispatch, ThreadJoin, JoinLoop, MainJoin, JoinTest
  <2> QED BY <2>1, SwitchOrWake DEF threadVars
<1>3. CASE KProducer \/ DrainAgain \/ \E s \in Sem : SemWait(s)
  <2>1. PICK s, l : Wait(s, l)
    BY <1>3 DEF KProducer, DrainAgain, SemWait
  <2>2. /\ UNCHANGED <<alive, scheduled, finished, sleeping>>
        /\ blocked \subseteq blocked' /\ blocked' \subseteq blocked \cup {running}
    BY <2>1 DEF Wait
  <2> QED BY <2>2, SwitchOrWake
<1>4. CASE \E time \in 1..MaxSleep : TimeSleep(time)
  BY <1>4, SwitchOrWake DEF TimeSleep, PutSleeping
<1>5. CASE InterruptTimer
  BY <1>5, SwitchOrWake DEF InterruptTimer
<1> QED BY <1>1, <1>2, <1>3, <1>4, <1>5

(* What neither sets a flag nor passes the processor on. *)
LEMMA QuietLife ==
  ASSUME UNCHANGED <<alive, scheduled, finished, blocked, sleeping, running>>
  PROVE  LifeStep
BY DEF LifeStep, Lives, LifeOf

(* Every step of Kernel is a step in some thread's life, or in no one's. *)
LEMMA LifeNext == ASSUME SafeDelete, Inv, Inv', [Next]_vars PROVE LifeStep
<1>1. CASE ClientSyscall
  BY <1>1, CreateLife, StartLife, DeleteLife, SignalLife, StopLife, QuietLife
     DEF ClientSyscall, SemSignal, SemOpen, SemClose, cpuVars, threadVars
<1>2. CASE JoinLoop \/ MainJoin \/ KProducer \/ DrainAgain \/ InterruptTimer
  BY <1>2, StopLife
<1>3. CASE Putc
  BY <1>3, SignalLife, SemAssumption DEF Putc
<1>4. CASE \/ StartBody \/ ReturnFromEcall \/ ReturnFromTimer \/ LeaveDrain \/ RaiseTimer
           \/ UNCHANGED vars
  BY <1>4, QuietLife DEF StartBody, ReturnFromEcall, ReturnFromTimer, LeaveDrain, RaiseTimer,
                         Continue, vars, cpuVars, threadVars
<1> QED BY <1>1, <1>2, <1>3, <1>4 DEF Next, KernelStep, DrainLoop

(* The kernel keeps what ThreadLife promises of each thread. *)
THEOREM KernelImplementsLife == ASSUME SafeDelete PROVE Spec => LivesAreLegal
<1>1. Init => Life!Init
  BY LifeInit
<1>2. Inv /\ Inv' /\ [Next]_vars => [Life!Next]_Lives
  BY LifeNext DEF LifeStep
<1> QED BY <1>1, <1>2, Invariance, PTL DEF Spec, LivesAreLegal, Life!Spec
=============================================================================
