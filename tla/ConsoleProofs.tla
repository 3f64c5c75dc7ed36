---------------------------- MODULE ConsoleProofs ----------------------------
(***************************************************************************)
(* The console for any number of threads, any capacity, any characters and *)
(* all of Kernel's system calls, among clients that delete only threads    *)
(* that cannot run any more, and as long as dispatch() does not hand out a *)
(* blocked idle (KeptSpec): from then on the count of tokens is wrong.     *)
(*                                                                         *)
(* TokensMatchRing is the heart of it: put() may write because the thread  *)
(* at put_write holds one of the free places that the equation counts,     *)
(* get() may read because the thread at get_read holds one of the          *)
(* characters.  It is not inductive alone.  A step of put() or get() moves *)
(* a thread from one term of the equation to another, so ConsoleInv says   *)
(* what each thread is in the middle of (CallAt), that only the running    *)
(* thread is between two semaphore operations (ParkInv), where the threads *)
(* in a semaphore's queue go on (QueuedInv), and that the mutexes hold     *)
(* nobody up (MutexInv).  Kernel's Inv tells who is in the queues.         *)
(***************************************************************************)
EXTENDS Console, KernelProofs, FiniteSetTheorems

PutLabels == {"put_space", "put_tail", "put_write", "put_item"}
GetLabels == {"get_item", "get_head", "get_read", "get_space"}
Putting == {"putc", "rx"}
Getting == {"getc", "drain"}

(* A thread t can be at label l, doing op, with the character c. *)
Fits(t, l, op, c) ==
  /\ l \in ConsolePC /\ op \in Operation /\ c \in Char \cup {NoChar}
  /\ l \in PutLabels <=> op \in Putting
  /\ l \in GetLabels <=> op \in Getting
  /\ op \in {"putc", "getc"} => t \in Client
  /\ op = "drain" \/ l \in {"drain", "send"} => t = kProd
  /\ l \in {"put_space", "put_tail", "put_write", "send"} => c \in Char
  /\ l = "get_space" /\ op = "drain" => c \in Char

(* The threads that have been started and have not finished: the others    *)
(* are in no operation.                                                    *)
Started == scheduled \ finished

CallAt(t) ==
  /\ Fits(t, pc[t], doing[t], chr[t])
  /\ t \notin Started => doing[t] = "none"

CallInv ==
  /\ doing = [t \in Thread |-> doing[t]] /\ chr = [t \in Thread |-> chr[t]]
  /\ \A t \in Thread : CallAt(t)

(* Where a thread can lose the processor. *)
Parked == {"new", "ecall", "timer", "join", "put_tail", "get_head"}
ParkInv == \A t \in Thread \ {running} : pc[t] \in Parked

(* From the test of the status in 0xFE to the write the transmitter stays  *)
(* ready: nobody else writes.                                              *)
DeviceInv ==
  /\ txReady \in BOOLEAN /\ claimed \in BOOLEAN /\ rxData \in Char \cup {NoChar}
  /\ doing[kProd] = "drain" \/ pc[kProd] = "send" => txReady

(* Is the running thread between the wait and the signal of b's mutex m?   *)
Held(b, m) ==
  /\ pc[running] = (IF m = "tail" THEN "put_write" ELSE "get_read")
  /\ BufferOf(doing[running]) = b

MutexInv ==
  \A b \in Buffer, m \in Mutex :
    /\ blockedQ[<<b, m>>] = <<>>
    /\ val[<<b, m>>] = IF Held(b, m) THEN 0 ELSE 1

(* Threads wait for space in put(), for an item in get() and for anything  *)
(* else in the system call sem_wait.                                       *)
QueuedInv ==
  /\ \A b \in Buffer :
       /\ \A t \in Range(blockedQ[<<b, "space">>]) :
            pc[t] = "put_tail" /\ BufferOf(doing[t]) = b
       /\ \A t \in Range(blockedQ[<<b, "item">>]) :
            pc[t] = "get_head" /\ BufferOf(doing[t]) = b
  /\ \A q \in Sem \ SemsOf : \A t \in Range(blockedQ[q]) : pc[t] = "ecall"

RingInv ==
  /\ buffer \in [Buffer -> [0..Cap -> Char \cup {NoChar}]]
  /\ head \in [Buffer -> 0..Cap] /\ tail \in [Buffer -> 0..Cap]
  /\ \A b \in Buffer : Contents(b) \in Seq(Char)

ConsoleInv ==
  /\ Inv /\ CallInv /\ ParkInv /\ DeviceInv
  /\ MutexInv /\ QueuedInv /\ RingInv /\ TokensMatchRing

-----------------------------------------------------------------------------
(* Counting threads. *)
One(x, S) == IF x \in S THEN 1 ELSE 0

(* Two finite sets that differ in one element at most. *)
LEMMA OneElement ==
  ASSUME NEW P, NEW Q, NEW x, IsFiniteSet(P), P \ {x} = Q \ {x}
  PROVE  /\ IsFiniteSet(Q) /\ Cardinality(P) \in Nat /\ Cardinality(Q) \in Nat
         /\ Cardinality(Q) = Cardinality(P) + One(x, Q) - One(x, P)
<1> DEFINE R == P \ {x}
<1>1. /\ IsFiniteSet(R) /\ Cardinality(P) \in Nat /\ Cardinality(R) \in Nat
      /\ Cardinality(R) = Cardinality(P) - One(x, P)
  <2>1. IsFiniteSet(R) /\ Cardinality(P) \in Nat /\ Cardinality(R) \in Nat
    BY FS_RemoveElement, FS_CardinalityType
  <2>2. Cardinality(R) = IF x \in P THEN Cardinality(P) - 1 ELSE Cardinality(P)
    BY FS_RemoveElement
  <2> QED BY <2>1, <2>2 DEF One
<1>2. R = Q \ {x}
  OBVIOUS
<1> HIDE DEF R
<1>3. CASE x \in Q
  <2>1. Q = R \cup {x} /\ x \notin R
    BY <1>2, <1>3
  <2>2. IsFiniteSet(Q) /\ Cardinality(Q) = Cardinality(R) + 1
    BY <1>1, <2>1, FS_AddElement
  <2> QED BY <1>1, <1>3, <2>2 DEF One
<1>4. CASE x \notin Q
  <2>1. Q = R
    BY <1>2, <1>4
  <2> QED BY <1>1, <1>4, <2>1 DEF One
<1> QED BY <1>3, <1>4

(* The four sets of TokensMatchRing. *)
Claimed(b)    == Past(b, Getting, {"get_head", "get_read"})
Announcing(b) == Past(b, Putting, {"put_item"})
Filling(b)    == Past(b, Putting, {"put_tail", "put_write"})
Freeing(b)    == Past(b, Getting, {"get_space"})

(* TokensMatchRing for one buffer, in these terms. *)
TokensOf(b) ==
  /\ Len(Contents(b)) = Spent(val[<<b, "item">>])
                        + Cardinality(Claimed(b)) + Cardinality(Announcing(b))
  /\ Cap - Len(Contents(b)) = Spent(val[<<b, "space">>])
                        + Cardinality(Filling(b)) + Cardinality(Freeing(b))

(* TokensMatchRing is this for each of the two buffers. *)
LEMMA TokensAre == TokensMatchRing <=> \A c \in Buffer : TokensOf(c)
BY DEF TokensMatchRing, TokensOf, Claimed, Announcing, Filling, Freeing, Putting, Getting

(* And after a step as well. *)
LEMMA TokensNext ==
  ASSUME (\A c \in Buffer : TokensOf(c))'
  PROVE  TokensMatchRing'
BY TokensAre, PTL

(* There are finitely many threads, inside put() and get() too. *)
LEMMA PastFinite ==
  ASSUME NEW b
  PROVE  /\ IsFiniteSet(Claimed(b)) /\ IsFiniteSet(Announcing(b))
         /\ IsFiniteSet(Filling(b)) /\ IsFiniteSet(Freeing(b))
<1>1. ASSUME NEW ops, NEW labels PROVE IsFiniteSet(Past(b, ops, labels))
  <2>1. Past(b, ops, labels) \subseteq Thread
    BY DEF Past
  <2> QED BY <2>1, FS_Subset, ConsoleAssumption
<1> QED BY <1>1 DEF Claimed, Announcing, Filling, Freeing

-----------------------------------------------------------------------------
(* Of all threads only x changes its label, operation or character. *)
OnlyMoves(x) ==
  /\ Labelled'
  /\ doing' = [t \in Thread |-> doing'[t]] /\ chr' = [t \in Thread |-> chr'[t]]
  /\ \A t \in Thread \ {x} :
       pc'[t] = pc[t] /\ doing'[t] = doing[t] /\ chr'[t] = chr[t]

(* The labels at which a thread may be counted in TokensMatchRing. *)
Counted == {"put_tail", "put_write", "put_item", "get_head", "get_read", "get_space"}

(* CallInv is about each thread on its own. *)
LEMMA CallMove ==
  ASSUME CallInv, NEW x \in Thread, OnlyMoves(x), Started \ {x} \subseteq Started',
         CallAt(x)'
  PROVE  CallInv'
<1>1. ASSUME NEW t \in Thread \ {x} PROVE CallAt(t)'
  <2>1. CallAt(t)
    BY DEF CallInv
  <2> QED BY <2>1 DEF OnlyMoves, CallAt
<1> QED BY <1>1 DEF CallInv, OnlyMoves

(* A thread that loses the processor does so at a label where it can. *)
LEMMA ParkMove ==
  ASSUME ParkInv, NEW x \in Thread, OnlyMoves(x), running \in Thread,
         running' = running \/ pc'[running] \in Parked,
         x = running \/ pc'[x] \in Parked
  PROVE  ParkInv'
BY DEF ParkInv, OnlyMoves

(* A thread in a queue goes on where it did while others move, and clients *)
(* wait in sem_wait.                                                       *)
LEMMA QueuedMove ==
  ASSUME QueuedInv, Inv, NEW x \in Thread, OnlyMoves(x), x \notin blocked,
         \A q \in Sem : \A t \in Range(blockedQ'[q]) :
           t \in Range(blockedQ[q]) \/ (q \notin SemsOf /\ pc'[t] = "ecall")
  PROVE  QueuedInv'
<1>1. ASSUME NEW q \in Sem, NEW t \in Range(blockedQ[q])
      PROVE  pc'[t] = pc[t] /\ doing'[t] = doing[t]
  <2>1. t \in blocked /\ t \in Thread
    BY DEF Inv, WaitInv, FlagInv
  <2> QED BY <2>1 DEF OnlyMoves
<1>2. ASSUME NEW b \in Buffer, NEW k \in {"space", "item"}, NEW t \in Range(blockedQ'[<<b, k>>])
      PROVE  /\ pc'[t] = IF k = "space" THEN "put_tail" ELSE "get_head"
             /\ BufferOf(doing'[t]) = b
  <2>1. <<b, k>> \in Sem /\ <<b, k>> \in SemsOf
    BY SemAssumption, ConsoleAssumption DEF SemsOf
  <2>2. t \in Range(blockedQ[<<b, k>>])
    BY <2>1
  <2>3. pc'[t] = pc[t] /\ doing'[t] = doing[t]
    BY <1>1, <2>1, <2>2
  <2>4. pc[t] = (IF k = "space" THEN "put_tail" ELSE "get_head") /\ BufferOf(doing[t]) = b
    BY <2>2 DEF QueuedInv
  <2> QED BY <2>3, <2>4
<1>3. ASSUME NEW q \in Sem \ SemsOf, NEW t \in Range(blockedQ'[q]) PROVE pc'[t] = "ecall"
  BY <1>1 DEF QueuedInv
<1> QED BY <1>2, <1>3 DEF QueuedInv

(* The mutexes are touched only between their wait and their signal. *)
LEMMA MutexMove ==
  ASSUME MutexInv,
         \A b \in Buffer, m \in Mutex : /\ val'[<<b, m>>] = val[<<b, m>>]
                                        /\ blockedQ'[<<b, m>>] = blockedQ[<<b, m>>],
         pc[running] \notin {"put_write", "get_read"},
         pc'[running'] \notin {"put_write", "get_read"}
  PROVE  MutexInv'
<1>1. \A b, m : ~Held(b, m) /\ ~Held(b, m)'
  BY DEF Held
<1> QED BY <1>1 DEF MutexInv

(* What the ring of b holds. *)
LEMMA ContentsFrame ==
  ASSUME UNCHANGED bufferVars, NEW b PROVE Contents(b)' = Contents(b)
BY DEF Contents, bufferVars

(* The ring stays as it is when its variables do. *)
LEMMA RingFrame ==
  ASSUME RingInv, UNCHANGED bufferVars PROVE RingInv'
BY ContentsFrame DEF RingInv, bufferVars

(* Of the threads that are counted none changes. *)
Recounted(x) ==
  /\ pc[x] \notin Counted /\ pc'[x] \notin Counted
  /\ \A t \in Thread \ {x} : pc[t] \in Counted => (t \in blocked' <=> t \in blocked)

(* Then no count changes. *)
LEMMA PastMove ==
  ASSUME NEW x \in Thread, OnlyMoves(x), Recounted(x), NEW b
  PROVE  UNCHANGED <<Claimed(b), Announcing(b), Filling(b), Freeing(b)>>
<1>1. ASSUME NEW ops, NEW labels \in SUBSET Counted
      PROVE  Past(b, ops, labels)' = Past(b, ops, labels)
  <2>1. \A t \in Thread : t \in Past(b, ops, labels)' <=> t \in Past(b, ops, labels)
    BY DEF Past, OnlyMoves, Recounted
  <2> QED BY <2>1 DEF Past
<1>2. /\ {"get_head", "get_read"} \subseteq Counted /\ {"put_item"} \subseteq Counted
      /\ {"put_tail", "put_write"} \subseteq Counted /\ {"get_space"} \subseteq Counted
  BY DEF Counted
<1> QED BY <1>1, <1>2 DEF Claimed, Announcing, Filling, Freeing, Putting, Getting

(* The semaphores of the buffers are left alone. *)
SemsKept == \A q \in SemsOf : val'[q] = val[q] /\ blockedQ'[q] = blockedQ[q]

(* Then TokensMatchRing goes on if the rings do not change either.         *)
LEMMA TokensMove ==
  ASSUME TokensMatchRing, NEW x \in Thread, OnlyMoves(x), Recounted(x), SemsKept,
         UNCHANGED bufferVars
  PROVE  TokensMatchRing'
<1>1. \A b : UNCHANGED <<Claimed(b), Announcing(b), Filling(b), Freeing(b)>>
  BY PastMove
<1>2. \A b : Contents(b)' = Contents(b)
  BY ContentsFrame
<1>3. \A b \in Buffer, k \in {"item", "space"} : val'[<<b, k>>] = val[<<b, k>>]
  BY DEF SemsKept, SemsOf
<1>4. (\A c \in Buffer : TokensOf(c))'
  BY <1>1, <1>2, <1>3, TokensAre DEF TokensOf, Spent
<1> QED BY <1>4, TokensNext

(* A step of x outside put() and get(), in which the semaphores of the     *)
(* buffers are not used.                                                   *)
LEMMA QuietStep ==
  ASSUME ConsoleInv, NEW x \in Thread \ blocked, OnlyMoves(x), CallAt(x)', Recounted(x),
         SemsKept, UNCHANGED bufferVars, Started \ {x} \subseteq Started',
         \A q \in Sem \ SemsOf : \A t \in Range(blockedQ'[q]) :
           t \in Range(blockedQ[q]) \/ pc'[t] = "ecall",
         pc[running] \notin Counted, running' \in Thread,
         running' = running \/ pc'[running] \in Parked,
         x = running \/ pc'[x] \in Parked
  PROVE  CallInv' /\ ParkInv' /\ MutexInv' /\ QueuedInv' /\ RingInv' /\ TokensMatchRing'
<1>1. running \in Thread
  BY DEF ConsoleInv, Inv, CpuInv
<1>2. ParkInv'
  BY <1>1, ParkMove DEF ConsoleInv
<1>3. pc'[running'] \notin {"put_write", "get_read"}
  BY <1>1 DEF ConsoleInv, ParkInv, Parked, OnlyMoves, Counted, Recounted
<1>4. MutexInv'
  <2>1. \A b \in Buffer, m \in Mutex : <<b, m>> \in SemsOf
    BY DEF SemsOf
  <2> QED BY <1>3, <2>1, MutexMove DEF ConsoleInv, Counted, SemsKept
<1>5. QueuedInv'
  <2>1. \A q \in Sem : \A t \in Range(blockedQ'[q]) :
          t \in Range(blockedQ[q]) \/ (q \notin SemsOf /\ pc'[t] = "ecall")
    BY DEF SemsKept
  <2> QED BY <2>1, QueuedMove DEF ConsoleInv
<1> QED BY <1>2, <1>4, <1>5, CallMove, RingFrame, TokensMove DEF ConsoleInv

-----------------------------------------------------------------------------
(* What ConsoleInv says of the running thread. *)
LEMMA RunningIs ==
  ASSUME ConsoleInv
  PROVE  /\ running \in Thread \ blocked /\ running \in Started /\ CallAt(running)
         /\ running # idle => running \in Runnable
BY RunningRunnable DEF ConsoleInv, Inv, CpuInv, FlagInv, Runnable, CallInv, Started

(* Entering an operation, or going on inside one, without a semaphore. *)
LEMMA EnterStep ==
  ASSUME ConsoleInv, NEW op \in Operation, NEW l, NEW c \in Char \cup {NoChar},
         Enter(op, l, c), pc[running] \notin Counted, l \notin Counted,
         Fits(running, l, op, c)
  PROVE  /\ Inv' /\ CallInv' /\ ParkInv' /\ MutexInv' /\ QueuedInv' /\ RingInv'
         /\ TokensMatchRing'
         /\ pc'[running] = l /\ doing'[running] = op /\ chr'[running] = c
         /\ \A t \in Thread \ {running} : pc'[t] = pc[t] /\ doing'[t] = doing[t]
         /\ UNCHANGED <<running, val>>
<1>1. running \in Thread \ blocked
  BY RunningIs
<1>2. Continue(pc[running], l) /\ ssip' \in BOOLEAN
  BY DEF Enter, Continue, ConsoleInv, Inv, ControlInv
<1>3. Inv'
  BY <1>2, ContinueInv DEF ConsoleInv
<1>4. pc'[running] = l /\ \A t \in Thread \ {running} : pc'[t] = pc[t]
  BY <1>1, GoToType DEF Enter, ConsoleInv, Inv
<1>5. /\ doing' = [t \in Thread |-> doing'[t]] /\ chr' = [t \in Thread |-> chr'[t]]
      /\ doing'[running] = op /\ chr'[running] = c
      /\ \A t \in Thread \ {running} : doing'[t] = doing[t] /\ chr'[t] = chr[t]
  BY <1>1 DEF Enter, ConsoleInv, CallInv
<1>6. OnlyMoves(running)
  BY <1>3, <1>4, <1>5 DEF OnlyMoves, Inv, ControlInv
<1>7. UNCHANGED <<running, val, blockedQ, blocked, scheduled, finished, bufferVars>>
  BY DEF Enter, cpuVars, threadVars, semVars
<1>8. UNCHANGED Started /\ SemsKept /\ Recounted(running)
  BY <1>4, <1>7 DEF Started, SemsKept, Recounted
<1>9. CallAt(running)'
  BY <1>4, <1>5, <1>7, <1>8, RunningIs DEF CallAt
<1> QED BY <1>1, <1>3, <1>4, <1>5, <1>6, <1>7, <1>8, <1>9, QuietStep

(* putc and getc are called by client threads, 0xFE by kProducer. *)
LEMMA CallStep ==
  ASSUME ConsoleInv, GetcCall \/ DrainCall \/ \E c \in Written : PutcCall(c)
  PROVE  ConsoleInv'
<1>1. /\ pc[running] = "user" /\ pc[running] \notin Counted
      /\ running \in Thread /\ UNCHANGED <<txReady, rxData, claimed>>
  BY RunningIs DEF GetcCall, DrainCall, PutcCall, ClientCalls, InUser, deviceVars, Counted
<1>2. running # kProd => kProd \in Thread \ {running}
  BY BootThreads
<1>3. CASE GetcCall
  <2>1. running \in Client /\ running # kProd /\ Enter("getc", "get_item", NoChar)
    BY <1>3 DEF GetcCall, ClientCalls, Client, System
  <2>2. Fits(running, "get_item", "getc", NoChar)
    BY <2>1 DEF Fits, ConsolePC, Operation, PutLabels, GetLabels, Putting, Getting
  <2> QED BY <1>1, <1>2, <2>1, <2>2, EnterStep DEF Counted, Operation, ConsoleInv, DeviceInv
<1>4. ASSUME NEW c \in Written, PutcCall(c) PROVE ConsoleInv'
  <2>1. running \in Client /\ running # kProd /\ Enter("putc", "put_space", c)
    BY <1>4 DEF PutcCall, ClientCalls, Client, System
  <2>2. Fits(running, "put_space", "putc", c) /\ c \in Char
    BY <2>1, ConsoleAssumption
       DEF Fits, ConsolePC, Operation, PutLabels, GetLabels, Putting, Getting
  <2> QED BY <1>1, <1>2, <2>1, <2>2, EnterStep DEF Counted, Operation, ConsoleInv, DeviceInv
<1>5. CASE DrainCall
  <2>1. running = kProd /\ Enter("none", "drain", NoChar)
    BY <1>5 DEF DrainCall
  <2>2. Fits(running, "drain", "none", NoChar)
    BY <2>1 DEF Fits, ConsolePC, Operation, PutLabels, GetLabels, Putting, Getting
  <2> QED BY <1>1, <2>1, <2>2, EnterStep DEF Counted, Operation, ConsoleInv, DeviceInv
<1> QED BY <1>3, <1>4, <1>5

(* The loop of 0xFE and the write to the transmitter: only kProducer. *)
LEMMA DrainStep ==
  ASSUME ConsoleInv, DrainTest \/ Send
  PROVE  ConsoleInv'
<1>1. running \in Thread /\ running = kProd /\ pc[running] \notin Counted
  BY RunningIs DEF DrainTest, Send, CallAt, Fits, Counted
<1>2. ASSUME txReady, Enter("drain", "get_item", NoChar), UNCHANGED deviceVars PROVE ConsoleInv'
  <2>1. Fits(running, "get_item", "drain", NoChar)
    BY <1>1 DEF Fits, ConsolePC, Operation, PutLabels, GetLabels, Putting, Getting
  <2> QED BY <1>1, <1>2, <2>1, EnterStep
          DEF Counted, Operation, ConsoleInv, DeviceInv, deviceVars
<1>3. ASSUME Enter("none", "user", NoChar), UNCHANGED deviceVars PROVE ConsoleInv'
  <2>1. Fits(running, "user", "none", NoChar)
    BY DEF Fits, ConsolePC, Operation, PutLabels, GetLabels, Putting, Getting
  <2> QED BY <1>1, <1>3, <2>1, EnterStep
          DEF Counted, Operation, ConsoleInv, DeviceInv, deviceVars
<1>4. ASSUME Enter("none", "drain", NoChar), txReady' = FALSE, UNCHANGED <<rxData, claimed>>
      PROVE  ConsoleInv'
  <2>1. Fits(running, "drain", "none", NoChar)
    BY <1>1 DEF Fits, ConsolePC, Operation, PutLabels, GetLabels, Putting, Getting
  <2>2. /\ CallInv' /\ Inv' /\ ParkInv' /\ MutexInv' /\ QueuedInv' /\ RingInv' /\ TokensMatchRing'
        /\ pc'[running] = "drain" /\ doing'[running] = "none"
        /\ \A t \in Thread \ {running} : pc'[t] = pc[t] /\ doing'[t] = doing[t]
        /\ UNCHANGED <<running, val>>
    <3>1. "none" \in Operation /\ "drain" \notin Counted /\ NoChar \in Char \cup {NoChar}
      BY DEF Operation, Counted
    <3> QED BY <1>1, <1>4, <2>1, <3>1, EnterStep
  <2>3. DeviceInv'
    BY <1>1, <1>4, <2>2 DEF ConsoleInv, DeviceInv
  <2> QED BY <2>2, <2>3 DEF ConsoleInv
<1> QED BY <1>2, <1>3, <1>4 DEF DrainTest, Send

(* The console interrupt, in whichever thread it is taken. *)
LEMMA InterruptStep ==
  ASSUME ConsoleInv, InterruptHardware \/ Receive
  PROVE  ConsoleInv'
<1>1. running \in Thread /\ pc[running] \in {"user", "rx"} /\ pc[running] \notin Counted
  BY RunningIs DEF InterruptHardware, Receive, Counted
<1>2. txReady' = txReady /\ claimed' \in BOOLEAN
  BY DEF InterruptHardware, Receive, ConsoleInv, DeviceInv
<1>3. running # kProd => kProd \in Thread \ {running}
  BY BootThreads
<1>4. ASSUME NEW l \in {"user", "rx"}, Enter("none", l, NoChar), UNCHANGED rxData PROVE ConsoleInv'
  <2>1. Fits(running, l, "none", NoChar)
    BY <1>4 DEF Fits, ConsolePC, Operation, PutLabels, GetLabels, Putting, Getting
  <2> QED BY <1>1, <1>2, <1>3, <1>4, <2>1, EnterStep
          DEF Counted, Operation, ConsoleInv, DeviceInv
<1>5. ASSUME rxData # NoChar, Enter("rx", "put_space", rxData), rxData' = NoChar PROVE ConsoleInv'
  <2>1. rxData \in Char
    BY <1>5 DEF ConsoleInv, DeviceInv
  <2>2. Fits(running, "put_space", "rx", rxData)
    BY <2>1 DEF Fits, ConsolePC, Operation, PutLabels, GetLabels, Putting, Getting
  <2> QED BY <1>1, <1>2, <1>3, <1>5, <2>1, <2>2, EnterStep
          DEF Counted, Operation, ConsoleInv, DeviceInv
<1> QED BY <1>4, <1>5 DEF InterruptHardware, Receive

(* A step that changes no thread's place, no semaphore of the buffers and  *)
(* no ring.                                                                *)
LEMMA StandStep ==
  ASSUME ConsoleInv, UNCHANGED <<running, pc, doing, chr, bufferVars>>,
         Started \subseteq Started', SemsKept,
         \A t \in Thread : pc[t] \in Counted => (t \in blocked' <=> t \in blocked),
         \A q \in Sem \ SemsOf : Range(blockedQ'[q]) \subseteq Range(blockedQ[q])
  PROVE  CallInv' /\ ParkInv' /\ MutexInv' /\ QueuedInv' /\ RingInv' /\ TokensMatchRing'
<1>1. \A b \in Buffer, k \in {"item", "space", "head", "tail"} :
        val'[<<b, k>>] = val[<<b, k>>] /\ blockedQ'[<<b, k>>] = blockedQ[<<b, k>>]
  BY DEF SemsKept, SemsOf, Mutex
<1>2. CallInv' /\ ParkInv'
  BY DEF ConsoleInv, CallInv, CallAt, ParkInv
<1>3. MutexInv'
  <2>1. \A b, m : Held(b, m)' <=> Held(b, m)
    BY DEF Held
  <2>2. \A b \in Buffer, m \in Mutex :
          val'[<<b, m>>] = val[<<b, m>>] /\ blockedQ'[<<b, m>>] = blockedQ[<<b, m>>]
    BY <1>1 DEF Mutex
  <2>3. MutexInv
    BY DEF ConsoleInv
  <2> QED BY <2>1, <2>2, <2>3 DEF MutexInv
<1>4. QueuedInv'
  BY <1>1 DEF ConsoleInv, QueuedInv
<1>5. TokensMatchRing'
  <2>1. ASSUME NEW b, NEW ops, NEW labels \in SUBSET Counted
        PROVE  Past(b, ops, labels)' = Past(b, ops, labels)
    <3>1. \A t \in Thread : t \in Past(b, ops, labels)' <=> t \in Past(b, ops, labels)
      BY DEF Past
    <3> QED BY <3>1 DEF Past
  <2>2. /\ {"get_head", "get_read"} \subseteq Counted /\ {"put_item"} \subseteq Counted
        /\ {"put_tail", "put_write"} \subseteq Counted /\ {"get_space"} \subseteq Counted
    BY DEF Counted
  <2>3. \A b : /\ Contents(b)' = Contents(b)
               /\ UNCHANGED <<Claimed(b), Announcing(b), Filling(b), Freeing(b)>>
    BY <2>1, <2>2, ContentsFrame DEF Claimed, Announcing, Filling, Freeing
  <2>4. (\A c \in Buffer : TokensOf(c))'
    BY <1>1, <2>3, TokensAre DEF ConsoleInv, TokensOf, Spent
  <2> QED BY <2>4, TokensNext
<1> QED BY <1>2, <1>3, <1>4, <1>5, RingFrame DEF ConsoleInv

(* The device itself touches no thread. *)
LEMMA DeviceStep ==
  ASSUME ConsoleInv, TransmitterReady \/ \E c \in Typed : Arrive(c)
  PROVE  ConsoleInv'
<1>1. UNCHANGED <<vars, claimed, bufferVars, callVars>>
  BY DEF TransmitterReady, Arrive
<1>2. Inv'
  BY <1>1, StutterInv DEF ConsoleInv
<1>3. UNCHANGED <<running, pc, doing, chr, scheduled, finished, blocked, val, blockedQ>>
  BY <1>1 DEF vars, cpuVars, threadVars, semVars, callVars
<1>4. DeviceInv'
  BY <1>1, <1>3, ConsoleAssumption DEF ConsoleInv, DeviceInv, TransmitterReady, Arrive
<1> QED BY <1>1, <1>2, <1>3, <1>4, StandStep DEF ConsoleInv, Started, SemsKept

(* The labels outside the console's operations. *)
Outside == {"user", "new", "ecall", "timer", "join", "done"}

(* The running thread goes on, or gives the processor up, outside the      *)
(* console's operations.                                                   *)
LEMMA OutsideStep ==
  ASSUME ConsoleInv, Inv', pc[running] \in Outside, NEW l \in Outside, GoTo(l),
         running' = running \/ l \in Parked, Started \ {running} \subseteq Started',
         SemsKept, \A t \in Thread \ {running} : t \in blocked' <=> t \in blocked,
         \A q \in Sem \ SemsOf : \A t \in Range(blockedQ'[q]) :
           t \in Range(blockedQ[q]) \/ (t = running /\ l = "ecall"),
         UNCHANGED <<bufferVars, deviceVars, callVars>>
  PROVE  ConsoleInv'
<1>1. /\ running \in Thread \ blocked /\ doing[running] = "none"
      /\ pc'[running] = l /\ \A t \in Thread \ {running} : pc'[t] = pc[t]
  <2>1. doing[running] = "none"
    BY RunningIs
       DEF CallAt, Fits, Outside, Operation, PutLabels, GetLabels, Putting, Getting
  <2> QED BY <2>1, RunningIs, GoToType DEF ConsoleInv, Inv
<1>2. UNCHANGED <<doing, chr, txReady, rxData, claimed>> /\ running' \in Thread
  BY DEF callVars, deviceVars, Inv, CpuInv
<1>3. OnlyMoves(running)
  BY <1>1, <1>2 DEF OnlyMoves, ConsoleInv, CallInv, Inv, ControlInv
<1>4. PICK r \in Thread : r = running
  BY <1>1
<1>5. CallAt(r)'
  <2>1. Fits(running, l, "none", chr[running])
    BY RunningIs DEF CallAt, Fits, Outside, ConsolePC, Operation, PutLabels, GetLabels,
                     Putting, Getting
  <2> QED BY <1>1, <1>2, <1>4, <2>1 DEF CallAt
<1>6. pc[running] \notin Counted /\ Recounted(running)
  BY <1>1 DEF Outside, Counted, Recounted
<1>7. \A q \in Sem \ SemsOf : \A t \in Range(blockedQ'[q]) :
        t \in Range(blockedQ[q]) \/ pc'[t] = "ecall"
  BY <1>1
<1>8. CallInv' /\ ParkInv' /\ MutexInv' /\ QueuedInv' /\ RingInv' /\ TokensMatchRing'
  BY <1>1, <1>2, <1>3, <1>4, <1>5, <1>6, <1>7, QuietStep
<1>9. DeviceInv'
  <2>1. pc'[kProd] = "send" => pc[kProd] = "send"
    BY <1>1, BootThreads DEF Outside
  <2> QED BY <1>2, <2>1 DEF ConsoleInv, DeviceInv
<1> QED BY <1>8, <1>9 DEF ConsoleInv

(* thread_create and thread_create_only: a new thread starts outside the   *)
(* console's operations.                                                   *)
LEMMA CreateStep ==
  ASSUME ConsoleInv, NEW t \in Thread, NEW hasBody \in BOOLEAN,
         ThreadCreate(t, hasBody) \/ ThreadCreateOnly(t, hasBody),
         UNCHANGED <<bufferVars, deviceVars, callVars>>
  PROVE  ConsoleInv'
<1>1. Inv'
  BY ThreadCreateInv, ThreadCreateOnlyInv DEF ConsoleInv
<1>2. /\ Construct(t, hasBody) /\ UNCHANGED <<semVars, sleepQ>> /\ UNCHANGED running
      /\ scheduled \subseteq scheduled'
  BY DEF ThreadCreate, ThreadCreateOnly, cpuVars
<1>3. blocked' = blocked /\ t \notin scheduled /\ finished' = finished \ {t}
  BY <1>2, ConstructInv DEF ConsoleInv
<1>4. doing[t] = "none" /\ pc[t] \notin Counted /\ t \notin blocked
  BY <1>3 DEF ConsoleInv, CallInv, CallAt, Fits, Started, PutLabels, GetLabels, Putting,
              Getting, Counted, Inv, FlagInv
<1>5. UNCHANGED <<doing, chr, txReady, rxData, claimed, val, blockedQ>>
  BY <1>2 DEF callVars, deviceVars, semVars
<1>6. pc'[t] = "new" /\ \A u \in Thread \ {t} : pc'[u] = pc[u]
  BY <1>2 DEF Construct, ConsoleInv, Inv, ControlInv, Labelled
<1>7. OnlyMoves(t)
  BY <1>1, <1>5, <1>6 DEF OnlyMoves, ConsoleInv, CallInv, Inv, ControlInv
<1>8. CallAt(t)'
  <2>1. Fits(t, "new", "none", chr[t])
    BY DEF ConsoleInv, CallInv, CallAt, Fits, ConsolePC, Operation, PutLabels, GetLabels,
           Putting, Getting
  <2> QED BY <1>4, <1>5, <1>6, <2>1 DEF CallAt
<1>9. pc[running] \notin Counted /\ Recounted(t)
  BY <1>3, <1>4, <1>6 DEF ThreadCreate, ThreadCreateOnly, ClientCalls, InUser, Counted, Recounted
<1>10. running' \in Thread /\ pc'[t] \in Parked
  BY <1>1, <1>6 DEF Inv, CpuInv, Parked
<1>11. Started \subseteq Started' /\ SemsKept
  BY <1>2, <1>3, <1>5 DEF Started, SemsKept
<1>12. CallInv' /\ ParkInv' /\ MutexInv' /\ QueuedInv' /\ RingInv' /\ TokensMatchRing'
  BY <1>2, <1>4, <1>5, <1>7, <1>8, <1>9, <1>10, <1>11, QuietStep
<1>13. DeviceInv'
  BY <1>5, <1>6, BootThreads DEF ConsoleInv, DeviceInv
<1> QED BY <1>1, <1>12, <1>13 DEF ConsoleInv

(* Starting and deleting threads moves none. *)
LEMMA StartDeleteStep ==
  ASSUME SafeDelete, ConsoleInv, NEW t \in Thread, ThreadScheduleOnly(t) \/ ThreadDeleteOnly(t),
         UNCHANGED <<bufferVars, deviceVars, callVars>>
  PROVE  ConsoleInv'
<1>1. Inv'
  BY ThreadScheduleOnlyInv, ThreadDeleteOnlyInv DEF ConsoleInv
<1>2. UNCHANGED <<running, pc, finished, blocked, val, blockedQ>>
  BY DEF ThreadScheduleOnly, ThreadDeleteOnly, cpuVars, semVars
<1>3. UNCHANGED <<doing, chr, txReady, rxData, claimed>>
  BY DEF callVars, deviceVars
<1>4. Started \subseteq Started'
  BY <1>2 DEF Started, ThreadScheduleOnly, ThreadDeleteOnly, MayDelete
<1> QED BY <1>1, <1>2, <1>3, <1>4, StandStep DEF ConsoleInv, DeviceInv, SemsKept

(* The semaphores of clients are not those of the buffers. *)
LEMMA ClientSemStep ==
  ASSUME ConsoleInv, IdleKept', NEW s \in Sem,
         \/ \E init \in 0..MaxVal : SemOpen(s, init)
         \/ SemClose(s) \/ SemWait(s) \/ SemSignal(s),
         UNCHANGED <<bufferVars, deviceVars, callVars>>
  PROVE  ConsoleInv'
<1>1. Inv /\ IdleStays' /\ val \in [Sem -> Int] /\ blockedQ \in [Sem -> Queue(Thread)]
  BY DEF IdleKept, IdleStays, ConsoleInv, Inv, WaitInv
<1>2. UNCHANGED <<doing, chr, txReady, rxData, claimed>>
  BY DEF callVars, deviceVars
<1>3. s \notin SemsOf
  BY SemAssumption, ConsoleAssumption
     DEF SemOpen, SemClose, SemWait, SemSignal, ConsoleInv, Inv, ControlInv
<1>4. \A q \in SemsOf : q \in Sem /\ q # s
  BY <1>3, SemAssumption, ConsoleAssumption
<1>5. CASE SemClose(s) \/ \E init \in 0..MaxVal : SemOpen(s, init)
  <2>1. Inv'
    BY <1>1, <1>5, SemOpenInv, SemCloseInv, BoundAssumption
  <2>2. UNCHANGED <<running, pc, scheduled, finished, blocked>>
    BY <1>5 DEF SemOpen, SemClose, cpuVars, threadVars
  <2>3. SemsKept
    BY <1>1, <1>4, <1>5 DEF SemsKept, SemOpen, SemClose
  <2>4. \A q \in Sem : Range(blockedQ'[q]) \subseteq Range(blockedQ[q])
    BY <1>1, <1>5, QueueEmpty DEF SemOpen, SemClose
  <2> QED BY <1>2, <2>1, <2>2, <2>3, <2>4, StandStep DEF ConsoleInv, DeviceInv, Started
<1>6. CASE SemWait(s)
  <2>1. s \in opened /\ Wait(s, "ecall") /\ pc[running] = "user"
    BY <1>6 DEF SemWait, ClientCalls, InUser
  <2>2. Inv'
    BY <1>1, <2>1, WaitStepInv
  <2>3. GoTo("ecall") /\ UNCHANGED <<scheduled, finished>>
    BY <2>1 DEF Wait
  <2>4. SemsKept
    BY <1>1, <1>4, <2>1 DEF SemsKept, Wait
  <2>5. running \in Thread /\ running \notin blocked
    BY RunningIs
  <2>6. \A t \in Thread \ {running} : t \in blocked' <=> t \in blocked
    BY <2>1 DEF Wait
  <2>7. \A q \in Sem : \A t \in Range(blockedQ'[q]) : t \in Range(blockedQ[q]) \/ t = running
    <3>1. \A q \in Sem \ {s} : blockedQ'[q] = blockedQ[q]
      BY <1>1, <2>1 DEF Wait
    <3>2. blockedQ'[s] = blockedQ[s] \/ blockedQ'[s] = Append(blockedQ[s], running)
      BY <1>1, <2>1 DEF Wait
    <3>3. Range(Append(blockedQ[s], running)) = Range(blockedQ[s]) \cup {running}
      <4>1. running \notin Range(blockedQ[s]) /\ blockedQ[s] \in Queue(Thread)
        BY <1>1, <2>5 DEF Inv, WaitInv
      <4> QED BY <2>5, <4>1, QueueAppend
    <3> QED BY <3>1, <3>2, <3>3
  <2> QED BY <2>1, <2>2, <2>3, <2>4, <2>6, <2>7, OutsideStep DEF Outside, Parked, Started
<1>7. CASE SemSignal(s)
  <2>1. /\ s \in opened /\ Signal(s) /\ SignalFrame /\ UNCHANGED pc
        /\ UNCHANGED <<running, scheduled, finished>>
    BY <1>7 DEF SemSignal, SignalFrame
  <2>2. Inv'
    BY <1>1, <2>1, SignalStepInv DEF Inv, ControlInv, Labelled
  <2>3. SemsKept
    BY <1>1, <1>4, <2>1 DEF SemsKept, Signal
  <2>4. CASE UNCHANGED <<blocked, blockedQ>>
    BY <1>2, <2>1, <2>2, <2>3, <2>4, StandStep DEF ConsoleInv, DeviceInv, Started
  <2>5. CASE /\ val[s] + 1 <= 0
             /\ blocked' = blocked \ {Head(blockedQ[s])}
             /\ blockedQ' = [blockedQ EXCEPT ![s] = Tail(@)]
    <3>1. blockedQ[s] # <<>>
      <4>1. val[s] \in Int /\ val[s] < 0
        BY <1>1, <2>5
      <4>2. Len(blockedQ[s]) = -val[s]
        BY <1>1, <4>1 DEF Inv, WaitInv, ValCountsWaiters
      <4> QED BY <4>1, <4>2
    <3>2. PICK h : h = Head(blockedQ[s])
      OBVIOUS
    <3>3. h \in Range(blockedQ[s]) /\ Range(Tail(blockedQ[s])) = Range(blockedQ[s]) \ {h}
      BY <1>1, <3>1, <3>2, QueueTail
    <3>4. pc[h] \notin Counted
      BY <1>3, <3>3 DEF ConsoleInv, QueuedInv, Counted
    <3>5. \A t \in Thread : pc[t] \in Counted => (t \in blocked' <=> t \in blocked)
      BY <2>5, <3>2, <3>4
    <3>6. \A q \in Sem : Range(blockedQ'[q]) \subseteq Range(blockedQ[q])
      BY <1>1, <2>5, <3>3
    <3> QED BY <1>2, <2>1, <2>2, <2>3, <3>5, <3>6, StandStep DEF ConsoleInv, DeviceInv, Started
  <2> QED BY <2>1, <2>4, <2>5 DEF Signal
<1> QED BY <1>5, <1>6, <1>7

(* Kernel's own steps. *)
LEMMA SchedulingStep ==
  ASSUME SafeDelete, ConsoleInv, Scheduling, IdleKept'
  PROVE  ConsoleInv'
<1>1. UNCHANGED <<bufferVars, deviceVars, callVars>> /\ Inv /\ IdleStays'
  BY DEF Scheduling, ConsoleInv, IdleKept, IdleStays
<1>2. ASSUME NEW t \in Thread, NEW hasBody \in Bodies,
             ThreadCreate(t, hasBody) \/ ThreadCreateOnly(t, hasBody)
      PROVE  ConsoleInv'
  BY <1>1, <1>2, CreateStep, ClientAssumption
<1>3. ASSUME NEW t \in Thread, ThreadScheduleOnly(t) \/ ThreadDeleteOnly(t) PROVE ConsoleInv'
  BY <1>1, <1>3, StartDeleteStep
<1>4. ASSUME NEW l \in Outside, GoTo(l), running' = running \/ l \in Parked, Inv',
             pc[running] \in Outside, Started \ {running} \subseteq Started',
             UNCHANGED <<val, blockedQ, blocked>>
      PROVE  ConsoleInv'
  BY <1>1, <1>4, OutsideStep DEF SemsKept
<1>5. CASE ThreadExit \/ ThreadDispatch \/ \E time \in 1..MaxSleep : TimeSleep(time)
  <2>1. Inv'
    BY <1>1, <1>5, ThreadExitInv, ThreadDispatchInv, TimeSleepInv, BoundAssumption
  <2>2. /\ pc[running] = "user" /\ GoTo("ecall")
        /\ UNCHANGED <<val, blockedQ, blocked, scheduled>>
        /\ finished' \subseteq finished \cup {running}
    BY <1>5 DEF ThreadExit, ThreadDispatch, TimeSleep, ClientCalls, InUser, threadVars, semVars
  <2> QED BY <1>4, <2>1, <2>2 DEF Outside, Parked, Started
<1>6. CASE StartBody \/ ReturnFromEcall \/ ReturnFromTimer
  <2>1. PICK from \in {"new", "ecall", "timer"} : Continue(from, "user") /\ ssip' \in BOOLEAN
    BY <1>1, <1>6 DEF StartBody, ReturnFromEcall, ReturnFromTimer, Inv, ControlInv
  <2>2. Inv'
    BY <1>1, <2>1, ContinueInv
  <2>3. /\ pc[running] \in Outside /\ GoTo("user")
        /\ UNCHANGED <<running, val, blockedQ, blocked, scheduled, finished>>
    BY <2>1 DEF Continue, Outside, cpuVars, threadVars, semVars
  <2> QED BY <1>4, <2>2, <2>3 DEF Outside, Started
<1>7. CASE JoinLoop \/ MainJoin \/ \E t \in Thread : ThreadJoin(t)
  <2>1. Inv'
    BY <1>1, <1>7, JoiningInv, JoinTestInv DEF ThreadJoin
  <2>2. \E t, leave, label : /\ leave \in {"user", "join", "done"}
                             /\ JoinTest(t, leave, label) /\ pc[running] \in {"join", "user"}
    BY <1>7 DEF JoinLoop, MainJoin, ThreadJoin, ClientCalls, InUser
  <2>3. PICK t, leave, label : /\ leave \in {"user", "join", "done"}
                               /\ JoinTest(t, leave, label) /\ pc[running] \in {"join", "user"}
    BY <2>2
  <2>4. UNCHANGED <<val, blockedQ, blocked, scheduled, finished>>
    BY <2>3 DEF JoinTest, threadVars, semVars
  <2>5. (GoTo(leave) /\ UNCHANGED running) \/ GoTo("join")
    BY <2>3 DEF JoinTest, cpuVars
  <2> QED BY <1>4, <2>1, <2>3, <2>4, <2>5 DEF Outside, Parked, Started
<1>8. ASSUME NEW s \in Sem, \/ \E init \in 0..MaxVal : SemOpen(s, init)
                           \/ SemClose(s) \/ SemWait(s) \/ SemSignal(s)
      PROVE  ConsoleInv'
  BY <1>1, <1>8, ClientSemStep
<1>9. ASSUME UNCHANGED <<running, pc, scheduled, finished, blocked, val, blockedQ>>, Inv'
      PROVE  ConsoleInv'
  <2>1. UNCHANGED <<doing, chr, txReady, rxData, claimed>>
    BY <1>1 DEF callVars, deviceVars
  <2> QED BY <1>1, <1>9, <2>1, StandStep DEF ConsoleInv, DeviceInv, Started, SemsKept
<1>10. CASE RaiseTimer
  <2>1. UNCHANGED <<running, pc, scheduled, finished, blocked, val, blockedQ>>
    BY <1>10 DEF RaiseTimer, cpuVars, threadVars, semVars
  <2> QED BY <1>1, <1>9, <1>10, <2>1, RaiseTimerInv
<1>11. CASE InterruptTimer
  <2>1. Inv'
    BY <1>1, <1>11, InterruptTimerInv
  <2>2. /\ pc[running] = "user" /\ UNCHANGED <<val, blockedQ, blocked, scheduled, finished>>
        /\ GoTo("timer") \/ UNCHANGED <<running, pc>>
    BY <1>11 DEF InterruptTimer, semVars
  <2>3. CASE GoTo("timer")
    BY <1>4, <2>1, <2>2, <2>3 DEF Outside, Parked, Started
  <2> QED BY <1>9, <2>1, <2>2, <2>3
<1> QED BY <1>2, <1>3, <1>5, <1>6, <1>7, <1>8, <1>10, <1>11
        DEF Scheduling, KernelStep, ClientSyscall

-----------------------------------------------------------------------------
(* Counting when only thread x changes its place or its blocked flag. *)
LEMMA CountShift ==
  ASSUME NEW x \in Thread, NEW b,
         \A t \in Thread \ {x} : /\ pc'[t] = pc[t] /\ doing'[t] = doing[t]
                                 /\ t \in blocked' <=> t \in blocked
  PROVE  /\ Cardinality(Claimed(b)') = Cardinality(Claimed(b)) + One(x, Claimed(b)') - One(x, Claimed(b))
         /\ Cardinality(Announcing(b)') = Cardinality(Announcing(b)) + One(x, Announcing(b)') - One(x, Announcing(b))
         /\ Cardinality(Filling(b)') = Cardinality(Filling(b)) + One(x, Filling(b)') - One(x, Filling(b))
         /\ Cardinality(Freeing(b)') = Cardinality(Freeing(b)) + One(x, Freeing(b)') - One(x, Freeing(b))
<1>1. \A ops, labels : Past(b, ops, labels)' \ {x} = Past(b, ops, labels) \ {x}
  BY DEF Past
<1> QED BY <1>1, PastFinite, OneElement DEF Claimed, Announcing, Filling, Freeing

(* The counts are natural numbers, and a thread is in at most one set. *)
LEMMA CountsAre ==
  ASSUME NEW b, NEW x \in Thread
  PROVE  /\ Cardinality(Claimed(b)) \in Nat /\ Cardinality(Announcing(b)) \in Nat
         /\ Cardinality(Filling(b)) \in Nat /\ Cardinality(Freeing(b)) \in Nat
         /\ x \in Claimed(b) <=> /\ x \notin blocked /\ doing[x] \in Getting
                                 /\ BufferOf(doing[x]) = b /\ pc[x] \in {"get_head", "get_read"}
         /\ x \in Announcing(b) <=> /\ x \notin blocked /\ doing[x] \in Putting
                                    /\ BufferOf(doing[x]) = b /\ pc[x] = "put_item"
         /\ x \in Filling(b) <=> /\ x \notin blocked /\ doing[x] \in Putting
                                 /\ BufferOf(doing[x]) = b /\ pc[x] \in {"put_tail", "put_write"}
         /\ x \in Freeing(b) <=> /\ x \notin blocked /\ doing[x] \in Getting
                                 /\ BufferOf(doing[x]) = b /\ pc[x] = "get_space"
BY PastFinite, FS_CardinalityType DEF Claimed, Announcing, Filling, Freeing, Past

(* The same after a step. *)
LEMMA CountsBecome ==
  ASSUME NEW b, NEW x \in Thread
  PROVE  /\ x \in Claimed(b)' <=> /\ x \notin blocked' /\ doing'[x] \in Getting
                                  /\ BufferOf(doing'[x]) = b /\ pc'[x] \in {"get_head", "get_read"}
         /\ x \in Announcing(b)' <=> /\ x \notin blocked' /\ doing'[x] \in Putting
                                     /\ BufferOf(doing'[x]) = b /\ pc'[x] = "put_item"
         /\ x \in Filling(b)' <=> /\ x \notin blocked' /\ doing'[x] \in Putting
                                  /\ BufferOf(doing'[x]) = b /\ pc'[x] \in {"put_tail", "put_write"}
         /\ x \in Freeing(b)' <=> /\ x \notin blocked' /\ doing'[x] \in Getting
                                  /\ BufferOf(doing'[x]) = b /\ pc'[x] = "get_space"
BY DEF Claimed, Announcing, Filling, Freeing, Past

(* The semaphores of the buffers are four for each, and all are open. *)
LEMMA SemsAre ==
  /\ \A b \in Buffer, k \in {"item", "space", "head", "tail"} : <<b, k>> \in Sem
  /\ Inv => \A b \in Buffer, k \in {"item", "space", "head", "tail"} : <<b, k>> \in opened
BY SemAssumption, ConsoleAssumption DEF SemsOf, Mutex, Inv, ControlInv

(* A semaphore's wait in put() or get(): it passes, or the thread gives    *)
(* the processor up behind those that wait already.                        *)
Waited(b, k, label) ==
  /\ OnlyMoves(running) /\ pc'[running] = label
  /\ UNCHANGED <<doing, chr, txReady, rxData, claimed, bufferVars, Started>>
  /\ val[<<b, k>>] \in Int
  /\ \A q \in Sem : val'[q] = IF q = <<b, k>> THEN val[<<b, k>>] - 1 ELSE val[q]
  /\ \/ val[<<b, k>>] > 0 /\ UNCHANGED <<running, blocked, blockedQ>>
     \/ /\ val[<<b, k>>] <= 0 /\ running' # running
        /\ blocked' = blocked \cup {running}
        /\ \A q \in Sem \ {<<b, k>>} : blockedQ'[q] = blockedQ[q]
        /\ Range(blockedQ'[<<b, k>>]) = Range(blockedQ[<<b, k>>]) \cup {running}

(* That is what AwaitAt does. *)
LEMMA AwaitIs ==
  ASSUME ConsoleInv, NEW k \in {"item", "space", "head", "tail"}, NEW from, NEW label,
         AwaitAt(from, k, label), NEW b \in Buffer, b = BufferOf(doing[running]), IdleKept'
  PROVE  Inv' /\ Waited(b, k, label)
<1>1. PICK s \in opened : s = <<b, k>>
  BY SemsAre DEF ConsoleInv
<1>2. /\ Wait(s, label) /\ pc[running] = from /\ s \in Sem
      /\ UNCHANGED <<bufferVars, deviceVars, callVars>>
  BY <1>1, SemsAre DEF AwaitAt, Of
<1>3. Inv'
  BY <1>1, <1>2, WaitStepInv DEF ConsoleInv, IdleKept, IdleStays
<1>4. running \in Thread \ blocked /\ val \in [Sem -> Int] /\ blockedQ \in [Sem -> Queue(Thread)]
  BY RunningIs DEF ConsoleInv, Inv, WaitInv
<1>5. pc'[running] = label /\ \A t \in Thread \ {running} : pc'[t] = pc[t]
  BY <1>2, <1>4, GoToType DEF Wait, ConsoleInv, Inv
<1>6. UNCHANGED <<doing, chr, txReady, rxData, claimed, bufferVars, Started>>
  BY <1>2 DEF callVars, deviceVars, Wait, Started
<1>7. OnlyMoves(running)
  BY <1>3, <1>5, <1>6 DEF OnlyMoves, ConsoleInv, CallInv, Inv, ControlInv
<1>8. /\ val[s] \in Int
      /\ \A q \in Sem : val'[q] = IF q = s THEN val[s] - 1 ELSE val[q]
  BY <1>2, <1>4 DEF Wait
<1>9. CASE val[s] - 1 >= 0 /\ UNCHANGED <<blocked, blockedQ, cpuVars>>
  <2>1. val[s] > 0 /\ UNCHANGED <<running, blocked, blockedQ>>
    BY <1>8, <1>9 DEF cpuVars
  <2> QED BY <1>1, <1>2, <1>3, <1>5, <1>6, <1>7, <1>8, <2>1 DEF Waited
<1>10. CASE /\ val[s] - 1 < 0
            /\ blocked' = blocked \cup {running}
            /\ blockedQ' = [blockedQ EXCEPT ![s] = Append(@, running)]
  <2>1. running \in blocked' /\ running' \notin blocked'
    BY <1>10 DEF IdleKept
  <2>2. \A q \in Sem \ {s} : blockedQ'[q] = blockedQ[q]
    BY <1>4, <1>10
  <2>3. running \notin Range(blockedQ[s])
    BY <1>2, <1>4 DEF ConsoleInv, Inv, WaitInv
  <2>4. Range(blockedQ'[s]) = Range(blockedQ[s]) \cup {running}
    <3>1. blockedQ'[s] = Append(blockedQ[s], running) /\ blockedQ[s] \in Queue(Thread)
      BY <1>2, <1>4, <1>10
    <3> QED BY <1>4, <2>3, <3>1, QueueAppend
  <2>5. val[s] <= 0 /\ running' # running
    BY <1>8, <1>10, <2>1
  <2> QED BY <1>1, <1>2, <1>3, <1>5, <1>6, <1>7, <1>8, <1>10, <2>2, <2>4, <2>5 DEF Waited
<1> QED BY <1>2, <1>9, <1>10 DEF Wait

(* The running thread waits for space in put() or for an item in get(). *)
LEMMA CountedWait ==
  ASSUME ConsoleInv, PutSpace \/ GetItem, IdleKept'
  PROVE  ConsoleInv'
<1>1. PICK k, from, label :
        /\ \/ k = "space" /\ from = "put_space" /\ label = "put_tail"
           \/ k = "item" /\ from = "get_item" /\ label = "get_head"
        /\ AwaitAt(from, k, label)
  BY DEF PutSpace, GetItem
<1>2. PICK b \in Buffer : b = BufferOf(doing[running])
  BY DEF BufferOf, Buffer
<1>3. pc[running] = from
  BY <1>1 DEF AwaitAt
<1>4. /\ running \in Thread \ blocked /\ CallAt(running)
      /\ k = "space" => doing[running] \in Putting
      /\ k = "item" => doing[running] \in Getting
  BY <1>1, <1>3, RunningIs DEF CallAt, Fits, PutLabels, GetLabels
<1>6. k \in {"item", "space", "head", "tail"}
  BY <1>1
<1>7. Inv' /\ Waited(b, k, label)
  BY <1>1, <1>2, <1>6, AwaitIs
<1>8. PICK r \in Thread : r = running
  BY <1>4
<1>9. CallInv'
  <2>1. Fits(r, label, doing[r], chr[r])
    BY <1>1, <1>3, <1>4, <1>8
       DEF CallAt, Fits, PutLabels, GetLabels, Putting, Getting, ConsolePC
  <2>2. CallAt(r)'
    BY <1>7, <1>8, <2>1, RunningIs DEF Waited, CallAt
  <2> QED BY <1>7, <1>8, <2>2, CallMove DEF Waited, ConsoleInv
<1>10. ParkInv'
  BY <1>1, <1>4, <1>7, ParkMove DEF Waited, ConsoleInv, Parked
<1>11. running' \in Thread
  BY <1>7 DEF Waited, Inv, CpuInv
<1>12. MutexInv'
  <2>1. pc'[running'] \notin {"put_write", "get_read"}
    BY <1>1, <1>7, <1>11 DEF Waited, ConsoleInv, ParkInv, Parked, OnlyMoves
  <2>2. \A c \in Buffer, m \in Mutex : <<c, m>> # <<b, k>> /\ <<c, m>> \in Sem
    BY <1>1, SemsAre DEF Mutex
  <2>3. \A c \in Buffer, m \in Mutex : /\ val'[<<c, m>>] = val[<<c, m>>]
                                       /\ blockedQ'[<<c, m>>] = blockedQ[<<c, m>>]
    BY <1>7, <2>2 DEF Waited
  <2> QED BY <1>1, <1>3, <2>1, <2>3, MutexMove DEF ConsoleInv
<1>13. QueuedInv'
  <2>1. CASE UNCHANGED blockedQ
    BY <1>4, <1>7, <2>1, QueuedMove DEF Waited, ConsoleInv
  <2>2. CASE /\ \A q \in Sem \ {<<b, k>>} : blockedQ'[q] = blockedQ[q]
             /\ Range(blockedQ'[<<b, k>>]) = Range(blockedQ[<<b, k>>]) \cup {running}
    <3>1. ASSUME NEW c \in Buffer, NEW i \in {"space", "item"}, NEW t \in Range(blockedQ'[<<c, i>>])
          PROVE  /\ pc'[t] = IF i = "space" THEN "put_tail" ELSE "get_head"
                 /\ BufferOf(doing'[t]) = c
      <4>1. <<c, i>> \in Sem
        BY SemsAre
      <4>2. CASE t = running
        <5>1. running \notin Range(blockedQ[<<c, i>>])
          BY <1>4, <4>1 DEF ConsoleInv, Inv, WaitInv
        <5>2. <<c, i>> = <<b, k>>
          BY <2>2, <3>1, <4>1, <4>2, <5>1
        <5> QED BY <1>1, <1>2, <1>7, <4>2, <5>2 DEF Waited
      <4>3. CASE t # running
        <5>1. t \in Range(blockedQ[<<c, i>>])
          BY <2>2, <3>1, <4>1, <4>3
        <5>2. t \in Thread
          BY <4>1, <5>1 DEF ConsoleInv, Inv, WaitInv, FlagInv
        <5>3. pc'[t] = pc[t] /\ doing'[t] = doing[t]
          BY <1>7, <4>3, <5>2 DEF Waited, OnlyMoves
        <5>4. /\ pc[t] = (IF i = "space" THEN "put_tail" ELSE "get_head")
              /\ BufferOf(doing[t]) = c
          BY <5>1 DEF ConsoleInv, QueuedInv
        <5> QED BY <5>3, <5>4
      <4> QED BY <4>2, <4>3
    <3>2. ASSUME NEW q \in Sem \ SemsOf, NEW t \in Range(blockedQ'[q]) PROVE pc'[t] = "ecall"
      <4>1. <<b, k>> \in SemsOf
        BY <1>1 DEF SemsOf
      <4>2. t \in Range(blockedQ[q])
        BY <2>2, <3>2, <4>1
      <4>3. t \in Thread \ {running} /\ pc[t] = "ecall"
        BY <1>4, <4>2 DEF ConsoleInv, QueuedInv, Inv, WaitInv, FlagInv
      <4> QED BY <1>7, <4>3 DEF Waited, OnlyMoves
    <3> QED BY <3>1, <3>2 DEF QueuedInv
  <2> QED BY <1>7, <2>1, <2>2 DEF Waited
<1>14. RingInv'
  BY <1>7, RingFrame DEF Waited, ConsoleInv
<1>15. DeviceInv'
  BY <1>1, <1>7, BootThreads DEF Waited, ConsoleInv, DeviceInv, OnlyMoves
<1>17. ASSUME NEW c \in Buffer PROVE TokensOf(c)'
  <2>1. \A t \in Thread \ {r} : /\ pc'[t] = pc[t] /\ doing'[t] = doing[t]
                                /\ t \in blocked' <=> t \in blocked
    BY <1>7, <1>8 DEF Waited, OnlyMoves
  <2>2. Contents(c)' = Contents(c)
    BY <1>7, ContentsFrame DEF Waited
  <2>3. TokensOf(c)
    BY TokensAre DEF ConsoleInv, TokensOf
  <2>4. <<c, "item">> \in Sem /\ <<c, "space">> \in Sem /\ val \in [Sem -> Int]
    BY SemsAre DEF ConsoleInv, Inv, WaitInv
  <2>5. /\ One(r, Claimed(c)) = 0 /\ One(r, Announcing(c)) = 0
        /\ One(r, Filling(c)) = 0 /\ One(r, Freeing(c)) = 0
        /\ One(r, Announcing(c)') = 0 /\ One(r, Freeing(c)') = 0
        /\ One(r, Claimed(c)') = IF b = c /\ k = "item" /\ val[<<b, k>>] > 0 THEN 1 ELSE 0
        /\ One(r, Filling(c)') = IF b = c /\ k = "space" /\ val[<<b, k>>] > 0 THEN 1 ELSE 0
    BY <1>1, <1>2, <1>3, <1>4, <1>7, <1>8, CountsAre, CountsBecome DEF Waited, One
  <2>6. /\ Cardinality(Claimed(c)') = Cardinality(Claimed(c)) + One(r, Claimed(c)')
        /\ Cardinality(Filling(c)') = Cardinality(Filling(c)) + One(r, Filling(c)')
        /\ Cardinality(Announcing(c)') = Cardinality(Announcing(c))
        /\ Cardinality(Freeing(c)') = Cardinality(Freeing(c))
        /\ Cardinality(Claimed(c)) \in Nat /\ Cardinality(Announcing(c)) \in Nat
        /\ Cardinality(Filling(c)) \in Nat /\ Cardinality(Freeing(c)) \in Nat
    BY <2>1, <2>5, CountShift, CountsAre
  <2>7. Spent(val'[<<c, "item">>]) = Spent(val[<<c, "item">>]) - One(r, Claimed(c)')
    BY <1>1, <1>7, <2>4, <2>5 DEF Waited, Spent
  <2>8. Spent(val'[<<c, "space">>]) = Spent(val[<<c, "space">>]) - One(r, Filling(c)')
    BY <1>1, <1>7, <2>4, <2>5 DEF Waited, Spent
  <2>9. Spent(val[<<c, "item">>]) \in Int /\ Spent(val[<<c, "space">>]) \in Int
        /\ One(r, Claimed(c)') \in Int /\ One(r, Filling(c)') \in Int
    BY <2>4, <2>5 DEF Spent
  <2> QED BY <2>2, <2>3, <2>6, <2>7, <2>8, <2>9, SMTT(30) DEF TokensOf
<1>18. (\A c \in Buffer : TokensOf(c))'
  BY <1>17
<1>19. TokensMatchRing'
  BY <1>18, TokensNext
<1> QED BY <1>7, <1>9, <1>10, <1>12, <1>13, <1>14, <1>15, <1>19 DEF Waited, ConsoleInv

(* The running thread takes the mutex of an end of the ring.  It is free.  *)
LEMMA MutexWait ==
  ASSUME ConsoleInv, PutTail \/ GetHead, IdleKept'
  PROVE  ConsoleInv'
<1>1. PICK k, from, label :
        /\ \/ k = "tail" /\ from = "put_tail" /\ label = "put_write"
           \/ k = "head" /\ from = "get_head" /\ label = "get_read"
        /\ AwaitAt(from, k, label)
  BY DEF PutTail, GetHead
<1>2. PICK b \in Buffer : b = BufferOf(doing[running])
  BY DEF BufferOf, Buffer
<1>3. pc[running] = from
  BY <1>1 DEF AwaitAt
<1>4. /\ running \in Thread \ blocked /\ CallAt(running)
      /\ k = "tail" => doing[running] \in Putting
      /\ k = "head" => doing[running] \in Getting
  BY <1>1, <1>3, RunningIs DEF CallAt, Fits, PutLabels, GetLabels
<1>5. k \in Mutex /\ k \in {"item", "space", "head", "tail"} /\ \A c, m : ~Held(c, m)
  BY <1>1, <1>3 DEF Mutex, Held
<1>6. val[<<b, k>>] = 1
  BY <1>5 DEF ConsoleInv, MutexInv
<1>7. Inv' /\ Waited(b, k, label)
  BY <1>1, <1>2, <1>5, AwaitIs
<1>8. /\ UNCHANGED <<running, blocked, blockedQ, doing, chr, txReady, rxData, claimed,
                     bufferVars, Started>>
      /\ OnlyMoves(running) /\ pc'[running] = label
  BY <1>6, <1>7 DEF Waited
<1>9. PICK r \in Thread : r = running
  BY <1>4
<1>10. CallInv'
  <2>1. Fits(r, label, doing[r], chr[r])
    BY <1>1, <1>3, <1>4, <1>9
       DEF CallAt, Fits, PutLabels, GetLabels, Putting, Getting, ConsolePC
  <2>2. CallAt(r)'
    BY <1>8, <1>9, <2>1, RunningIs DEF CallAt
  <2> QED BY <1>8, <1>9, <2>2, CallMove DEF ConsoleInv
<1>11. ParkInv'
  BY <1>4, <1>8, ParkMove DEF ConsoleInv
<1>12. MutexInv'
  <2>1. ASSUME NEW c \in Buffer, NEW m \in Mutex
        PROVE  /\ blockedQ'[<<c, m>>] = <<>>
               /\ val'[<<c, m>>] = IF Held(c, m)' THEN 0 ELSE 1
    <3>1. blockedQ[<<c, m>>] = <<>> /\ val[<<c, m>>] = 1 /\ <<c, m>> \in Sem
      BY <1>5, SemsAre DEF ConsoleInv, MutexInv, Mutex
    <3>2. val'[<<c, m>>] = IF <<c, m>> = <<b, k>> THEN 0 ELSE 1
      BY <1>6, <1>7, <3>1 DEF Waited
    <3>3. Held(c, m)' <=> <<c, m>> = <<b, k>>
      BY <1>1, <1>2, <1>8 DEF Held, Mutex
    <3> QED BY <1>8, <3>1, <3>2, <3>3
  <2> QED BY <2>1 DEF MutexInv
<1>13. QueuedInv'
  BY <1>4, <1>8, QueuedMove DEF ConsoleInv
<1>14. RingInv'
  BY <1>8, RingFrame DEF ConsoleInv
<1>15. DeviceInv'
  BY <1>1, <1>8, BootThreads DEF ConsoleInv, DeviceInv, OnlyMoves
<1>16. \A c \in Buffer, i \in {"item", "space"} : val'[<<c, i>>] = val[<<c, i>>]
  <2>1. \A c \in Buffer, i \in {"item", "space"} : <<c, i>> \in Sem /\ <<c, i>> # <<b, k>>
    BY <1>5, SemsAre DEF Mutex
  <2> QED BY <1>7, <2>1 DEF Waited
<1>18. (\A c \in Buffer : TokensOf(c))'
  <2> SUFFICES ASSUME NEW c \in Buffer PROVE TokensOf(c)'
    OBVIOUS
  <2>1. \A t \in Thread \ {r} : pc'[t] = pc[t] /\ doing'[t] = doing[t]
    BY <1>8, <1>9 DEF OnlyMoves
  <2>2. Contents(c)' = Contents(c)
    BY <1>8, ContentsFrame
  <2>3. TokensOf(c)
    BY TokensAre DEF ConsoleInv
  <2>4. /\ One(r, Claimed(c)') = One(r, Claimed(c)) /\ One(r, Announcing(c)') = One(r, Announcing(c))
        /\ One(r, Filling(c)') = One(r, Filling(c)) /\ One(r, Freeing(c)') = One(r, Freeing(c))
    BY <1>1, <1>3, <1>8, <1>9, CountsAre, CountsBecome DEF One
  <2>5. /\ One(r, Claimed(c)) \in Int /\ One(r, Announcing(c)) \in Int
        /\ One(r, Filling(c)) \in Int /\ One(r, Freeing(c)) \in Int
    BY DEF One
  <2>6. /\ Cardinality(Claimed(c)') = Cardinality(Claimed(c))
        /\ Cardinality(Filling(c)') = Cardinality(Filling(c))
        /\ Cardinality(Announcing(c)') = Cardinality(Announcing(c))
        /\ Cardinality(Freeing(c)') = Cardinality(Freeing(c))
    <3>1. /\ Cardinality(Claimed(c)') = Cardinality(Claimed(c)) + One(r, Claimed(c)') - One(r, Claimed(c))
          /\ Cardinality(Announcing(c)') = Cardinality(Announcing(c)) + One(r, Announcing(c)') - One(r, Announcing(c))
          /\ Cardinality(Filling(c)') = Cardinality(Filling(c)) + One(r, Filling(c)') - One(r, Filling(c))
          /\ Cardinality(Freeing(c)') = Cardinality(Freeing(c)) + One(r, Freeing(c)') - One(r, Freeing(c))
      <4>1. \A t \in Thread \ {r} : t \in blocked' <=> t \in blocked
        BY <1>8
      <4> QED BY <2>1, <4>1, CountShift
    <3>2. /\ Cardinality(Claimed(c)) \in Nat /\ Cardinality(Announcing(c)) \in Nat
          /\ Cardinality(Filling(c)) \in Nat /\ Cardinality(Freeing(c)) \in Nat
      BY CountsAre
    <3> QED BY <2>4, <2>5, <3>1, <3>2
  <2> QED BY <1>16, <2>2, <2>3, <2>6 DEF TokensOf
<1>19. TokensMatchRing'
  BY <1>18, TokensNext
<1> QED BY <1>7, <1>8, <1>10, <1>11, <1>12, <1>13, <1>14, <1>15, <1>19 DEF ConsoleInv

(* A semaphore's signal in put() or get(): if there are threads waiting,   *)
(* one of them is let past.                                                *)
Signalled(b, k, label) ==
  /\ Labelled' /\ pc'[running] = label
  /\ \A t \in Thread \ {running} : pc'[t] = pc[t]
  /\ UNCHANGED <<running, txReady, rxData, claimed, Started>>
  /\ val[<<b, k>>] \in Int
  /\ \A q \in Sem : val'[q] = IF q = <<b, k>> THEN val[<<b, k>>] + 1 ELSE val[q]
  /\ \/ val[<<b, k>>] >= 0 /\ UNCHANGED <<blocked, blockedQ>>
     \/ /\ val[<<b, k>>] < 0
        /\ \E h \in Range(blockedQ[<<b, k>>]) :
             /\ h \in blocked /\ h \in Thread \ {running}
             /\ blocked' = blocked \ {h}
             /\ \A q \in Sem : Range(blockedQ'[q]) = Range(blockedQ[q]) \ {h}
             /\ \A q \in Sem \ {<<b, k>>} : blockedQ'[q] = blockedQ[q]

(* That is what SignalAt does. *)
LEMMA SignalIs ==
  ASSUME ConsoleInv, NEW k \in {"item", "space", "head", "tail"}, NEW from, NEW label,
         SignalAt(from, k, label), NEW b \in Buffer, b = BufferOf(doing[running])
  PROVE  Inv' /\ Signalled(b, k, label) /\ pc[running] = from
<1>1. PICK s \in opened : s = <<b, k>>
  BY SemsAre DEF ConsoleInv
<1>2. /\ Signal(s) /\ SignalFrame /\ GoTo(label) /\ pc[running] = from /\ s \in Sem
      /\ UNCHANGED deviceVars
  BY <1>1, SemsAre DEF SignalAt, Of
<1>3. /\ running \in Thread \ blocked /\ val \in [Sem -> Int]
      /\ blockedQ \in [Sem -> Queue(Thread)]
  BY RunningIs DEF ConsoleInv, Inv, WaitInv
<1>4. Labelled' /\ pc'[running] = label /\ \A t \in Thread \ {running} : pc'[t] = pc[t]
  BY <1>2, <1>3, GoToType DEF ConsoleInv, Inv
<1>5. Inv'
  BY <1>1, <1>2, <1>4, SignalStepInv DEF ConsoleInv
<1>6. UNCHANGED <<running, txReady, rxData, claimed, Started>>
  BY <1>2 DEF deviceVars, SignalFrame, Started
<1>7. /\ val[s] \in Int
      /\ \A q \in Sem : val'[q] = IF q = s THEN val[s] + 1 ELSE val[q]
  BY <1>2, <1>3 DEF Signal
<1>8. CASE val[s] + 1 > 0 /\ UNCHANGED <<blocked, blockedQ, ready>>
  <2>1. val[s] >= 0
    BY <1>7, <1>8
  <2> QED BY <1>1, <1>2, <1>4, <1>5, <1>6, <1>7, <1>8, <2>1 DEF Signalled
<1>9. CASE /\ val[s] + 1 <= 0
           /\ blocked' = blocked \ {Head(blockedQ[s])}
           /\ blockedQ' = [blockedQ EXCEPT ![s] = Tail(@)]
           /\ ready' = Append(ready, Head(blockedQ[s]))
  <2>1. val[s] < 0 /\ blockedQ[s] # <<>>
    <3>1. val[s] < 0
      BY <1>7, <1>9
    <3>2. Len(blockedQ[s]) = -val[s]
      BY <1>2, <3>1 DEF ConsoleInv, Inv, WaitInv, ValCountsWaiters
    <3> QED BY <1>7, <3>1, <3>2
  <2>2. PICK h : h = Head(blockedQ[s])
    OBVIOUS
  <2>3. /\ h \in Range(blockedQ[s]) /\ h \in Thread
        /\ Range(Tail(blockedQ[s])) = Range(blockedQ[s]) \ {h}
    BY <1>2, <1>3, <2>1, <2>2, QueueTail
  <2>4. h \in blocked /\ h # running
    BY <1>2, <1>3, <2>3 DEF ConsoleInv, Inv, WaitInv
  <2>5. \A q \in Sem : q # s => blockedQ'[q] = blockedQ[q] /\ h \notin Range(blockedQ[q])
    BY <1>2, <1>3, <1>9, <2>3 DEF ConsoleInv, Inv, WaitInv
  <2>6. blockedQ'[s] = Tail(blockedQ[s])
    BY <1>2, <1>3, <1>9
  <2>7. \A q \in Sem : Range(blockedQ'[q]) = Range(blockedQ[q]) \ {h}
    BY <2>3, <2>5, <2>6
  <2>8. blocked' = blocked \ {h}
    BY <1>9, <2>2
  <2>9. /\ h \in Range(blockedQ[<<b, k>>]) /\ h \in blocked /\ h \in Thread \ {running}
        /\ \A q \in Sem : Range(blockedQ'[q]) = Range(blockedQ[q]) \ {h}
        /\ \A q \in Sem \ {<<b, k>>} : blockedQ'[q] = blockedQ[q]
    BY <1>1, <2>3, <2>4, <2>5, <2>7
  <2>10. Signalled(b, k, label)
    BY <1>1, <1>4, <1>6, <1>7, <2>1, <2>8, <2>9 DEF Signalled
  <2> QED BY <1>2, <1>5, <2>10
<1> QED BY <1>2, <1>8, <1>9 DEF Signal

-----------------------------------------------------------------------------
(* The rings as sequences. *)
LEMMA SeqAppend ==
  ASSUME NEW S, NEW s \in Seq(S), NEW e \in S, NEW n, n = Len(s) + 1
  PROVE  Append(s, e) = [i \in 1..n |-> IF i = n THEN e ELSE s[i]]
<1> DEFINE a == Append(s, e)
<1>1. a \in Seq(S) /\ Len(a) = n /\ \A i \in 1..n : a[i] = IF i = n THEN e ELSE s[i]
  OBVIOUS
<1> HIDE DEF a
<1>2. a = [i \in 1..n |-> a[i]]
  BY <1>1
<1>3. a = [i \in 1..n |-> IF i = n THEN e ELSE s[i]]
  BY <1>1, <1>2
<1> QED BY <1>3 DEF a

(* What follows the first element. *)
LEMMA SeqTail ==
  ASSUME NEW S, NEW s \in Seq(S), NEW n \in Nat, Len(s) = n + 1
  PROVE  Tail(s) = [i \in 1..n |-> s[i + 1]]
<1> DEFINE a == Tail(s)
<1>1. a \in Seq(S) /\ Len(a) = n /\ \A i \in 1..n : a[i] = s[i + 1]
  OBVIOUS
<1> HIDE DEF a
<1>2. a = [i \in 1..n |-> a[i]]
  BY <1>1
<1>3. a = [i \in 1..n |-> s[i + 1]]
  BY <1>1, <1>2
<1> QED BY <1>3 DEF a

(* Contents in the terms of the lemmas about rings. *)
LEMMA ContentsIs ==
  ASSUME RingInv, NEW b \in Buffer
  PROVE  Contents(b) = [i \in 1..Used(head[b], tail[b], Cap + 1) |->
                          buffer[b][(head[b] + i - 1) % (Cap + 1)]]
<1>1. tail[b] \in 0..Cap /\ head[b] \in 0..Cap /\ Cap \in Nat
  BY ConsoleAssumption DEF RingInv
<1>2. tail[b] - head[b] + Cap + 1 = tail[b] - head[b] + (Cap + 1)
  BY <1>1
<1> QED BY <1>2 DEF Contents, Used

(* The length is the number of places in use. *)
LEMMA ContentsLen ==
  ASSUME RingInv, NEW b \in Buffer, NEW u, u = Used(head[b], tail[b], Cap + 1)
  PROVE  /\ head[b] \in 0..Cap /\ tail[b] \in 0..Cap /\ Cap \in Nat \ {0} /\ u \in 0..Cap
         /\ Contents(b) \in Seq(Char) /\ Len(Contents(b)) = u
         /\ \A i \in 1..u : Contents(b)[i] = buffer[b][(head[b] + i - 1) % (Cap + 1)]
<1>1. /\ head[b] \in 0..Cap /\ tail[b] \in 0..Cap /\ Cap \in Nat \ {0}
      /\ Contents(b) \in Seq(Char)
  BY ConsoleAssumption DEF RingInv
<1>2. u \in 0..Cap
  <2>1. Cap + 1 \in Nat \ {0} /\ 0..((Cap + 1) - 1) = 0..Cap
    BY <1>1
  <2> QED BY <1>1, <2>1, UsedIs
<1>3. Contents(b) = [i \in 1..u |-> buffer[b][(head[b] + i - 1) % (Cap + 1)]]
  BY ContentsIs
<1>4. Len(Contents(b)) = u
  BY <1>1, <1>2, <1>3
<1> QED BY <1>1, <1>2, <1>3, <1>4

(* put() writes behind the last character of a ring with a free place. *)
LEMMA PutContents ==
  ASSUME RingInv, NEW b \in Buffer, NEW c \in Char, Len(Contents(b)) < Cap,
         buffer' = [buffer EXCEPT ![b][tail[b]] = c],
         tail' = [tail EXCEPT ![b] = After(@)], UNCHANGED head
  PROVE  /\ RingInv' /\ Contents(b)' = Append(Contents(b), c)
         /\ \A d \in Buffer \ {b} : Contents(d)' = Contents(d)
<1>1. PICK u, n, h, l : /\ u = Used(h, l, n) /\ n = Cap + 1 /\ h = head[b] /\ l = tail[b]
  OBVIOUS
<1>2. /\ h \in 0..Cap /\ l \in 0..Cap /\ Cap \in Nat \ {0} /\ u \in 0..Cap /\ u < Cap
      /\ n \in Nat \ {0} /\ 0..(n - 1) = 0..Cap
      /\ Contents(b) \in Seq(Char) /\ Len(Contents(b)) = u
      /\ \A i \in 1..u : Contents(b)[i] = buffer[b][(h + i - 1) % n]
  BY <1>1, ContentsLen
<1>3. PICK m : m = (l + 1) % n
  OBVIOUS
<1>4. /\ m \in 0..Cap /\ Used(h, m, n) = u + 1
      /\ \A k \in 0..(u - 1) : (h + k) % n \in 0..Cap /\ (h + k) % n # l
      /\ (h + u) % n = l
  <2>1. /\ n \in Nat \ {0} /\ h \in 0..(n - 1) /\ l \in 0..(n - 1)
        /\ u = Used(h, l, n) /\ u < n - 1
    BY <1>1, <1>2
  <2>2. /\ (l + 1) % n \in 0..(n - 1) /\ Used(h, (l + 1) % n, n) = u + 1
        /\ \A k \in 0..(u - 1) : (h + k) % n \in 0..(n - 1) /\ (h + k) % n # l
        /\ (h + u) % n = l
    BY <2>1, RingPut
  <2> QED BY <1>2, <1>3, <2>2
<1>5. /\ buffer \in [Buffer -> [0..Cap -> Char \cup {NoChar}]]
      /\ head \in [Buffer -> 0..Cap] /\ tail \in [Buffer -> 0..Cap]
  BY DEF RingInv
<1>6. tail'[b] = m /\ tail' \in [Buffer -> 0..Cap]
  BY <1>1, <1>3, <1>4, <1>5 DEF After
<1>7. /\ buffer' \in [Buffer -> [0..Cap -> Char \cup {NoChar}]]
      /\ buffer'[b][l] = c /\ \A j \in 0..Cap : j # l => buffer'[b][j] = buffer[b][j]
  BY <1>1, <1>2, <1>5
<1>8. Contents(b)' = [i \in 1..(u + 1) |-> buffer'[b][(h + i - 1) % n]]
  <2>1. Contents(b)' = [i \in 1..Used(head'[b], tail'[b], n) |->
                          buffer'[b][(head'[b] + i - 1) % n]]
    <3>1. tail'[b] - head'[b] + Cap + 1 = tail'[b] - head'[b] + n
      BY SMTT(30), <1>1, <1>2, <1>4, <1>6
    <3> QED BY <1>1, <3>1 DEF Contents, Used
  <2> QED BY <1>1, <1>4, <1>6, <2>1
<1>9. \A i \in 1..(u + 1) : buffer'[b][(h + i - 1) % n]
                            = IF i = u + 1 THEN c ELSE Contents(b)[i]
  <2> SUFFICES ASSUME NEW i \in 1..(u + 1)
               PROVE  buffer'[b][(h + i - 1) % n] = IF i = u + 1 THEN c ELSE Contents(b)[i]
    OBVIOUS
  <2>1. PICK k \in 0..u : k = i - 1 /\ h + i - 1 = h + k
    BY <1>2
  <2>2. CASE i = u + 1
    <3>1. k = u
      BY <1>2, <2>1, <2>2
    <3> QED BY <1>4, <1>7, <2>1, <2>2, <3>1
  <2>3. CASE i # u + 1
    <3>1. k \in 0..(u - 1) /\ i \in 1..u
      BY <1>2, <2>1, <2>3
    <3> QED BY <1>2, <1>4, <1>7, <2>1, <2>3, <3>1
  <2> QED BY <2>2, <2>3
<1>10. Contents(b)' = Append(Contents(b), c)
  <2>1. Append(Contents(b), c)
        = [i \in 1..(u + 1) |-> IF i = u + 1 THEN c ELSE Contents(b)[i]]
    BY <1>2, SeqAppend
  <2> QED BY <1>8, <1>9, <2>1
<1>11. \A d \in Buffer \ {b} : Contents(d)' = Contents(d)
  BY <1>5 DEF Contents
<1>12. RingInv'
  <2>1. \A d \in Buffer : Contents(d)' \in Seq(Char)
    <3>1. Append(Contents(b), c) \in Seq(Char)
      BY <1>2
    <3> QED BY <1>10, <1>11, <3>1 DEF RingInv
  <2> QED BY <1>5, <1>6, <1>7, <2>1 DEF RingInv
<1> QED BY <1>10, <1>11, <1>12

(* get() takes the first character of a ring that is not empty. *)
LEMMA GetContents ==
  ASSUME RingInv, NEW b \in Buffer, Len(Contents(b)) > 0,
         head' = [head EXCEPT ![b] = After(@)], UNCHANGED <<buffer, tail>>
  PROVE  /\ RingInv' /\ Contents(b)' = Tail(Contents(b)) /\ Contents(b) # <<>>
         /\ buffer[b][head[b]] \in Char
         /\ \A d \in Buffer \ {b} : Contents(d)' = Contents(d)
<1>1. PICK u, n, h, l : /\ u = Used(h, l, n) /\ n = Cap + 1 /\ h = head[b] /\ l = tail[b]
  OBVIOUS
<1>2. /\ h \in 0..Cap /\ l \in 0..Cap /\ Cap \in Nat \ {0} /\ u \in 0..Cap /\ u > 0
      /\ n \in Nat \ {0} /\ 0..(n - 1) = 0..Cap
      /\ Contents(b) \in Seq(Char) /\ Len(Contents(b)) = u
      /\ \A i \in 1..u : Contents(b)[i] = buffer[b][(h + i - 1) % n]
  BY <1>1, ContentsLen
<1>3. PICK m : m = (h + 1) % n
  OBVIOUS
<1>4. /\ m \in 0..Cap /\ Used(m, l, n) = u - 1
      /\ \A k \in 0..(u - 2) : (m + k) % n = (h + (k + 1)) % n
      /\ h % n = h
  <2>1. /\ n \in Nat \ {0} /\ h \in 0..(n - 1) /\ l \in 0..(n - 1)
        /\ u = Used(h, l, n) /\ u > 0
    BY <1>1, <1>2
  <2>2. /\ (h + 1) % n \in 0..(n - 1) /\ Used((h + 1) % n, l, n) = u - 1
        /\ \A k \in 0..(u - 2) : (((h + 1) % n) + k) % n = (h + (k + 1)) % n
        /\ h % n = h
    BY <2>1, RingGet
  <2> QED BY <1>2, <1>3, <2>2
<1>5. /\ buffer \in [Buffer -> [0..Cap -> Char \cup {NoChar}]]
      /\ head \in [Buffer -> 0..Cap] /\ tail \in [Buffer -> 0..Cap]
  BY DEF RingInv
<1>6. head'[b] = m /\ head' \in [Buffer -> 0..Cap]
  BY <1>1, <1>3, <1>4, <1>5 DEF After
<1>7. Contents(b)' = [i \in 1..(u - 1) |-> buffer[b][(m + i - 1) % n]]
  <2>1. Contents(b)' = [i \in 1..Used(head'[b], tail[b], n) |->
                          buffer[b][(head'[b] + i - 1) % n]]
    <3>1. l \in Int /\ m \in Int /\ Cap \in Int
      BY <1>2, <1>4
    <3>2. tail[b] - head'[b] + Cap + 1 = tail[b] - head'[b] + n
      BY <1>1, <1>6, <3>1
    <3> QED BY <1>1, <3>2 DEF Contents, Used
  <2> QED BY <1>1, <1>4, <1>6, <2>1
<1>8. \A i \in 1..(u - 1) : buffer[b][(m + i - 1) % n] = Contents(b)[i + 1]
  <2> SUFFICES ASSUME NEW i \in 1..(u - 1)
               PROVE  buffer[b][(m + i - 1) % n] = Contents(b)[i + 1]
    OBVIOUS
  <2>1. PICK k \in 0..(u - 2) : /\ k = i - 1 /\ m + i - 1 = m + k
                                /\ h + (i + 1) - 1 = h + (k + 1) /\ i + 1 \in 1..u
    BY <1>2, <1>4
  <2>2. Contents(b)[i + 1] = buffer[b][(h + (i + 1) - 1) % n]
    BY <1>2, <2>1
  <2> QED BY <1>4, <2>1, <2>2
<1>9. Contents(b)' = Tail(Contents(b)) /\ Contents(b) # <<>>
  <2>1. u - 1 \in Nat /\ Len(Contents(b)) = (u - 1) + 1 /\ Contents(b) # <<>>
    BY <1>2
  <2>2. Tail(Contents(b)) = [i \in 1..(u - 1) |-> Contents(b)[i + 1]]
    BY <1>2, <2>1, SeqTail
  <2> QED BY <1>7, <1>8, <2>1, <2>2
<1>10. buffer[b][head[b]] \in Char
  <2>1. Contents(b)[1] \in Char /\ 1 \in 1..u /\ h + 1 - 1 = h
    BY <1>2
  <2>2. Contents(b)[1] = buffer[b][(h + 1 - 1) % n]
    BY <1>2, <2>1
  <2> QED BY <1>1, <1>4, <2>1, <2>2
<1>11. \A d \in Buffer \ {b} : Contents(d)' = Contents(d)
  BY <1>5 DEF Contents
<1>12. RingInv'
  <2>1. \A d \in Buffer : Contents(d)' \in Seq(Char)
    <3>1. Tail(Contents(b)) \in Seq(Char)
      BY <1>2, <1>9
    <3> QED BY <1>9, <1>11, <3>1 DEF RingInv
  <2> QED BY <1>5, <1>6, <2>1 DEF RingInv
<1> QED BY <1>9, <1>10, <1>11, <1>12

-----------------------------------------------------------------------------
(* A thread in one of the sets is counted there. *)
LEMMA Member ==
  ASSUME NEW b, NEW x \in Thread
  PROVE  /\ x \in Claimed(b) => Cardinality(Claimed(b)) >= 1
         /\ x \in Announcing(b) => Cardinality(Announcing(b)) >= 1
         /\ x \in Filling(b) => Cardinality(Filling(b)) >= 1
         /\ x \in Freeing(b) => Cardinality(Freeing(b)) >= 1
<1>1. ASSUME NEW S, IsFiniteSet(S), x \in S PROVE Cardinality(S) >= 1
  <2>1. Cardinality(S \ {x}) \in Nat /\ Cardinality(S) \in Nat
        /\ Cardinality(S \ {x}) = Cardinality(S) - 1
    BY <1>1, FS_RemoveElement, FS_CardinalityType
  <2> QED BY <2>1
<1> QED BY <1>1, PastFinite

(* What there is to calculate with. *)
LEMMA TokensNow ==
  ASSUME ConsoleInv, NEW b \in Buffer
  PROVE  /\ TokensOf(b) /\ Cap \in Nat
         /\ Contents(b) \in Seq(Char) /\ Len(Contents(b)) \in Nat
         /\ val[<<b, "item">>] \in Int /\ val[<<b, "space">>] \in Int
         /\ Spent(val[<<b, "item">>]) \in Nat /\ Spent(val[<<b, "space">>]) \in Nat
         /\ Cardinality(Claimed(b)) \in Nat /\ Cardinality(Announcing(b)) \in Nat
         /\ Cardinality(Filling(b)) \in Nat /\ Cardinality(Freeing(b)) \in Nat
<1>1. val[<<b, "item">>] \in Int /\ val[<<b, "space">>] \in Int
  BY SemsAre DEF ConsoleInv, Inv, WaitInv
<1>2. Spent(val[<<b, "item">>]) \in Nat /\ Spent(val[<<b, "space">>]) \in Nat
  BY <1>1 DEF Spent
<1>3. Contents(b) \in Seq(Char) /\ Len(Contents(b)) \in Nat
  BY DEF ConsoleInv, RingInv
<1>4. TokensOf(b)
  BY TokensAre DEF ConsoleInv
<1> QED BY <1>1, <1>2, <1>3, <1>4, CountsAre, BootThreads, ConsoleAssumption

(* The running thread, which holds the mutex of an end of the ring, lets   *)
(* go of it: whatever it did to the ring and to its character meanwhile.   *)
LEMMA MutexSignal ==
  ASSUME ConsoleInv, NEW k, NEW from, NEW label, SignalAt(from, k, label),
         \/ k = "tail" /\ from = "put_write" /\ label = "put_item"
         \/ k = "head" /\ from = "get_read" /\ label = "get_space",
         NEW c \in Char \cup {NoChar}, chr' = [chr EXCEPT ![running] = c], UNCHANGED doing,
         label = "get_space" => c \in Char
  PROVE  /\ Inv' /\ CallInv' /\ ParkInv' /\ MutexInv' /\ QueuedInv' /\ DeviceInv'
         /\ UNCHANGED <<running, blocked>>
         /\ pc[running] = from /\ pc'[running] = label
         /\ \A t \in Thread \ {running} : pc'[t] = pc[t]
         /\ \A d \in Buffer, i \in {"item", "space"} : val'[<<d, i>>] = val[<<d, i>>]
<1>1. PICK b \in Buffer : b = BufferOf(doing[running])
  BY DEF BufferOf, Buffer
<1>2. k \in Mutex /\ k \in {"item", "space", "head", "tail"}
  BY DEF Mutex
<1>3. Inv' /\ Signalled(b, k, label) /\ pc[running] = from
  BY <1>1, <1>2, SignalIs
<1>4. \A d \in Buffer, m \in Mutex : Held(d, m) <=> d = b /\ m = k
  BY <1>1, <1>2, <1>3 DEF Held, Mutex
<1>5. val[<<b, k>>] = 0
  BY <1>2, <1>4 DEF ConsoleInv, MutexInv
<1>6. /\ UNCHANGED <<running, blocked, blockedQ, txReady, rxData, claimed, Started>>
      /\ Labelled' /\ pc'[running] = label
      /\ \A t \in Thread \ {running} : pc'[t] = pc[t]
      /\ \A q \in Sem : val'[q] = IF q = <<b, k>> THEN 1 ELSE val[q]
  BY <1>3, <1>5 DEF Signalled
<1>7. /\ running \in Thread \ blocked /\ CallAt(running)
      /\ k = "tail" => doing[running] \in Putting
      /\ k = "head" => doing[running] \in Getting
  BY <1>3, RunningIs DEF CallAt, Fits, PutLabels, GetLabels
<1>8. PICK r \in Thread : r = running
  BY <1>7
<1>9. chr'[r] = c /\ OnlyMoves(r)
  BY <1>6, <1>8 DEF OnlyMoves, ConsoleInv, CallInv
<1>10. CallInv'
  <2>1. Fits(r, label, doing[r], c)
    BY <1>3, <1>7, <1>8
       DEF CallAt, Fits, PutLabels, GetLabels, Putting, Getting, ConsolePC
  <2>2. CallAt(r)'
    BY <1>6, <1>8, <1>9, <2>1, RunningIs DEF CallAt
  <2> QED BY <1>6, <1>9, <2>2, CallMove DEF ConsoleInv
<1>11. ParkInv'
  BY <1>6, <1>7, <1>8, <1>9, ParkMove DEF ConsoleInv
<1>12. MutexInv'
  <2>1. ASSUME NEW d \in Buffer, NEW m \in Mutex
        PROVE  /\ blockedQ'[<<d, m>>] = <<>>
               /\ val'[<<d, m>>] = IF Held(d, m)' THEN 0 ELSE 1
    <3>1. /\ blockedQ[<<d, m>>] = <<>> /\ <<d, m>> \in Sem
          /\ val[<<d, m>>] = IF d = b /\ m = k THEN 0 ELSE 1
      BY <1>4, SemsAre DEF ConsoleInv, MutexInv, Mutex
    <3>2. ~Held(d, m)'
      BY <1>6 DEF Held
    <3> QED BY <1>6, <3>1, <3>2
  <2> QED BY <2>1 DEF MutexInv
<1>13. QueuedInv'
  BY <1>6, <1>7, <1>8, <1>9, QueuedMove DEF ConsoleInv
<1>14. \A d \in Buffer, i \in {"item", "space"} : val'[<<d, i>>] = val[<<d, i>>]
  <2>1. \A d \in Buffer, i \in {"item", "space"} : <<d, i>> \in Sem /\ <<d, i>> # <<b, k>>
    BY <1>2, SemsAre DEF Mutex
  <2> QED BY <1>6, <2>1
<1>15. DeviceInv'
  BY <1>6, BootThreads DEF ConsoleInv, DeviceInv
<1> QED BY <1>3, <1>6, <1>10, <1>11, <1>12, <1>13, <1>14, <1>15

(* put() writes into a place that was free. *)
LEMMA PutWriteIs ==
  ASSUME ConsoleInv, PutWrite, NEW b \in Buffer, b = BufferOf(doing[running])
  PROVE  /\ ConsoleInv' /\ chr[running] \in Char /\ Len(Contents(b)) < Cap
         /\ Contents(b)' = Append(Contents(b), chr[running])
         /\ \A d \in Buffer \ {b} : Contents(d)' = Contents(d)
<1>1. /\ SignalAt("put_write", "tail", "put_item") /\ pc[running] = "put_write"
      /\ buffer' = [buffer EXCEPT ![b][tail[b]] = chr[running]]
      /\ tail' = [tail EXCEPT ![b] = After(@)] /\ UNCHANGED <<head, doing, chr>>
  BY DEF PutWrite, SignalAt, callVars
<1>2. /\ running \in Thread \ blocked /\ chr[running] \in Char /\ doing[running] \in Putting
      /\ chr' = [chr EXCEPT ![running] = chr[running]]
  BY <1>1, RunningIs DEF CallAt, Fits, PutLabels, ConsoleInv, CallInv
<1>3. /\ Inv' /\ CallInv' /\ ParkInv' /\ MutexInv' /\ QueuedInv' /\ DeviceInv'
      /\ UNCHANGED <<running, blocked>> /\ pc'[running] = "put_item"
      /\ \A t \in Thread \ {running} : pc'[t] = pc[t]
      /\ \A d \in Buffer, i \in {"item", "space"} : val'[<<d, i>>] = val[<<d, i>>]
  BY <1>1, <1>2, MutexSignal
<1>4. PICK r \in Thread : r = running
  BY <1>2
<1>5. Contents(b) \in Seq(Char) /\ Len(Contents(b)) \in Nat
  BY TokensNow
<1>6. Len(Contents(b)) < Cap
  <2>1. r \in Filling(b)
    BY <1>1, <1>2, <1>4, CountsAre
  <2>2. Cardinality(Filling(b)) >= 1
    BY <2>1, Member
  <2>3. /\ TokensOf(b) /\ Cap \in Nat /\ Len(Contents(b)) \in Nat
        /\ Spent(val[<<b, "item">>]) \in Nat /\ Spent(val[<<b, "space">>]) \in Nat
        /\ Cardinality(Claimed(b)) \in Nat /\ Cardinality(Announcing(b)) \in Nat
        /\ Cardinality(Filling(b)) \in Nat /\ Cardinality(Freeing(b)) \in Nat
    BY TokensNow
  <2> QED BY <2>2, <2>3 DEF TokensOf
<1>7. /\ RingInv' /\ Contents(b)' = Append(Contents(b), chr[running])
      /\ \A d \in Buffer \ {b} : Contents(d)' = Contents(d)
  BY <1>1, <1>2, <1>6, PutContents DEF ConsoleInv
<1>8. Len(Contents(b)') = Len(Contents(b)) + 1
  BY <1>2, <1>7 DEF ConsoleInv, RingInv
<1>9. (\A c \in Buffer : TokensOf(c))'
  <2> SUFFICES ASSUME NEW c \in Buffer PROVE TokensOf(c)'
    OBVIOUS
  <2> PICK n \in Int : n = IF b = c THEN 1 ELSE 0
    OBVIOUS
  <2>1. \A t \in Thread \ {r} : /\ pc'[t] = pc[t] /\ doing'[t] = doing[t]
                                /\ t \in blocked' <=> t \in blocked
    BY <1>1, <1>3, <1>4
  <2>2. /\ One(r, Claimed(c)) = 0 /\ One(r, Claimed(c)') = 0
        /\ One(r, Freeing(c)) = 0 /\ One(r, Freeing(c)') = 0
        /\ One(r, Announcing(c)) = 0 /\ One(r, Announcing(c)') = n
        /\ One(r, Filling(c)) = n /\ One(r, Filling(c)') = 0
    BY <1>1, <1>2, <1>3, <1>4, CountsAre, CountsBecome DEF One
  <2>3. /\ Cardinality(Claimed(c)') = Cardinality(Claimed(c))
        /\ Cardinality(Freeing(c)') = Cardinality(Freeing(c))
        /\ Cardinality(Filling(c)') = Cardinality(Filling(c)) - n
        /\ Cardinality(Announcing(c)') = Cardinality(Announcing(c)) + n
        /\ Cardinality(Claimed(c)) \in Nat /\ Cardinality(Announcing(c)) \in Nat
        /\ Cardinality(Filling(c)) \in Nat /\ Cardinality(Freeing(c)) \in Nat
    BY <2>1, <2>2, CountShift, CountsAre
  <2>4. Len(Contents(c)') = Len(Contents(c)) + n
    BY <1>5, <1>7, <1>8
  <2>5. Spent(val'[<<c, "item">>]) = Spent(val[<<c, "item">>])
        /\ Spent(val'[<<c, "space">>]) = Spent(val[<<c, "space">>])
    BY <1>3
  <2>6. /\ TokensOf(c) /\ Cap \in Nat /\ Len(Contents(c)) \in Nat
        /\ Spent(val[<<c, "item">>]) \in Nat /\ Spent(val[<<c, "space">>]) \in Nat
        /\ Cardinality(Filling(c)) \in Nat /\ Cardinality(Freeing(c)) \in Nat
    BY TokensNow
  <2>7. Len(Contents(c)') = Spent(val'[<<c, "item">>])
                            + Cardinality(Claimed(c)') + Cardinality(Announcing(c)')
    BY <2>3, <2>4, <2>5, <2>6, SMTT(30) DEF TokensOf
  <2>8. Cap - Len(Contents(c)') = Spent(val'[<<c, "space">>])
                            + Cardinality(Filling(c)') + Cardinality(Freeing(c)')
    <3> PICK l, s, f, e : /\ l = Len(Contents(c)) /\ s = Spent(val[<<c, "space">>])
                          /\ f = Cardinality(Filling(c)) /\ e = Cardinality(Freeing(c))
      OBVIOUS
    <3>1. Cap - l = s + f + e /\ Cap \in Nat /\ l \in Nat /\ s \in Nat /\ f \in Nat /\ e \in Nat
      BY <2>6 DEF TokensOf
    <3>2. Cap - (l + n) = s + (f - n) + e
      BY <3>1
    <3> QED BY <2>3, <2>4, <2>5, <3>2
  <2> QED BY <2>7, <2>8 DEF TokensOf
<1>10. TokensMatchRing'
  BY <1>9, TokensNext
<1> QED BY <1>2, <1>3, <1>6, <1>7, <1>10 DEF ConsoleInv

(* get() reads a character that was put. *)
LEMMA GetReadIs ==
  ASSUME ConsoleInv, GetRead, NEW b \in Buffer, b = BufferOf(doing[running])
  PROVE  /\ ConsoleInv' /\ Contents(b) # <<>>
         /\ Contents(b)' = Tail(Contents(b))
         /\ \A d \in Buffer \ {b} : Contents(d)' = Contents(d)
<1>1. /\ SignalAt("get_read", "head", "get_space") /\ pc[running] = "get_read"
      /\ chr' = [chr EXCEPT ![running] = buffer[b][head[b]]]
      /\ head' = [head EXCEPT ![b] = After(@)] /\ UNCHANGED <<buffer, tail, doing>>
  BY DEF GetRead, SignalAt
<1>2. running \in Thread \ blocked /\ doing[running] \in Getting
  BY <1>1, RunningIs DEF CallAt, Fits, GetLabels
<1>3. PICK r \in Thread : r = running
  BY <1>2
<1>4. Contents(b) \in Seq(Char) /\ Len(Contents(b)) \in Nat
  BY TokensNow
<1>5. Len(Contents(b)) > 0
  <2>1. r \in Claimed(b)
    BY <1>1, <1>2, <1>3, CountsAre
  <2>2. Cardinality(Claimed(b)) >= 1
    BY <2>1, Member
  <2>3. /\ TokensOf(b) /\ Cap \in Nat /\ Len(Contents(b)) \in Nat
        /\ Spent(val[<<b, "item">>]) \in Nat /\ Spent(val[<<b, "space">>]) \in Nat
        /\ Cardinality(Claimed(b)) \in Nat /\ Cardinality(Announcing(b)) \in Nat
        /\ Cardinality(Filling(b)) \in Nat /\ Cardinality(Freeing(b)) \in Nat
    BY TokensNow
  <2> QED BY <2>2, <2>3 DEF TokensOf
<1>6. /\ RingInv' /\ Contents(b)' = Tail(Contents(b)) /\ Contents(b) # <<>>
      /\ buffer[b][head[b]] \in Char
      /\ \A d \in Buffer \ {b} : Contents(d)' = Contents(d)
  BY <1>1, <1>5, GetContents DEF ConsoleInv
<1>7. /\ Inv' /\ CallInv' /\ ParkInv' /\ MutexInv' /\ QueuedInv' /\ DeviceInv'
      /\ UNCHANGED <<running, blocked>> /\ pc'[running] = "get_space"
      /\ \A t \in Thread \ {running} : pc'[t] = pc[t]
      /\ \A d \in Buffer, i \in {"item", "space"} : val'[<<d, i>>] = val[<<d, i>>]
  BY <1>1, <1>6, MutexSignal
<1>8. Len(Contents(b)') = Len(Contents(b)) - 1
  BY <1>4, <1>6
<1>9. (\A c \in Buffer : TokensOf(c))'
  <2> SUFFICES ASSUME NEW c \in Buffer PROVE TokensOf(c)'
    OBVIOUS
  <2> PICK n \in Int : n = IF b = c THEN 1 ELSE 0
    OBVIOUS
  <2>1. \A t \in Thread \ {r} : /\ pc'[t] = pc[t] /\ doing'[t] = doing[t]
                                /\ t \in blocked' <=> t \in blocked
    BY <1>1, <1>3, <1>7
  <2>2. /\ One(r, Announcing(c)) = 0 /\ One(r, Announcing(c)') = 0
        /\ One(r, Filling(c)) = 0 /\ One(r, Filling(c)') = 0
        /\ One(r, Freeing(c)) = 0 /\ One(r, Freeing(c)') = n
        /\ One(r, Claimed(c)) = n /\ One(r, Claimed(c)') = 0
    BY <1>1, <1>2, <1>3, <1>7, CountsAre, CountsBecome DEF One
  <2>3. /\ Cardinality(Announcing(c)') = Cardinality(Announcing(c))
        /\ Cardinality(Filling(c)') = Cardinality(Filling(c))
        /\ Cardinality(Claimed(c)') = Cardinality(Claimed(c)) - n
        /\ Cardinality(Freeing(c)') = Cardinality(Freeing(c)) + n
        /\ Cardinality(Claimed(c)) \in Nat /\ Cardinality(Announcing(c)) \in Nat
        /\ Cardinality(Filling(c)) \in Nat /\ Cardinality(Freeing(c)) \in Nat
    BY <2>1, <2>2, CountShift, CountsAre
  <2>4. Len(Contents(c)') = Len(Contents(c)) - n
    BY <1>4, <1>6, <1>8
  <2>5. Spent(val'[<<c, "item">>]) = Spent(val[<<c, "item">>])
        /\ Spent(val'[<<c, "space">>]) = Spent(val[<<c, "space">>])
    BY <1>7
  <2>6. /\ TokensOf(c) /\ Cap \in Nat /\ Len(Contents(c)) \in Nat
        /\ Spent(val[<<c, "item">>]) \in Nat /\ Spent(val[<<c, "space">>]) \in Nat
        /\ Cardinality(Filling(c)) \in Nat /\ Cardinality(Freeing(c)) \in Nat
    BY TokensNow
  <2>7. Len(Contents(c)') = Spent(val'[<<c, "item">>])
                            + Cardinality(Claimed(c)') + Cardinality(Announcing(c)')
    <3> PICK l, s, f, e : /\ l = Len(Contents(c)) /\ s = Spent(val[<<c, "item">>])
                          /\ f = Cardinality(Claimed(c)) /\ e = Cardinality(Announcing(c))
      OBVIOUS
    <3>1. l = s + f + e /\ l \in Nat /\ s \in Nat /\ f \in Nat /\ e \in Nat
      BY <2>3, <2>6 DEF TokensOf
    <3>2. l - n = s + (f - n) + e
      BY <3>1
    <3> QED BY <2>3, <2>4, <2>5, <3>2
  <2>8. Cap - Len(Contents(c)') = Spent(val'[<<c, "space">>])
                            + Cardinality(Filling(c)') + Cardinality(Freeing(c)')
    <3> PICK l, s, f, e : /\ l = Len(Contents(c)) /\ s = Spent(val[<<c, "space">>])
                          /\ f = Cardinality(Filling(c)) /\ e = Cardinality(Freeing(c))
      OBVIOUS
    <3>1. Cap - l = s + f + e /\ Cap \in Nat /\ l \in Nat /\ s \in Nat /\ f \in Nat /\ e \in Nat
      BY <2>6 DEF TokensOf
    <3>2. Cap - (l - n) = s + f + (e + n)
      BY <3>1
    <3> QED BY <2>3, <2>4, <2>5, <3>2
  <2> QED BY <2>7, <2>8 DEF TokensOf
<1>10. TokensMatchRing'
  BY <1>9, TokensNext
<1> QED BY <1>6, <1>7, <1>10 DEF ConsoleInv

(* Counting when x and y change, and y is not in the set at any time. *)
LEMMA CountOther ==
  ASSUME NEW x \in Thread, NEW y \in Thread, NEW b, NEW ops, NEW labels,
         \A t \in Thread \ {x, y} : /\ pc'[t] = pc[t] /\ doing'[t] = doing[t]
                                    /\ t \in blocked' <=> t \in blocked,
         x = y \/ (y \notin Past(b, ops, labels) /\ y \notin Past(b, ops, labels)')
  PROVE  Cardinality(Past(b, ops, labels)')
         = Cardinality(Past(b, ops, labels)) + One(x, Past(b, ops, labels)')
                                             - One(x, Past(b, ops, labels))
<1>1. Past(b, ops, labels)' \ {x} = Past(b, ops, labels) \ {x}
  BY DEF Past
<1>2. IsFiniteSet(Past(b, ops, labels))
  <2>1. Past(b, ops, labels) \subseteq Thread
    BY DEF Past
  <2> QED BY <2>1, FS_Subset, ConsoleAssumption
<1> QED BY <1>1, <1>2, OneElement

(* The running thread leaves put() or get() and announces what it put or   *)
(* what place it freed, to a thread that waits for it if there is one.     *)
LEMMA CountedSignal ==
  ASSUME ConsoleInv, PutItem \/ GetSpace
  PROVE  ConsoleInv'
<1>1. PICK k, from, label, c :
        /\ \/ k = "item" /\ from = "put_item" /\ c = NoChar
           \/ /\ k = "space" /\ from = "get_space"
              /\ c = IF doing[running] = "drain" THEN chr[running] ELSE NoChar
        /\ SignalAt(from, k, label) /\ label = Back(doing[running])
        /\ doing' = [doing EXCEPT ![running] = "none"]
        /\ chr' = [chr EXCEPT ![running] = c]
        /\ UNCHANGED bufferVars
  BY DEF PutItem, GetSpace
<1>2. PICK b \in Buffer : b = BufferOf(doing[running])
  BY DEF BufferOf, Buffer
<1>3. k \in {"item", "space"} /\ k \in {"item", "space", "head", "tail"}
  BY <1>1
<1>4. Inv' /\ Signalled(b, k, label) /\ pc[running] = from
  <2>1. SignalAt(from, k, label)
    BY <1>1
  <2> HIDE <1>1
  <2> QED BY <1>2, <1>3, <2>1, SignalIs
<1>5. PICK r \in Thread : r = running /\ r \notin blocked
  BY RunningIs
<1>6. /\ CallAt(r) /\ pc[r] = from
      /\ k = "item" => doing[r] \in Putting
      /\ k = "space" => doing[r] \in Getting
  BY <1>1, <1>4, <1>5, RunningIs DEF CallAt, Fits, PutLabels, GetLabels
<1>7. /\ Labelled' /\ pc'[r] = label /\ doing'[r] = "none" /\ chr'[r] = c
      /\ \A t \in Thread \ {r} : pc'[t] = pc[t] /\ doing'[t] = doing[t] /\ chr'[t] = chr[t]
      /\ UNCHANGED <<running, txReady, rxData, claimed, Started>>
      /\ OnlyMoves(r)
  BY <1>1, <1>4, <1>5 DEF Signalled, OnlyMoves, ConsoleInv, CallInv
<1>8. label \in {"ecall", "send", "rx"} /\ (label = "send" <=> doing[r] = "drain")
  BY <1>1, <1>5, <1>6 DEF Back, Putting, Getting
<1>9. CallInv'
  <2>1. /\ c \in Char \cup {NoChar}
        /\ label = "send" => c \in Char /\ r = kProd
    BY <1>1, <1>5, <1>6, <1>8 DEF CallAt, Fits, Putting
  <2>2. Fits(r, label, "none", c)
    BY <1>8, <2>1 DEF Fits, PutLabels, GetLabels, Putting, Getting, ConsolePC, Operation
  <2>3. CallAt(r)'
    BY <1>5, <1>7, <2>2, RunningIs DEF CallAt
  <2> QED BY <1>7, <2>3, CallMove DEF ConsoleInv
<1>10. ParkInv'
  BY <1>5, <1>7, ParkMove DEF ConsoleInv
<1>11. /\ val[<<b, k>>] \in Int /\ <<b, k>> \in Sem
       /\ \A q \in Sem : val'[q] = IF q = <<b, k>> THEN val[<<b, k>>] + 1 ELSE val[q]
  BY <1>3, <1>4, SemsAre DEF Signalled
<1>12. /\ \A q \in Sem : Range(blockedQ'[q]) \subseteq Range(blockedQ[q])
       /\ \A q \in Sem \ {<<b, k>>} : blockedQ'[q] = blockedQ[q]
  BY <1>4 DEF Signalled
<1>13. MutexInv'
  <2>1. \A d \in Buffer, m \in Mutex : <<d, m>> # <<b, k>> /\ <<d, m>> \in Sem
    BY <1>3, SemsAre DEF Mutex
  <2>2. \A d \in Buffer, m \in Mutex : /\ val'[<<d, m>>] = val[<<d, m>>]
                                       /\ blockedQ'[<<d, m>>] = blockedQ[<<d, m>>]
    BY <1>11, <1>12, <2>1
  <2>3. /\ pc[running] \notin {"put_write", "get_read"}
        /\ pc'[running'] \notin {"put_write", "get_read"}
    BY <1>1, <1>5, <1>6, <1>7, <1>8
  <2>4. MutexInv
    BY DEF ConsoleInv
  <2> HIDE <1>1
  <2> QED BY <2>2, <2>3, <2>4, MutexMove
<1>14. QueuedInv'
  BY <1>5, <1>7, <1>12, QueuedMove DEF ConsoleInv
<1>15. RingInv'
  BY <1>1, RingFrame DEF ConsoleInv
<1>16. DeviceInv'
  BY <1>5, <1>6, <1>7, <1>8, BootThreads DEF ConsoleInv, DeviceInv, CallAt, Fits
<1>18. PICK h \in Thread :
         \/ h = r /\ val[<<b, k>>] >= 0 /\ blocked' = blocked
         \/ /\ h # r /\ val[<<b, k>>] < 0 /\ blocked' = blocked \ {h}
            /\ h \in blocked /\ h \in Range(blockedQ[<<b, k>>])
  BY <1>4, <1>5 DEF Signalled
<1>19. h # r => /\ BufferOf(doing[h]) = b
                /\ k = "item" => pc[h] = "get_head" /\ doing[h] \in Getting
                /\ k = "space" => pc[h] = "put_tail" /\ doing[h] \in Putting
  <2>1. h # r => /\ BufferOf(doing[h]) = b
                 /\ pc[h] = IF k = "item" THEN "get_head" ELSE "put_tail"
    BY <1>3, <1>18 DEF ConsoleInv, QueuedInv
  <2>2. CallAt(h)
    BY DEF ConsoleInv, CallInv
  <2> QED BY <1>3, <2>1, <2>2 DEF CallAt, Fits, PutLabels, GetLabels
<1>20. (\A d \in Buffer : TokensOf(d))'
  <2> SUFFICES ASSUME NEW d \in Buffer PROVE TokensOf(d)'
    OBVIOUS
  <2>1. PICK i \in Int, p \in Int, j \in Int, q \in Int :
          /\ i = IF b = d /\ k = "item" THEN 1 ELSE 0
          /\ p = IF b = d /\ k = "space" THEN 1 ELSE 0
          /\ j = IF b = d /\ k = "item" /\ h # r THEN 1 ELSE 0
          /\ q = IF b = d /\ k = "space" /\ h # r THEN 1 ELSE 0
    OBVIOUS
  <2>2. \A t \in Thread \ {r, h} : /\ pc'[t] = pc[t] /\ doing'[t] = doing[t]
                                   /\ t \in blocked' <=> t \in blocked
    BY <1>7, <1>18
  <2>3. /\ One(r, Announcing(d)) = i /\ One(r, Announcing(d)') = 0
        /\ One(r, Freeing(d)) = p /\ One(r, Freeing(d)') = 0
        /\ r \notin Claimed(d) /\ r \notin Claimed(d)'
        /\ r \notin Filling(d) /\ r \notin Filling(d)'
    <3>1. pc[r] = IF k = "item" THEN "put_item" ELSE "get_space"
      BY <1>1, <1>6
    <3>2. /\ r \in Announcing(d) <=> b = d /\ k = "item"
          /\ r \in Freeing(d) <=> b = d /\ k = "space"
          /\ r \notin Claimed(d) /\ r \notin Filling(d)
      BY <1>2, <1>3, <1>5, <1>6, <3>1, CountsAre
    <3>3. /\ r \notin Announcing(d)' /\ r \notin Freeing(d)'
          /\ r \notin Claimed(d)' /\ r \notin Filling(d)'
      BY <1>7, CountsBecome DEF Putting, Getting
    <3> QED BY <2>1, <3>2, <3>3 DEF One
  <2>4. h # r => /\ h \notin Announcing(d) /\ h \notin Announcing(d)'
                 /\ h \notin Freeing(d) /\ h \notin Freeing(d)'
    BY <1>3, <1>7, <1>18, <1>19, CountsAre, CountsBecome
  <2>5. /\ One(h, Claimed(d)) = 0 /\ One(h, Claimed(d)') = j
        /\ One(h, Filling(d)) = 0 /\ One(h, Filling(d)') = q
    BY <1>3, <1>7, <1>18, <1>19, <2>1, <2>3, CountsAre, CountsBecome DEF One
  <2>6. /\ Cardinality(Announcing(d)') = Cardinality(Announcing(d)) + 0 - i
        /\ Cardinality(Freeing(d)') = Cardinality(Freeing(d)) + 0 - p
    <3>1. Cardinality(Announcing(d)') = Cardinality(Announcing(d)) + One(r, Announcing(d)')
                                                                   - One(r, Announcing(d))
      <4>1. CASE h = r
        BY <2>2, <4>1, CountShift
      <4>2. CASE h # r
        BY <2>2, <2>4, <4>2, CountOther DEF Announcing
      <4> QED BY <4>1, <4>2
    <3>2. Cardinality(Freeing(d)') = Cardinality(Freeing(d)) + One(r, Freeing(d)')
                                                             - One(r, Freeing(d))
      <4>1. CASE h = r
        BY <2>2, <4>1, CountShift
      <4>2. CASE h # r
        BY <2>2, <2>4, <4>2, CountOther DEF Freeing
      <4> QED BY <4>1, <4>2
    <3> QED BY <2>3, <3>1, <3>2
  <2>7. /\ Cardinality(Claimed(d)') = Cardinality(Claimed(d)) + j - 0
        /\ Cardinality(Filling(d)') = Cardinality(Filling(d)) + q - 0
    BY <2>2, <2>3, <2>5, CountOther DEF Claimed, Filling
  <2>8. <<d, "item">> \in Sem /\ <<d, "space">> \in Sem
        /\ val[<<d, "item">>] \in Int /\ val[<<d, "space">>] \in Int
    BY SemsAre, TokensNow
  <2>9. Spent(val'[<<d, "item">>]) = Spent(val[<<d, "item">>]) + i - j
    BY <1>3, <1>11, <1>18, <2>1, <2>8 DEF Spent
  <2>10. Spent(val'[<<d, "space">>]) = Spent(val[<<d, "space">>]) + p - q
    BY <1>3, <1>11, <1>18, <2>1, <2>8 DEF Spent
  <2>11. Contents(d)' = Contents(d)
    BY <1>1, ContentsFrame
  <2>12. Len(Contents(d)') = Spent(val'[<<d, "item">>])
                            + Cardinality(Claimed(d)') + Cardinality(Announcing(d)')
    <3> PICK l, s, f, e : /\ l = Len(Contents(d)) /\ s = Spent(val[<<d, "item">>])
                          /\ f = Cardinality(Claimed(d)) /\ e = Cardinality(Announcing(d))
      OBVIOUS
    <3>1. l = s + f + e /\ l \in Nat /\ s \in Nat /\ f \in Nat /\ e \in Nat
      BY TokensNow DEF TokensOf
    <3>2. l = (s + i - j) + (f + j - 0) + (e + 0 - i)
      BY <3>1, SMTT(30)
    <3> QED BY <2>6, <2>7, <2>9, <2>11, <3>2
  <2>13. Cap - Len(Contents(d)') = Spent(val'[<<d, "space">>])
                            + Cardinality(Filling(d)') + Cardinality(Freeing(d)')
    <3> PICK l, s, f, e : /\ l = Len(Contents(d)) /\ s = Spent(val[<<d, "space">>])
                          /\ f = Cardinality(Filling(d)) /\ e = Cardinality(Freeing(d))
      OBVIOUS
    <3>1. Cap - l = s + f + e /\ Cap \in Nat /\ l \in Nat /\ s \in Nat /\ f \in Nat /\ e \in Nat
      BY TokensNow DEF TokensOf
    <3>2. Cap - l = (s + p - q) + (f + q - 0) + (e + 0 - p)
      BY <3>1, SMTT(30)
    <3> QED BY <2>6, <2>7, <2>10, <2>11, <3>2
  <2> QED BY <2>12, <2>13 DEF TokensOf
<1>21. TokensMatchRing'
  BY <1>20, TokensNext
<1> QED BY <1>4, <1>9, <1>10, <1>13, <1>14, <1>15, <1>16, <1>21 DEF ConsoleInv

-----------------------------------------------------------------------------
(* Every step keeps the invariant. *)
LEMMA ConsoleStep ==
  ASSUME SafeDelete, ConsoleInv, [KeptNext]_consoleVars
  PROVE  ConsoleInv'
<1>1. CASE Scheduling /\ IdleKept'
  BY <1>1, SchedulingStep
<1>2. CASE BufferStep /\ IdleKept'
  <2>1. ASSUME PutWrite \/ GetRead PROVE ConsoleInv'
    <3>1. PICK b \in Buffer : b = BufferOf(doing[running])
      BY DEF BufferOf, Buffer
    <3> QED BY <2>1, <3>1, PutWriteIs, GetReadIs
  <2> QED BY <1>2, <2>1, CountedWait, MutexWait, CountedSignal DEF BufferStep
<1>3. CASE GetcCall \/ DrainCall \/ \E c \in Written : PutcCall(c)
  BY <1>3, CallStep
<1>4. CASE DrainTest \/ Send
  BY <1>4, DrainStep
<1>5. CASE InterruptHardware \/ Receive
  BY <1>5, InterruptStep
<1>6. CASE TransmitterReady \/ \E c \in Typed : Arrive(c)
  BY <1>6, DeviceStep
<1>7. CASE UNCHANGED consoleVars
  <2>1. UNCHANGED <<vars, bufferVars, deviceVars, callVars>>
    BY <1>7 DEF consoleVars
  <2>2. /\ UNCHANGED <<running, pc, doing, chr, scheduled, finished, blocked, val, blockedQ,
                       txReady, rxData, claimed, bufferVars>>
        /\ Inv'
    BY <2>1, StutterInv DEF ConsoleInv, vars, cpuVars, threadVars, semVars, callVars, deviceVars
  <2> QED BY <2>2, StandStep DEF ConsoleInv, DeviceInv, Started, SemsKept
<1> QED BY <1>1, <1>2, <1>3, <1>4, <1>5, <1>6, <1>7 DEF KeptNext, ConsoleNext

(* At first the boot message is in "out" and nothing is in "in". *)
LEMMA FirstContents ==
  ASSUME ConsoleInit
  PROVE  /\ Contents("out") = BootText /\ Contents("in") = <<>>
         /\ head \in [Buffer -> 0..Cap] /\ tail \in [Buffer -> 0..Cap]
         /\ buffer \in [Buffer -> [0..Cap -> Char \cup {NoChar}]]
<1> DEFINE n == Cap + 1
           first(b) == IF b = "out" THEN Len(BootText) ELSE 0
<1>1. /\ Cap \in Nat /\ n \in Nat \ {0} /\ BootText \in Seq(Char) /\ Len(BootText) \in 0..Cap
      /\ \A i \in 1..Len(BootText) : BootText[i] \in Char
  BY ConsoleAssumption
<1>2. \A b \in Buffer : /\ head[b] = 0 /\ tail[b] = first(b) /\ first(b) \in 0..Cap
                        /\ buffer[b] = [i \in 0..Cap |->
                             IF b = "out" /\ i < Len(BootText) THEN BootText[i + 1] ELSE NoChar]
  BY <1>1 DEF ConsoleInit
<1>3. /\ head \in [Buffer -> 0..Cap] /\ tail \in [Buffer -> 0..Cap]
  BY <1>1 DEF ConsoleInit
<1>4. buffer \in [Buffer -> [0..Cap -> Char \cup {NoChar}]]
  <2>1. \A i \in 0..Cap : i < Len(BootText) => BootText[i + 1] \in Char
    BY <1>1
  <2> QED BY <2>1 DEF ConsoleInit
<1>5. ASSUME NEW b \in Buffer
      PROVE  Contents(b) = [i \in 1..first(b) |-> buffer[b][i - 1]]
  <2>1. PICK h, l : h = head[b] /\ l = tail[b]
    OBVIOUS
  <2>2. h = 0 /\ l = first(b) /\ l \in 0..Cap
    BY <1>2, <2>1
  <2>3. Used(h, l, n) = l
    <3>1. h \in 0..(n - 1) /\ l \in 0..(n - 1) /\ h <= l /\ l - h = l
      BY <1>1, <2>2
    <3> QED BY <1>1, <3>1, UsedIs
  <2>4. l - h + Cap + 1 = l - h + n
    <3>1. l \in Int /\ h \in Int /\ Cap \in Int
      BY <1>1, <2>2
    <3> HIDE DEF first
    <3> QED BY <3>1
  <2>5. Contents(b) = [i \in 1..l |-> buffer[b][(h + i - 1) % n]]
    BY <2>1, <2>3, <2>4 DEF Contents, Used
  <2>6. \A i \in 1..l : (h + i - 1) % n = i - 1
    <3> SUFFICES ASSUME NEW i \in 1..l PROVE (h + i - 1) % n = i - 1
      OBVIOUS
    <3>1. PICK k \in Int : k = i - 1 /\ h + i - 1 = k
      BY <2>2
    <3>2. 0 <= k /\ k < n /\ k < 2 * n
      BY <1>1, <2>2, <3>1
    <3>3. k % n = k
      BY <1>1, <3>2, Wraps
    <3> QED BY <3>1, <3>3
  <2> QED BY <2>2, <2>5, <2>6
<1>6. Contents("in") = <<>>
  BY <1>5 DEF Buffer
<1>7. Contents("out") = BootText
  <2>1. Contents("out") = [i \in 1..Len(BootText) |-> buffer["out"][i - 1]]
    BY <1>5 DEF Buffer
  <2>2. \A i \in 1..Len(BootText) : buffer["out"][i - 1] = BootText[i]
    <3> SUFFICES ASSUME NEW i \in 1..Len(BootText) PROVE buffer["out"][i - 1] = BootText[i]
      OBVIOUS
    <3>1. i - 1 \in 0..Cap /\ i - 1 < Len(BootText) /\ (i - 1) + 1 = i
      BY <1>1
    <3> QED BY <1>2, <3>1 DEF Buffer
  <2>3. BootText = [i \in 1..Len(BootText) |-> BootText[i]]
    BY <1>1
  <2> QED BY <2>1, <2>2, <2>3
<1> QED BY <1>3, <1>4, <1>6, <1>7

(* The first state: nobody is in put() or get(). *)
LEMMA FirstInv == ConsoleInit => ConsoleInv
<1> SUFFICES ASSUME ConsoleInit PROVE ConsoleInv
  OBVIOUS
<1>1. Init /\ Inv
  BY InitInv DEF ConsoleInit
<1>2. /\ running = main /\ blocked = {} /\ \A t \in Thread : pc[t] \in {"join", "new"}
      /\ \A t \in Thread : doing[t] = "none" /\ chr[t] = NoChar
      /\ rxData = NoChar /\ txReady = TRUE /\ claimed = FALSE
  BY <1>1 DEF Init, ConsoleInit
<1>3. CallInv
  <2>1. \A t \in Thread : Fits(t, pc[t], doing[t], chr[t])
    BY <1>2 DEF Fits, ConsolePC, Operation, PutLabels, GetLabels, Putting, Getting
  <2> QED BY <1>2, <2>1 DEF CallInv, CallAt, ConsoleInit
<1>4. ParkInv
  BY <1>2 DEF ParkInv, Parked
<1>5. DeviceInv
  BY <1>2, BootThreads DEF DeviceInv
<1>6. \A b \in Buffer :
        /\ val[<<b, "item">>] = Len(Contents(b)) /\ val[<<b, "space">>] = Cap - Len(Contents(b))
        /\ val[<<b, "head">>] = 1 /\ val[<<b, "tail">>] = 1
  <2> SUFFICES ASSUME NEW b \in Buffer
               PROVE  /\ val[<<b, "item">>] = Len(Contents(b))
                      /\ val[<<b, "space">>] = Cap - Len(Contents(b))
                      /\ val[<<b, "head">>] = 1 /\ val[<<b, "tail">>] = 1
    OBVIOUS
  <2>1. \A k \in {"item", "space", "head", "tail"} : val[<<b, k>>] = BootVal[<<b, k>>]
    BY <1>1, SemsAre, SemAssumption, ConsoleAssumption DEF Init, SemsOf, Mutex
  <2>2. Len(Contents(b)) = IF b = "out" THEN Len(BootText) ELSE 0
    BY FirstContents DEF Buffer
  <2> QED BY <2>1, <2>2, ConsoleAssumption
<1>7. \A b \in Buffer, k \in {"item", "space", "head", "tail"} : blockedQ[<<b, k>>] = <<>>
  BY <1>1, SemsAre DEF Init
<1>8. MutexInv
  <2>1. \A b, m : ~Held(b, m)
    <3>1. pc[running] \in {"join", "new"}
      BY <1>2, BootThreads
    <3> QED BY <3>1 DEF Held
  <2>2. \A b \in Buffer, m \in Mutex : blockedQ[<<b, m>>] = <<>> /\ val[<<b, m>>] = 1
    BY <1>6, <1>7 DEF Mutex
  <2> QED BY <2>1, <2>2 DEF MutexInv
<1>9. QueuedInv
  <2>1. \A q \in Sem : Range(blockedQ[q]) = {}
    BY <1>1, QueueEmpty DEF Init
  <2> QED BY <2>1, SemsAre DEF QueuedInv
<1>10. RingInv
  <2>1. Contents("out") \in Seq(Char) /\ Contents("in") \in Seq(Char)
    <3>1. <<>> \in Seq(Char) /\ BootText \in Seq(Char)
      BY ConsoleAssumption
    <3>2. Contents("out") = BootText /\ Contents("in") = <<>>
      BY FirstContents
    <3> QED BY <3>1, <3>2
  <2> QED BY <2>1, FirstContents DEF RingInv, Buffer
<1>11. TokensMatchRing
  <2> SUFFICES ASSUME NEW b \in Buffer PROVE TokensOf(b)
    BY TokensAre
  <2>1. Claimed(b) = {} /\ Announcing(b) = {} /\ Filling(b) = {} /\ Freeing(b) = {}
    BY <1>2 DEF Claimed, Announcing, Filling, Freeing, Past, Putting, Getting
  <2>2. Cardinality({}) = 0
    BY FS_EmptySet
  <2>3. PICK l \in Nat : l = Len(Contents(b)) /\ l <= Cap /\ Cap \in Nat
    BY FirstContents, ConsoleAssumption DEF Buffer
  <2>4. Spent(l) = l /\ Spent(Cap - l) = Cap - l
    BY <2>3 DEF Spent
  <2>5. l = Spent(val[<<b, "item">>]) + 0 + 0 /\ Cap - l = Spent(val[<<b, "space">>]) + 0 + 0
    <3>1. val[<<b, "item">>] = l /\ val[<<b, "space">>] = Cap - l
      BY <1>6, <2>3
    <3> QED BY <2>3, <2>4, <3>1
  <2> QED BY <2>1, <2>2, <2>3, <2>5 DEF TokensOf
<1> QED BY <1>1, <1>3, <1>4, <1>5, <1>8, <1>9, <1>10, <1>11 DEF ConsoleInv

-----------------------------------------------------------------------------
(* The inductive invariant, the tokens of kBuffer::put and get and all     *)
(* that they rest on, holds in every state up to the step in which         *)
(* dispatch() hands out a blocked idle.                                    *)
THEOREM ConsoleInvariance == ASSUME SafeDelete PROVE KeptSpec => []ConsoleInv
<1>1. ASSUME ConsoleInv, [KeptNext]_consoleVars PROVE ConsoleInv'
  BY <1>1, ConsoleStep
<1> QED BY FirstInv, <1>1, PTL DEF KeptSpec

(* Kernel's promises survive the console, which holds threads up in the    *)
(* middle of put() and get(), in system calls and, when the input buffer   *)
(* is full, in the interrupt routine, idle among them.                     *)
THEOREM ConsoleKeepsKernel ==
  ASSUME SafeDelete
  PROVE  KeptSpec => [](/\ LinkedOnce /\ FlagsMatchQueues /\ RunnableIsReady
                        /\ RunningMayRun /\ ValCountsWaiters)
<1>1. ConsoleInv => /\ LinkedOnce /\ FlagsMatchQueues /\ RunnableIsReady
                    /\ RunningMayRun /\ ValCountsWaiters
  BY InvGives DEF ConsoleInv
<1> QED BY <1>1, ConsoleInvariance, PTL

(* Types: the indices of a kBuffer stay in its array, and what 0xFE writes *)
(* to the transmitter was put by somebody.                                 *)
THEOREM ConsoleTypes == ASSUME SafeDelete PROVE KeptSpec => []ConsoleTypeOK
<1>1. ConsoleInv => ConsoleTypeOK
  <2> SUFFICES ASSUME ConsoleInv PROVE ConsoleTypeOK
    OBVIOUS
  <2>1. \A t \in Thread : Fits(t, pc[t], doing[t], chr[t])
    BY DEF ConsoleInv, CallInv, CallAt
  <2>2. pc \in [Thread -> ConsolePC]
    BY <2>1 DEF Fits, ConsoleInv, Inv, ControlInv, Labelled
  <2>3. doing \in [Thread -> Operation] /\ chr \in [Thread -> Char \cup {NoChar}]
    BY <2>1 DEF Fits, ConsoleInv, CallInv
  <2>4. \A t \in Thread : pc[t] = "send" => chr[t] # NoChar
    BY <2>1, ConsoleAssumption DEF Fits
  <2> QED BY <2>2, <2>3, <2>4 DEF ConsoleTypeOK, ConsoleInv, DeviceInv, RingInv
<1> QED BY <1>1, ConsoleInvariance, PTL

(* kBuffer: no character and no place is lost or counted twice.            *)
THEOREM TokensKept == ASSUME SafeDelete PROVE KeptSpec => []TokensMatchRing
<1>1. ConsoleInv => TokensMatchRing
  BY DEF ConsoleInv
<1> QED BY <1>1, ConsoleInvariance, PTL

(* The mutexes of a kBuffer never hold a thread up.                        *)
THEOREM NobodyWaitsForMutex == ASSUME SafeDelete PROVE KeptSpec => []MutexUncontended
<1>1. ConsoleInv => MutexUncontended
  BY DEF ConsoleInv, MutexInv, MutexUncontended, Held
<1> QED BY <1>1, ConsoleInvariance, PTL

(* 0xFE writes to the transmitter only when it is ready.                   *)
THEOREM SentWhenReady == ASSUME SafeDelete PROVE KeptSpec => []SendsWhenReady
<1>1. ConsoleInv => SendsWhenReady
  BY DEF ConsoleInv, CallInv, CallAt, Fits, DeviceInv, SendsWhenReady
<1> QED BY <1>1, ConsoleInvariance, PTL

-----------------------------------------------------------------------------
(* What a step does to the rings. *)
LEMMA RingStep ==
  ASSUME ConsoleInv, [KeptNext]_consoleVars
  PROVE  \/ UNCHANGED <<Contents("out"), Contents("in")>>
         \/ \E b \in Buffer, c \in Char :
              /\ Len(Contents(b)) < Cap /\ Contents(b)' = Append(Contents(b), c)
              /\ \A d \in Buffer \ {b} : Contents(d)' = Contents(d)
         \/ \E b \in Buffer :
              /\ Contents(b) # <<>> /\ Contents(b)' = Tail(Contents(b))
              /\ \A d \in Buffer \ {b} : Contents(d)' = Contents(d)
<1>1. CASE PutWrite \/ GetRead
  <2>1. PICK b \in Buffer : b = BufferOf(doing[running])
    BY DEF BufferOf, Buffer
  <2>2. CASE PutWrite
    <3>1. PICK c : c = chr[running]
      OBVIOUS
    <3>2. /\ c \in Char /\ Len(Contents(b)) < Cap /\ Contents(b)' = Append(Contents(b), c)
          /\ \A d \in Buffer \ {b} : Contents(d)' = Contents(d)
      BY <2>1, <2>2, <3>1, PutWriteIs
    <3> QED BY <3>2
  <2>3. CASE GetRead
    BY <2>1, <2>3, GetReadIs
  <2> QED BY <1>1, <2>2, <2>3
<1>2. CASE UNCHANGED bufferVars
  BY <1>2, ContentsFrame
<1>3. PutSpace \/ PutTail \/ GetItem \/ GetHead => UNCHANGED bufferVars
  BY DEF PutSpace, PutTail, GetItem, GetHead, AwaitAt
<1>4. PutItem \/ GetSpace => UNCHANGED bufferVars
  BY DEF PutItem, GetSpace
<1>5. Scheduling => UNCHANGED bufferVars
  BY DEF Scheduling
<1>6. ASSUME NEW c PROVE PutcCall(c) \/ Arrive(c) => UNCHANGED bufferVars
  BY DEF PutcCall, Arrive, Enter
<1>7. GetcCall \/ DrainCall \/ DrainTest \/ Send => UNCHANGED bufferVars
  BY DEF GetcCall, DrainCall, DrainTest, Send, Enter
<1>8. InterruptHardware \/ Receive \/ TransmitterReady => UNCHANGED bufferVars
  BY DEF InterruptHardware, Receive, TransmitterReady, Enter
<1>9. UNCHANGED consoleVars => UNCHANGED bufferVars
  BY DEF consoleVars
<1> QED BY <1>1, <1>2, <1>3, <1>4, <1>5, <1>6, <1>7, <1>8, <1>9
        DEF KeptNext, ConsoleNext, BufferStep

(* Each kBuffer implements a bounded first-in first-out queue: whatever    *)
(* threads are between the semaphore operations of put() and get(), a ring *)
(* is written only where it has room and read only where it has something. *)
THEOREM BuffersAreFifo == ASSUME SafeDelete PROVE KeptSpec => OutputIsFifo /\ InputIsFifo
<1>1. ConsoleInit => Out!Init /\ In!Init
  BY FirstContents DEF Out!Init, In!Init
<1>2. ASSUME ConsoleInv, [KeptNext]_consoleVars
      PROVE  [Out!Next]_(Contents("out")) /\ [In!Next]_(Contents("in"))
  <2>1. CASE UNCHANGED <<Contents("out"), Contents("in")>>
    BY <2>1
  <2>2. ASSUME NEW b \in Buffer, NEW c \in Char,
               Len(Contents(b)) < Cap, Contents(b)' = Append(Contents(b), c),
               \A d \in Buffer \ {b} : Contents(d)' = Contents(d)
        PROVE  [Out!Next]_(Contents("out")) /\ [In!Next]_(Contents("in"))
    BY <2>2 DEF Buffer, Out!Next, Out!Put, In!Next, In!Put
  <2>3. ASSUME NEW b \in Buffer, Contents(b) # <<>>, Contents(b)' = Tail(Contents(b)),
               \A d \in Buffer \ {b} : Contents(d)' = Contents(d)
        PROVE  [Out!Next]_(Contents("out")) /\ [In!Next]_(Contents("in"))
    BY <2>3 DEF Buffer, Out!Next, Out!Get, In!Next, In!Get
  <2> QED BY <1>2, <2>1, <2>2, <2>3, RingStep
<1> QED BY <1>1, <1>2, ConsoleInvariance, PTL
        DEF KeptSpec, OutputIsFifo, InputIsFifo, Out!Spec, In!Spec
=============================================================================
