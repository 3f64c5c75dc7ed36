---------------------------- MODULE KernelLinks -----------------------------
(***************************************************************************)
(* Kernel keeps its queues as sequences.  The code keeps them as lists     *)
(* that run through the TCBs themselves (src/src/scheduler.cpp,            *)
(* Semaphore.cpp, SleepList.cpp): here the pointers are added, and every   *)
(* step of Kernel changes them by the put() and get() calls it makes.      *)
(* put() does not clear the link of the TCB it appends; it relies on the   *)
(* get() that last took this TCB off a list.                               *)
(***************************************************************************)
EXTENDS KernelClock, KernelLife

CONSTANT Null \* nullptr

ASSUME NullAssumption == Null \notin Thread

VARIABLES
  readyQueueHead, readyQueueTail, next,                 \* Scheduler, TCB::next
  blockedQueueHead, blockedQueueTail, nextBlocked,      \* Sem, TCB::nextBlocked
  sleepQueueHead, nextSleep, prevSleep                  \* SleepList

readyLinks   == <<readyQueueHead, readyQueueTail, next>>
blockedLinks == <<blockedQueueHead, blockedQueueTail, nextBlocked>>
sleepLinks   == <<sleepQueueHead, nextSleep, prevSleep>>
linkVars     == <<readyLinks, blockedLinks, sleepLinks>>

(* A singly linked list, as the put() and get() of Scheduler and Sem see it. *)
Ready == [head |-> readyQueueHead, tail |-> readyQueueTail, next |-> next]
Blocked(s) ==
  [head |-> blockedQueueHead[s], tail |-> blockedQueueTail[s], next |-> nextBlocked]

ReadyBecomes(l) ==
  /\ readyQueueHead' = l.head /\ readyQueueTail' = l.tail /\ next' = l.next
BlockedBecomes(s, l) ==
  /\ blockedQueueHead' = [blockedQueueHead EXCEPT ![s] = l.head]
  /\ blockedQueueTail' = [blockedQueueTail EXCEPT ![s] = l.tail]
  /\ nextBlocked' = l.next

put(l, t) ==
  IF l.tail # Null
  THEN [head |-> l.head, tail |-> t, next |-> [l.next EXCEPT ![l.tail] = t]]
  ELSE [head |-> t, tail |-> t, next |-> l.next]

(* get() before "cur->next = nullptr" was added to it, get() that forgets  *)
(* the tail of a list that becomes empty, and get().                       *)
getKeepsNext(l) ==
  IF l.head = Null THEN l
  ELSE [head |-> l.next[l.head],
        tail |-> IF l.next[l.head] = Null THEN Null ELSE l.tail,
        next |-> l.next]
getKeepsTail(l) ==
  IF l.head = Null THEN l
  ELSE [head |-> l.next[l.head], tail |-> l.tail, next |-> [l.next EXCEPT ![l.head] = Null]]
get(l) ==
  IF l.head = Null THEN l
  ELSE [head |-> l.next[l.head],
        tail |-> IF l.next[l.head] = Null THEN Null ELSE l.tail,
        next |-> [l.next EXCEPT ![l.head] = Null]]

(* put() of each thread of w in turn. *)
putEach(l, w) ==
  IF w = <<>> THEN l
  ELSE [head |-> IF l.tail # Null THEN l.head ELSE w[1],
        tail |-> w[Len(w)],
        next |-> [t \in Thread |->
                    IF t = l.tail THEN w[1]
                    ELSE IF \E i \in 1..(Len(w) - 1) : w[i] = t
                    THEN w[1 + CHOOSE i \in 1..(Len(w) - 1) : w[i] = t]
                    ELSE l.next[t]]]

(* TCB::dispatch: put the old thread if it may go on, take the first, and  *)
(* put the old one again if it was the only one.                           *)
Dispatched(l) ==
  LET queued == IF Eligible(running) THEN put(l, running) ELSE l
  IN  IF queued.head = running THEN put(get(queued), running) ELSE get(queued)

DispatchLinks(l) == ReadyBecomes(Dispatched(l))

-----------------------------------------------------------------------------
LinkInit ==
  /\ Init
  /\ readyQueueHead = userMain /\ readyQueueTail = kProd
  /\ next = [t \in Thread |-> IF t = userMain THEN idle
                              ELSE IF t = idle THEN kProd ELSE Null]
  /\ blockedQueueHead = [s \in Sem |-> Null] /\ blockedQueueTail = [s \in Sem |-> Null]
  /\ nextBlocked = [t \in Thread |-> Null]
  /\ sleepQueueHead = Null
  /\ nextSleep = [t \in Thread |-> Null] /\ prevSleep = [t \in Thread |-> Null]

(* The links a TCB is constructed with, and put() if it is started at once. *)
ConstructLinks(t, started) ==
  LET l == [Ready EXCEPT !.next[t] = Null]
  IN  /\ IF started THEN ReadyBecomes(put(l, t)) ELSE ReadyBecomes(l)
      /\ nextBlocked' = [nextBlocked EXCEPT ![t] = Null]
      /\ nextSleep' = [nextSleep EXCEPT ![t] = Null]
      /\ prevSleep' = [prevSleep EXCEPT ![t] = Null]
      /\ UNCHANGED <<blockedQueueHead, blockedQueueTail, sleepQueueHead>>

LinkedCreate(t, hasBody) ==
  \/ ThreadCreate(t, hasBody) /\ ConstructLinks(t, hasBody)
  \/ ThreadCreateOnly(t, hasBody) /\ ConstructLinks(t, FALSE)

LinkedStart(t) ==
  /\ ThreadScheduleOnly(t)
  /\ ReadyBecomes(put(Ready, t))
  /\ UNCHANGED <<blockedLinks, sleepLinks>>

(* thread_exit and thread_dispatch *)
LinkedYield ==
  /\ ThreadExit \/ ThreadDispatch
  /\ DispatchLinks(Ready)
  /\ UNCHANGED <<blockedLinks, sleepLinks>>

(* The three places that evaluate the loop of join. *)
LinkedJoin(t) ==
  /\ \/ ThreadJoin(t)
     \/ joinTarget[running] = t /\ (JoinLoop \/ MainJoin)
  /\ IF t \in finished THEN UNCHANGED readyLinks ELSE DispatchLinks(Ready)
  /\ UNCHANGED <<blockedLinks, sleepLinks>>

LinkedOpen(s) ==
  /\ \E init \in 0..MaxVal : SemOpen(s, init)
  /\ BlockedBecomes(s, [head |-> Null, tail |-> Null, next |-> nextBlocked])
  /\ UNCHANGED <<readyLinks, sleepLinks>>

(* Sem::wait *)
LinkedWait(s) ==
  /\ \/ SemWait(s)
     \/ s = itemAvailable /\ (KProducer \/ DrainAgain)
  /\ IF val[s] - 1 >= 0
     THEN UNCHANGED <<readyLinks, blockedLinks>>
     ELSE BlockedBecomes(s, put(Blocked(s), running)) /\ DispatchLinks(Ready)
  /\ UNCHANGED sleepLinks

(* Sem::signal *)
LinkedSignal(s) ==
  /\ SemSignal(s) \/ (s = itemAvailable /\ Putc)
  /\ IF val[s] + 1 > 0
     THEN UNCHANGED <<readyLinks, blockedLinks>>
     ELSE BlockedBecomes(s, get(Blocked(s))) /\ ReadyBecomes(put(Ready, Blocked(s).head))
  /\ UNCHANGED sleepLinks

(* SleepList::putSleeping.  The loop leaves cur at the k-th sleeper, found *)
(* by following nextSleep: the k-th of sleepQ as long as LinksMatch.       *)
InsertOneWay(k) ==
  LET t == running
      cur == IF k = 0 THEN Null ELSE sleepQ[k]
      behind == IF k = 0 THEN sleepQueueHead ELSE nextSleep[cur]
  IN  /\ sleepQueueHead' = IF k = 0 THEN t ELSE sleepQueueHead
      /\ nextSleep' = [u \in Thread |-> IF u = t THEN behind
                                        ELSE IF u = cur THEN t ELSE nextSleep[u]]
      /\ prevSleep' = [prevSleep EXCEPT ![t] = cur]
InsertLinks(k) ==
  LET t == running
      cur == IF k = 0 THEN Null ELSE sleepQ[k]
      behind == IF k = 0 THEN sleepQueueHead ELSE nextSleep[cur]
  IN  /\ sleepQueueHead' = IF k = 0 THEN t ELSE sleepQueueHead
      /\ nextSleep' = [u \in Thread |-> IF u = t THEN behind
                                        ELSE IF u = cur THEN t ELSE nextSleep[u]]
      /\ prevSleep' = [u \in Thread |-> IF u = t THEN cur
                                        ELSE IF u = behind THEN t ELSE prevSleep[u]]

LinkedSleep ==
  /\ \E time \in 1..MaxSleep : TimeSleep(time)
  /\ \E k \in 0..Len(sleepQ) :
       /\ sleepQ' = SubSeq(sleepQ, 1, k) \o <<running>> \o SubSeq(sleepQ, k + 1, Len(sleepQ))
       /\ InsertLinks(k)
  /\ DispatchLinks(Ready)
  /\ UNCHANGED blockedLinks

(* SleepList::wakeSleeping takes the first n sleepers off. *)
WakeLinks(n) ==
  LET woken == {sleepQ[i] : i \in 1..n}
      first == IF n = 0 THEN sleepQueueHead ELSE nextSleep[sleepQ[n]]
  IN  /\ sleepQueueHead' = first
      /\ nextSleep' = [u \in Thread |-> IF u \in woken THEN Null ELSE nextSleep[u]]
      /\ prevSleep' = [u \in Thread |-> IF u \in woken \cup {first} THEN Null ELSE prevSleep[u]]

(* hInterruptTimer *)
LinkedTimer ==
  /\ InterruptTimer
  /\ \E n \in 0..Len(sleepQ) :
       LET l == putEach(Ready, SubSeq(sleepQ, 1, n))
       IN  /\ sleepQ' = SubSeq(sleepQ, n + 1, Len(sleepQ))
           /\ WakeLinks(n)
           /\ IF SliceOver THEN DispatchLinks(l) ELSE ReadyBecomes(l)
  /\ UNCHANGED blockedLinks

(* What touches no list. *)
Unlinking ==
  /\ \/ \E t \in Thread : ThreadDeleteOnly(t)
     \/ \E s \in Sem : SemClose(s)
     \/ StartBody \/ ReturnFromEcall \/ ReturnFromTimer \/ LeaveDrain \/ RaiseTimer
  /\ UNCHANGED linkVars

LinkNext ==
  \/ \E t \in Thread, hasBody \in Bodies : LinkedCreate(t, hasBody)
  \/ \E t \in Thread : LinkedStart(t) \/ LinkedJoin(t)
  \/ \E s \in Sem : LinkedOpen(s) \/ LinkedWait(s) \/ LinkedSignal(s)
  \/ LinkedYield \/ LinkedSleep \/ LinkedTimer
  \/ Unlinking

LinkSpec == LinkInit /\ [][LinkNext]_<<vars, linkVars>>

-----------------------------------------------------------------------------
(* Properties *)

(* From head, following next, one passes through the threads of q and      *)
(* comes to nullptr behind the last of them, where tail is.                *)
IsList(l, q) ==
  /\ l.head = IF q = <<>> THEN Null ELSE q[1]
  /\ l.tail = IF q = <<>> THEN Null ELSE q[Len(q)]
  /\ \A i \in 1..Len(q) : l.next[q[i]] = IF i < Len(q) THEN q[i + 1] ELSE Null

(* The links of threads that are in no list are clear, so that put() may   *)
(* append them without looking.                                            *)
NotLinked(next_, S) == \A t \in S : next_[t] = Null

ReadyMatches ==
  /\ IsList(Ready, ready)
  /\ NotLinked(next, Thread \ Range(ready))

BlockedMatches ==
  /\ \A s \in Sem : IsList(Blocked(s), blockedQ[s])
  /\ NotLinked(nextBlocked, Thread \ UNION {Range(blockedQ[s]) : s \in Sem})

SleepMatches ==
  /\ sleepQueueHead = IF sleepQ = <<>> THEN Null ELSE sleepQ[1]
  /\ \A i \in 1..Len(sleepQ) :
       /\ nextSleep[sleepQ[i]] = IF i < Len(sleepQ) THEN sleepQ[i + 1] ELSE Null
       /\ prevSleep[sleepQ[i]] = IF i > 1 THEN sleepQ[i - 1] ELSE Null
  /\ NotLinked(nextSleep, Thread \ Range(sleepQ))
  /\ NotLinked(prevSleep, Thread \ Range(sleepQ))

(* The pointers are the queues of Kernel: no put(), get(), insertion or    *)
(* removal loses a thread, closes a cycle or leaves a stale link behind,   *)
(* whichever queues a TCB passes through, deletion and reuse included.     *)
LinksMatch == ReadyMatches /\ BlockedMatches /\ SleepMatches
=============================================================================
