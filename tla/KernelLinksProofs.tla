-------------------------- MODULE KernelLinksProofs -------------------------
(***************************************************************************)
(* The linked lists of KernelLinks represent the queues of Kernel, for any *)
(* number of threads and semaphores.  That no TCB is in two places, which  *)
(* the invariant of KernelProofs says, is what makes it true: put()        *)
(* overwrites the link of the last of a list and takes the link of the     *)
(* thread it appends to be clear.                                          *)
(***************************************************************************)
EXTENDS KernelLinks, KernelProofs

Link == [Thread -> Thread \cup {Null}]

(* l is the list q, and a thread that is not in q has no link. *)
Holds(l, q) ==
  /\ l.next \in Link
  /\ IsList(l, q)
  /\ \A t \in Thread \ Range(q) : l.next[t] = Null

-----------------------------------------------------------------------------
(* Lists *)

(* A queue by position: what its ends and its elements are. *)
LEMMA QueuePositions ==
  ASSUME NEW q \in Queue(Thread)
  PROVE  /\ Len(q) \in Nat /\ (q = <<>> <=> Len(q) = 0)
         /\ \A i \in 1..Len(q) : q[i] \in Thread /\ q[i] \in Range(q)
         /\ \A t \in Range(q) : t \in Thread /\ \E i \in 1..Len(q) : q[i] = t
         /\ \A i, j \in 1..Len(q) : q[i] = q[j] => i = j
         /\ q # <<>> => Head(q) = q[1]
<1>1. q \in Seq(Thread) /\ IsInjective(q)
  BY DEF Queue
<1>2. Range(q) \subseteq Thread
  BY <1>1 DEF Range
<1> QED BY <1>1, <1>2, QueueDef

(* IsList looks at the links of the list's own threads only. *)
LEMMA ListFrame ==
  ASSUME NEW q \in Queue(Thread), NEW l, NEW m, IsList(l, q),
         m.head = l.head, m.tail = l.tail,
         \A t \in Range(q) : m.next[t] = l.next[t]
  PROVE  IsList(m, q)
BY QueuePositions DEF IsList

(* put() appends, and changes the link of the last of the list only. *)
LEMMA PutList ==
  ASSUME NEW q \in Queue(Thread), NEW l, l.next \in Link, IsList(l, q),
         NEW t \in Thread, t \notin Range(q), l.next[t] = Null
  PROVE  /\ put(l, t).next \in Link
         /\ put(l, t).head \in Thread /\ put(l, t).tail \in Thread
         /\ IsList(put(l, t), Append(q, t))
         /\ \A u \in Thread \ Range(q) : put(l, t).next[u] = l.next[u]
<1> DEFINE p == put(l, t)
           a == Append(q, t)
<1>1. /\ Len(q) \in Nat /\ (q = <<>> <=> Len(q) = 0)
      /\ \A i \in 1..Len(q) : q[i] \in Thread /\ q[i] \in Range(q)
      /\ \A i, j \in 1..Len(q) : q[i] = q[j] => i = j
  BY QueuePositions
<1>2. /\ Len(a) = Len(q) + 1 /\ a # <<>> /\ a[Len(q) + 1] = t
      /\ \A i \in 1..Len(q) : a[i] = q[i]
  BY DEF Queue
<1> HIDE DEF a
<1>3. CASE q = <<>>
  <2>1. p = [head |-> t, tail |-> t, next |-> l.next]
    BY <1>3 DEF put, IsList
  <2>2. Len(a) = 1 /\ a[1] = t
    BY <1>1, <1>2, <1>3
  <2>3. p.next = l.next /\ p.head = t /\ p.tail = t
    BY <2>1
  <2> HIDE DEF p
  <2>4. \A i \in 1..Len(a) : p.next[a[i]] = Null /\ ~(i < Len(a))
    BY <2>2, <2>3
  <2>5. IsList(p, a)
    BY <1>2, <2>2, <2>3, <2>4 DEF IsList
  <2> QED BY <2>3, <2>5 DEF a, p
<1>4. CASE q # <<>>
  <2>1. l.tail = q[Len(q)] /\ l.head = q[1] /\ l.tail \in Range(q) /\ l.tail \in Thread
        /\ Len(q) \in 1..Len(q) /\ 1 \in 1..Len(q)
    BY <1>1, <1>4 DEF IsList
  <2>2. p = [head |-> l.head, tail |-> t, next |-> [l.next EXCEPT ![l.tail] = t]]
    BY <2>1, NullAssumption DEF put
  <2> HIDE DEF p
  <2>3. /\ p.next \in Link /\ p.next[l.tail] = t
        /\ \A u \in Thread \ {l.tail} : p.next[u] = l.next[u]
    BY <2>1, <2>2 DEF Link
  <2>4. p.head = a[1] /\ p.tail = a[Len(a)]
    BY <1>1, <1>2, <2>1, <2>2
  <2>5. ASSUME NEW i \in 1..Len(a)
        PROVE  p.next[a[i]] = IF i < Len(a) THEN a[i + 1] ELSE Null
    <3>1. CASE i = Len(q) + 1
      BY <1>2, <2>1, <2>3, <3>1
    <3>2. CASE i = Len(q)
      <4>1. a[i] = l.tail /\ a[i + 1] = t /\ i < Len(a)
        BY <1>1, <1>2, <2>1, <3>2
      <4> QED BY <2>3, <4>1
    <3>3. CASE i \in 1..Len(q) /\ i < Len(q)
      <4>1. a[i] = q[i] /\ a[i + 1] = q[i + 1] /\ q[i] # l.tail /\ q[i] \in Thread
        BY <1>1, <1>2, <2>1, <3>3
      <4>2. l.next[q[i]] = q[i + 1]
        BY <3>3 DEF IsList
      <4> QED BY <1>1, <1>2, <2>3, <3>3, <4>1, <4>2
    <3> QED BY <1>1, <1>2, <3>1, <3>2, <3>3
  <2>6. IsList(p, a)
    BY <1>2, <2>4, <2>5 DEF IsList
  <2>7. p.head \in Thread /\ p.tail \in Thread
    BY <1>1, <2>1, <2>2
  <2> QED BY <2>1, <2>3, <2>6, <2>7 DEF a, p
<1> QED BY <1>3, <1>4

(* get() takes the head off and clears its link. *)
LEMMA GetList ==
  ASSUME NEW q \in Queue(Thread), NEW l, l.next \in Link, IsList(l, q), q # <<>>
  PROVE  /\ l.head = Head(q)
         /\ get(l).next \in Link
         /\ get(l).head \in Thread \cup {Null} /\ get(l).tail \in Thread \cup {Null}
         /\ IsList(get(l), Tail(q))
         /\ get(l).next[Head(q)] = Null
         /\ \A u \in Thread \ {Head(q)} : get(l).next[u] = l.next[u]
<1> DEFINE g == get(l)
           r == Tail(q)
<1>1. /\ Len(q) \in Nat /\ Len(q) # 0
      /\ \A i \in 1..Len(q) : q[i] \in Thread /\ q[i] \in Range(q)
      /\ \A i, j \in 1..Len(q) : q[i] = q[j] => i = j
      /\ Head(q) = q[1]
  BY QueuePositions
<1>2. /\ Len(r) = Len(q) - 1 /\ \A i \in 1..Len(r) : r[i] = q[i + 1]
      /\ (r = <<>> <=> Len(q) = 1)
  <2>1. q \in Seq(Thread) /\ q # <<>>
    BY DEF Queue
  <2>2. r \in Seq(Thread) /\ Len(r) = Len(q) - 1 /\ \A i \in 1..Len(r) : r[i] = q[i + 1]
    BY <2>1
  <2> HIDE DEF r
  <2>3. r = <<>> <=> Len(r) = 0
    BY <2>2
  <2> QED BY <1>1, <2>2, <2>3
<1> HIDE DEF r
<1>3. /\ l.head = q[1] /\ l.tail = q[Len(q)] /\ l.head # Null /\ l.head \in Thread
      /\ l.next[l.head] = IF 1 < Len(q) THEN q[2] ELSE Null
  <2>1. l.head = q[1] /\ l.tail = q[Len(q)] /\ 1 \in 1..Len(q)
    BY <1>1 DEF IsList
  <2>2. l.next[q[1]] = IF 1 < Len(q) THEN q[1 + 1] ELSE Null
    BY <2>1 DEF IsList
  <2> QED BY <1>1, <2>1, <2>2, NullAssumption
<1>4. g = [head |-> l.next[l.head],
           tail |-> IF l.next[l.head] = Null THEN Null ELSE l.tail,
           next |-> [l.next EXCEPT ![l.head] = Null]]
  BY <1>3 DEF get
<1> HIDE DEF g
<1>5. /\ g.next \in Link /\ g.next[l.head] = Null
      /\ \A u \in Thread \ {l.head} : g.next[u] = l.next[u]
  BY <1>3, <1>4 DEF Link
<1>6. CASE Len(q) = 1
  <2>1. g.head = Null /\ g.tail = Null /\ r = <<>> /\ Len(r) = 0
    BY <1>2, <1>3, <1>4, <1>6
  <2>2. IsList(g, r)
    BY <2>1 DEF IsList
  <2> QED BY <1>1, <1>3, <1>5, <2>1, <2>2 DEF g, r
<1>7. CASE Len(q) > 1
  <2>1. /\ l.next[l.head] = q[2] /\ q[2] \in Thread /\ q[2] # Null
        /\ q[Len(q)] \in Thread
    BY <1>1, <1>3, <1>7, NullAssumption
  <2>2. g.head = r[1] /\ g.tail = r[Len(r)] /\ r # <<>> /\ g.head \in Thread /\ g.tail \in Thread
    <3>1. g.head = q[2] /\ g.tail = q[Len(q)]
      BY <1>3, <1>4, <2>1
    <3>2. r[1] = q[1 + 1] /\ r[Len(r)] = q[Len(r) + 1] /\ Len(r) + 1 = Len(q)
      BY <1>1, <1>2, <1>7
    <3> QED BY <1>2, <1>7, <2>1, <3>1, <3>2
  <2>3. ASSUME NEW i \in 1..Len(r)
        PROVE  g.next[r[i]] = IF i < Len(r) THEN r[i + 1] ELSE Null
    <3>1. i + 1 \in 1..Len(q) /\ i + 1 # 1 /\ 1 \in 1..Len(q)
      BY <1>1, <1>2
    <3>2. r[i] = q[i + 1] /\ q[i + 1] # l.head /\ q[i + 1] \in Thread
      BY <1>1, <1>2, <1>3, <3>1
    <3>3. l.next[q[i + 1]] = IF i + 1 < Len(q) THEN q[i + 1 + 1] ELSE Null
      BY <3>1 DEF IsList
    <3>4. i < Len(r) => r[i + 1] = q[i + 1 + 1]
      BY <1>1, <1>2
    <3>5. i < Len(r) <=> i + 1 < Len(q)
      BY <1>1, <1>2
    <3>6. g.next[r[i]] = l.next[q[i + 1]]
      BY <1>5, <3>2
    <3> QED BY <3>3, <3>4, <3>5, <3>6
  <2>4. IsList(g, r)
    BY <2>2, <2>3 DEF IsList
  <2> QED BY <1>1, <1>3, <1>5, <2>2, <2>4 DEF g, r
<1>8. Len(q) = 1 \/ Len(q) > 1
  <2>1. \A n \in Nat : n # 0 => n = 1 \/ n > 1
    OBVIOUS
  <2> QED BY <1>1, <2>1
<1> QED BY <1>6, <1>7, <1>8

(* Both for a list that is alone in using its links. *)
LEMMA PutHolds ==
  ASSUME NEW q \in Queue(Thread), NEW l, Holds(l, q), NEW t \in Thread, t \notin Range(q)
  PROVE  Holds(put(l, t), Append(q, t))
<1>1. Range(Append(q, t)) = Range(q) \cup {t}
  BY QueueAppend
<1> QED BY <1>1, PutList DEF Holds

(* get() of such a list. *)
LEMMA GetHolds ==
  ASSUME NEW q \in Queue(Thread), NEW l, Holds(l, q), q # <<>>
  PROVE  Holds(get(l), Tail(q)) /\ l.head = Head(q)
<1>1. Range(Tail(q)) = Range(q) \ {Head(q)}
  BY QueueTail
<1> QED BY <1>1, GetList DEF Holds

(* dispatch() puts and gets as Kernel's Dispatch does. *)
LEMMA DispatchHolds ==
  ASSUME NEW rq \in Queue(Thread), running \in Thread, running \notin Range(rq),
         NEW l, Holds(l, rq), Dispatch(rq)
  PROVE  Holds(Dispatched(l), ready')
<1> DEFINE q == Requeued(rq)
           m == IF Eligible(running) THEN put(l, running) ELSE l
<1>1. q \in Queue(Thread) /\ Holds(m, q)
  BY QueueAppend, PutHolds DEF Requeued
<1>2. Dispatched(l) = IF m.head = running THEN put(get(m), running) ELSE get(m)
  BY DEF Dispatched
<1>3. \/ q = <<>> /\ ready' = q
      \/ q # <<>> /\ Head(q) = running /\ ready' = Append(Tail(q), running)
      \/ q # <<>> /\ Head(q) # running /\ ready' = Tail(q)
  BY DEF Dispatch
<1> HIDE DEF q, m
<1>4. CASE q = <<>> /\ ready' = q
  <2>1. m.head = Null
    BY <1>1, <1>4 DEF Holds, IsList
  <2>2. Dispatched(l) = m
    BY <1>2, <2>1, NullAssumption DEF get
  <2> QED BY <1>1, <1>4, <2>2
<1>5. CASE q # <<>> /\ Head(q) = running /\ ready' = Append(Tail(q), running)
  <2>1. Holds(get(m), Tail(q)) /\ m.head = running
    BY <1>1, <1>5, GetHolds
  <2>2. Tail(q) \in Queue(Thread) /\ running \notin Range(Tail(q))
    BY <1>1, <1>5, QueueTail
  <2> QED BY <1>2, <1>5, <2>1, <2>2, PutHolds
<1>6. CASE q # <<>> /\ Head(q) # running /\ ready' = Tail(q)
  BY <1>1, <1>2, <1>6, GetHolds
<1> QED BY <1>3, <1>4, <1>5, <1>6

(* put() of the threads of w in turn appends w. *)
LEMMA PutEachHolds ==
  ASSUME NEW q \in Queue(Thread), NEW w \in Queue(Thread),
         Range(q) \cap Range(w) = {}, NEW l, Holds(l, q)
  PROVE  Holds(putEach(l, w), q \o w)
<1>1. CASE w = <<>>
  <2>1. q \o w = q
    BY <1>1 DEF Queue
  <2> QED BY <1>1, <2>1 DEF putEach
<1>2. CASE w # <<>>
  <2> DEFINE c == q \o w
             p == putEach(l, w)
  <2>1. /\ Len(q) \in Nat /\ (q = <<>> <=> Len(q) = 0)
        /\ \A i \in 1..Len(q) : q[i] \in Thread /\ q[i] \in Range(q)
        /\ \A i, j \in 1..Len(q) : q[i] = q[j] => i = j
    BY QueuePositions
  <2>2. /\ Len(w) \in Nat /\ Len(w) # 0
        /\ \A i \in 1..Len(w) : w[i] \in Thread /\ w[i] \in Range(w)
        /\ \A i, j \in 1..Len(w) : w[i] = w[j] => i = j
    BY <1>2, QueuePositions
  <2>3. /\ c \in Queue(Thread) /\ Range(c) = Range(q) \cup Range(w)
    BY QueueConcat
  <2>4. /\ Len(c) = Len(q) + Len(w)
        /\ \A i \in 1..Len(c) : c[i] = IF i <= Len(q) THEN q[i] ELSE w[i - Len(q)]
    BY DEF Queue
  <2> HIDE DEF c
  <2>5. /\ l.head = IF q = <<>> THEN Null ELSE q[1]
        /\ l.tail = IF q = <<>> THEN Null ELSE q[Len(q)]
        /\ \A i \in 1..Len(q) : l.next[q[i]] = IF i < Len(q) THEN q[i + 1] ELSE Null
        /\ \A t \in Thread \ Range(q) : l.next[t] = Null
        /\ l.next \in Link
    BY DEF Holds, IsList
  <2>6. l.tail \in Range(q) \cup {Null} /\ (q = <<>> <=> l.tail = Null)
    BY <2>1, <2>5, NullAssumption
  <2>7. /\ p.head = IF l.tail # Null THEN l.head ELSE w[1]
        /\ p.tail = w[Len(w)]
        /\ p.next = [t \in Thread |->
             IF t = l.tail THEN w[1]
             ELSE IF \E i \in 1..(Len(w) - 1) : w[i] = t
             THEN w[1 + CHOOSE i \in 1..(Len(w) - 1) : w[i] = t]
             ELSE l.next[t]]
    BY <1>2 DEF putEach
  <2> HIDE DEF p
  <2>8. ASSUME NEW j \in 1..(Len(w) - 1)
        PROVE  p.next[w[j]] = w[j + 1] /\ w[j] \in Thread
    <3>1. w[j] \in Thread /\ w[j] \in Range(w) /\ w[j] # l.tail
      <4>1. j \in 1..Len(w)
        BY <2>2
      <4>2. w[j] \in Thread /\ w[j] \in Range(w)
        BY <2>2, <4>1
      <4> QED BY <2>6, <4>2, NullAssumption
    <3>2. \A i \in 1..(Len(w) - 1) : w[i] = w[j] => i = j
      BY <2>2
    <3>3. (CHOOSE i \in 1..(Len(w) - 1) : w[i] = w[j]) = j
      BY <3>2
    <3>4. p.next[w[j]] = w[1 + CHOOSE i \in 1..(Len(w) - 1) : w[i] = w[j]]
      BY <2>7, <3>1
    <3>5. 1 + j = j + 1
      BY <2>2
    <3> QED BY <3>1, <3>3, <3>4, <3>5
  <2>9. ASSUME NEW t \in Thread, t # l.tail, ~ \E i \in 1..(Len(w) - 1) : w[i] = t
        PROVE  p.next[t] = l.next[t]
    BY <2>7, <2>9
  <2>10. p.next \in Link
    <3>1. w[1] \in Thread
      BY <2>2
    <3>2. ASSUME NEW t \in Thread PROVE p.next[t] \in Thread \cup {Null}
      <4>1. CASE t = l.tail
        BY <2>7, <3>1, <4>1
      <4>2. CASE t # l.tail /\ \E i \in 1..(Len(w) - 1) : w[i] = t
        <5>1. PICK i \in 1..(Len(w) - 1) : w[i] = t
          BY <4>2
        <5>2. i + 1 \in 1..Len(w)
          BY <2>2
        <5> QED BY <2>2, <2>8, <5>1, <5>2
      <4>3. CASE t # l.tail /\ ~ \E i \in 1..(Len(w) - 1) : w[i] = t
        BY <2>5, <2>9, <4>3 DEF Link
      <4> QED BY <4>1, <4>2, <4>3
    <3> QED BY <2>7, <3>2 DEF Link
  <2>11. ASSUME NEW i \in 1..Len(c)
         PROVE  p.next[c[i]] = IF i < Len(c) THEN c[i + 1] ELSE Null
    <3>1. CASE i < Len(q)
      <4>1. i \in 1..Len(q) /\ i + 1 \in 1..Len(q) /\ Len(q) \in 1..Len(q)
            /\ i < Len(c) /\ i + 1 \in 1..Len(c)
        BY <2>1, <2>2, <2>4, <3>1
      <4>2. c[i] = q[i] /\ c[i + 1] = q[i + 1] /\ q[i] \in Thread /\ q[i] \in Range(q)
        BY <2>1, <2>4, <4>1
      <4>3. q[i] # l.tail
        BY <2>1, <2>5, <3>1, <4>1
      <4>4. ~ \E j \in 1..(Len(w) - 1) : w[j] = q[i]
        <5>1. \A j \in 1..(Len(w) - 1) : j \in 1..Len(w)
          BY <2>2
        <5> QED BY <2>2, <4>2, <5>1
      <4>5. p.next[q[i]] = l.next[q[i]]
        BY <2>9, <4>2, <4>3, <4>4
      <4> QED BY <2>5, <3>1, <4>1, <4>2, <4>5
    <3>2. CASE i = Len(q)
      <4>1. i \in 1..Len(q) /\ i < Len(c) /\ i + 1 \in 1..Len(c) /\ i + 1 - Len(q) = 1
            /\ ~(i + 1 <= Len(q))
        BY <2>1, <2>2, <2>4, <3>2
      <4>2. c[i] = q[i] /\ c[i + 1] = w[1]
        BY <2>4, <3>2, <4>1
      <4>3. q[i] = l.tail /\ q[i] \in Thread
        BY <2>1, <2>5, <3>2, <4>1
      <4> QED BY <2>7, <4>1, <4>2, <4>3
    <3>3. CASE i > Len(q)
      <4> DEFINE j == i - Len(q)
      <4>1. j \in 1..Len(w) /\ ~(i <= Len(q)) /\ (i < Len(c) <=> j < Len(w))
        BY <2>1, <2>2, <2>4, <3>3
      <4>2. c[i] = w[j]
        BY <2>4, <4>1
      <4>3. CASE i < Len(c)
        <5>1. j \in 1..(Len(w) - 1) /\ i + 1 \in 1..Len(c) /\ ~(i + 1 <= Len(q))
              /\ i + 1 - Len(q) = j + 1
          BY <2>1, <2>2, <2>4, <3>3, <4>1, <4>3
        <5>2. c[i + 1] = w[j + 1]
          BY <2>4, <5>1
        <5> HIDE DEF j
        <5> QED BY <2>8, <4>2, <4>3, <5>1, <5>2
      <4>4. CASE i = Len(c)
        <5>1. j = Len(w)
          BY <2>1, <2>2, <2>4, <4>4
        <5> HIDE DEF j
        <5>2. w[j] \in Thread /\ w[j] \in Range(w) /\ w[j] # l.tail /\ w[j] \notin Range(q)
          <6>1. w[j] \in Thread /\ w[j] \in Range(w)
            BY <2>2, <4>1
          <6> QED BY <2>6, <6>1, NullAssumption
        <5>3. ~ \E m \in 1..(Len(w) - 1) : w[m] = w[j]
          BY <2>2, <5>1
        <5>4. p.next[w[j]] = Null
          BY <2>5, <2>9, <5>2, <5>3
        <5> QED BY <4>2, <4>4, <5>4
      <4> QED BY <4>3, <4>4
    <3> QED BY <2>1, <2>4, <3>1, <3>2, <3>3
  <2>12. IsList(p, c)
    <3>1. 1 \in 1..Len(c) /\ Len(c) \in 1..Len(c) /\ Len(c) \in Nat /\ Len(c) # 0
      BY <2>1, <2>2, <2>4
    <3>2. c # <<>>
      BY <2>3, <3>1, QueuePositions
    <3>3. p.tail = c[Len(c)]
      <4>1. ~(Len(c) <= Len(q)) /\ Len(c) - Len(q) = Len(w)
        BY <2>1, <2>2, <2>4
      <4> QED BY <2>4, <2>7, <3>1, <4>1
    <3>4. p.head = c[1]
      <4>1. CASE q = <<>>
        <5>1. Len(q) = 0 /\ ~(1 <= Len(q)) /\ 1 - Len(q) = 1
          BY <2>1, <4>1
        <5> QED BY <2>4, <2>6, <2>7, <3>1, <4>1, <5>1
      <4>2. CASE q # <<>>
        <5>1. 1 <= Len(q)
          BY <2>1, <4>2
        <5> QED BY <2>4, <2>5, <2>6, <2>7, <3>1, <4>2, <5>1
      <4> QED BY <4>1, <4>2
    <3> QED BY <2>11, <3>2, <3>3, <3>4 DEF IsList
  <2>13. ASSUME NEW t \in Thread \ Range(c)
         PROVE  p.next[t] = Null
    <3>1. t \notin Range(q) /\ t \notin Range(w) /\ t \in Thread /\ t # l.tail
      BY <2>3, <2>6, NullAssumption
    <3>2. ~ \E i \in 1..(Len(w) - 1) : w[i] = t
      <4>1. \A i \in 1..(Len(w) - 1) : i \in 1..Len(w)
        BY <2>2
      <4> QED BY <2>2, <3>1, <4>1
    <3> QED BY <2>5, <2>9, <3>1, <3>2
  <2> QED BY <2>10, <2>12, <2>13 DEF Holds, c, p
<1> QED BY <1>1, <1>2

-----------------------------------------------------------------------------
(* The invariant: LinksMatch, and the links lead to threads or nowhere. *)
ReadyInv == Holds(Ready, ready)

BlockedInv ==
  /\ nextBlocked \in Link
  /\ blockedQueueHead \in [Sem -> Thread \cup {Null}]
  /\ blockedQueueTail \in [Sem -> Thread \cup {Null}]
  /\ BlockedMatches

SleepLinksInv ==
  /\ nextSleep \in Link /\ prevSleep \in Link
  /\ SleepMatches

LinkInv == ReadyInv /\ BlockedInv /\ SleepLinksInv

(* At main's first join the ready queue holds three, the others nobody. *)
LEMMA LinkInitInv == LinkInit => LinkInv
<1> SUFFICES ASSUME LinkInit PROVE LinkInv
  OBVIOUS
<1> USE BootThreads DEF LinkInit, Init
<1>1. ReadyInv
  <2>1. /\ ready = <<userMain, idle, kProd>> /\ ready # <<>> /\ Len(ready) = 3
        /\ ready[1] = userMain /\ ready[2] = idle /\ ready[3] = kProd
        /\ DOMAIN ready = 1..3
    OBVIOUS
  <2>2. /\ Ready.head = userMain /\ Ready.tail = kProd /\ Ready.next = next
    BY DEF Ready
  <2>3. /\ next \in Link
        /\ next[userMain] = idle /\ next[idle] = kProd /\ next[kProd] = Null
        /\ \A t \in Thread \ {userMain, idle} : next[t] = Null
    BY DEF Link
  <2>4. \A i \in 1..3 : i = 1 \/ i = 2 \/ i = 3
    OBVIOUS
  <2>5. Range(ready) = {userMain, idle, kProd}
    BY <2>1 DEF Range
  <2>6. \A i \in 1..Len(ready) : Ready.next[ready[i]] = IF i < Len(ready) THEN ready[i + 1] ELSE Null
    BY <2>1, <2>2, <2>3, <2>4
  <2>7. IsList(Ready, ready)
    BY <2>1, <2>2, <2>6 DEF IsList
  <2> QED BY <2>2, <2>3, <2>5, <2>7 DEF ReadyInv, Holds
<1>2. BlockedInv
  <2>1. nextBlocked \in Link /\ \A t \in Thread : nextBlocked[t] = Null
    BY DEF Link
  <2>2. \A s \in Sem : IsList(Blocked(s), blockedQ[s])
    <3> SUFFICES ASSUME NEW s \in Sem PROVE IsList(Blocked(s), blockedQ[s])
      OBVIOUS
    <3>1. blockedQ[s] = <<>> /\ Len(blockedQ[s]) = 0
      OBVIOUS
    <3>2. Blocked(s).head = Null /\ Blocked(s).tail = Null
      BY DEF Blocked
    <3> QED BY <3>1, <3>2 DEF IsList
  <2> QED BY <2>1, <2>2 DEF BlockedInv, BlockedMatches, NotLinked
<1>3. SleepLinksInv
  <2>1. nextSleep \in Link /\ prevSleep \in Link
    BY DEF Link
  <2>2. sleepQ = <<>> /\ Len(sleepQ) = 0 /\ sleepQueueHead = Null
    OBVIOUS
  <2> QED BY <2>1, <2>2 DEF SleepLinksInv, SleepMatches, NotLinked
<1> QED BY <1>1, <1>2, <1>3 DEF LinkInv

-----------------------------------------------------------------------------
(* Each list by itself. *)
LEMMA ReadyFrame ==
  ReadyInv /\ UNCHANGED <<readyLinks, ready>> => ReadyInv'
BY DEF ReadyInv, Holds, IsList, Ready, readyLinks, Link

(* The semaphores' queues, left alone. *)
LEMMA BlockedFrame ==
  BlockedInv /\ UNCHANGED <<blockedLinks, blockedQ>> => BlockedInv'
BY DEF BlockedInv, BlockedMatches, IsList, NotLinked, Blocked, blockedLinks, Link

(* The sleep list, left alone. *)
LEMMA SleepLinksFrame ==
  SleepLinksInv /\ UNCHANGED <<sleepLinks, sleepQ>> => SleepLinksInv'
BY DEF SleepLinksInv, SleepMatches, NotLinked, sleepLinks, Link

(* The ready queue becomes a list that holds what it shall hold. *)
LEMMA ReadyStep ==
  ASSUME NEW l, ReadyBecomes(l), Holds(l, ready')
  PROVE  ReadyInv'
<1>1. Ready'.head = l.head /\ Ready'.tail = l.tail /\ Ready'.next = l.next
  BY DEF ReadyBecomes, Ready
<1>2. IsList(Ready', ready') /\ Ready'.next \in Link
      /\ \A t \in Thread \ Range(ready') : Ready'.next[t] = Null
  BY <1>1 DEF Holds, IsList
<1> QED BY <1>2 DEF ReadyInv, Holds

(* Dispatching from the ready queue, and from one just filled. *)
LEMMA ReadyDispatch ==
  ASSUME NEW rq \in Queue(Thread), running \in Thread, running \notin Range(rq),
         NEW l, Holds(l, rq), Dispatch(rq), DispatchLinks(l)
  PROVE  ReadyInv'
<1>1. Holds(Dispatched(l), ready')
  BY DispatchHolds
<1> QED BY <1>1, ReadyStep DEF DispatchLinks

(* One semaphore's queue changes from q to r, the others are other         *)
(* threads' links: they stay what they are.                                *)
LEMMA BlockedStep ==
  ASSUME WaitInv, BlockedInv, NEW s \in Sem, NEW m, BlockedBecomes(s, m),
         NEW r \in Queue(Thread), blockedQ' = [blockedQ EXCEPT ![s] = r],
         m.next \in Link,
         m.head \in Thread \cup {Null}, m.tail \in Thread \cup {Null},
         IsList(m, r),
         \A u \in Sem : u # s => Range(blockedQ[u]) \cap Range(r) = {},
         \A t \in Thread \ (Range(blockedQ[s]) \cup Range(r)) : m.next[t] = nextBlocked[t],
         \A t \in Range(blockedQ[s]) \ Range(r) : m.next[t] = Null
  PROVE  BlockedInv'
<1>1. /\ blockedQ \in [Sem -> Queue(Thread)]
      /\ \A p, u \in Sem : p # u => Range(blockedQ[p]) \cap Range(blockedQ[u]) = {}
  BY DEF WaitInv
<1>2. /\ blockedQ'[s] = r /\ \A u \in Sem : u # s => blockedQ'[u] = blockedQ[u]
  BY <1>1
<1>3. /\ nextBlocked' = m.next
      /\ blockedQueueHead' \in [Sem -> Thread \cup {Null}]
      /\ blockedQueueTail' \in [Sem -> Thread \cup {Null}]
      /\ blockedQueueHead'[s] = m.head /\ blockedQueueTail'[s] = m.tail
      /\ \A u \in Sem : u # s => /\ blockedQueueHead'[u] = blockedQueueHead[u]
                                 /\ blockedQueueTail'[u] = blockedQueueTail[u]
  BY DEF BlockedBecomes, BlockedInv
<1>4. ASSUME NEW u \in Sem PROVE IsList(Blocked(u)', blockedQ'[u])
  <2>1. /\ Blocked(u)'.head = blockedQueueHead'[u] /\ Blocked(u)'.tail = blockedQueueTail'[u]
        /\ Blocked(u)'.next = nextBlocked'
    BY DEF Blocked
  <2>2. CASE u = s
    BY <1>2, <1>3, <2>1, <2>2 DEF IsList
  <2>3. CASE u # s
    <3>1. IsList(Blocked(u), blockedQ[u]) /\ blockedQ[u] \in Queue(Thread)
      BY <1>1 DEF BlockedInv, BlockedMatches
    <3>2. Blocked(u).head = blockedQueueHead[u] /\ Blocked(u).tail = blockedQueueTail[u]
          /\ Blocked(u).next = nextBlocked
      BY DEF Blocked
    <3>3. \A t \in Range(blockedQ[u]) : t \in Thread /\ m.next[t] = nextBlocked[t]
      <4>1. Range(blockedQ[u]) \subseteq Thread
        BY <3>1, QueuePositions
      <4> QED BY <1>1, <2>3, <4>1
    <3> HIDE DEF Blocked
    <3>4. IsList(Blocked(u)', blockedQ[u])
      BY <1>3, <2>1, <2>3, <3>1, <3>2, <3>3, ListFrame
    <3> QED BY <1>2, <2>3, <3>4
  <2> QED BY <2>2, <2>3
<1>5. ASSUME NEW t \in Thread, \A u \in Sem : t \notin Range(blockedQ'[u])
      PROVE  nextBlocked'[t] = Null
  <2>1. t \notin Range(r) /\ \A u \in Sem : u # s => t \notin Range(blockedQ[u])
    BY <1>2, <1>5
  <2>2. CASE t \in Range(blockedQ[s])
    BY <1>3, <2>1, <2>2
  <2>3. CASE t \notin Range(blockedQ[s])
    <3>1. nextBlocked[t] = Null
      BY <2>1, <2>3 DEF BlockedInv, BlockedMatches, NotLinked
    <3> QED BY <1>3, <2>1, <2>3, <3>1
  <2> QED BY <2>2, <2>3
<1>6. BlockedMatches'
  <2>1. \A u \in Sem : IsList(Blocked(u), blockedQ[u])'
    BY <1>4 DEF IsList
  <2> QED BY <1>5, <2>1 DEF BlockedMatches, NotLinked
<1> QED BY <1>3, <1>6 DEF BlockedInv

(* The positions of one sequence behind another. *)
LEMMA ConcatPositions ==
  ASSUME NEW a \in Seq(Thread), NEW b \in Seq(Thread)
  PROVE  /\ a \o b \in Seq(Thread) /\ Len(a \o b) = Len(a) + Len(b)
         /\ \A i \in 1..(Len(a) + Len(b)) :
              (a \o b)[i] = IF i <= Len(a) THEN a[i] ELSE b[i - Len(a)]
OBVIOUS

(* The positions of a queue with e put behind its k-th element. *)
LEMMA InsertPositions ==
  ASSUME NEW q \in Queue(Thread), NEW e \in Thread, NEW k \in 0..Len(q)
  PROVE  /\ Len(Inserted(q, k, e)) = Len(q) + 1
         /\ \A i \in 1..(Len(q) + 1) :
              Inserted(q, k, e)[i] = IF i <= k THEN q[i]
                                     ELSE IF i = k + 1 THEN e ELSE q[i - 1]
<1> DEFINE f == SubSeq(q, 1, k)
           b == SubSeq(q, k + 1, Len(q))
           o == <<e>>
<1>1. q \in Seq(Thread) /\ Len(q) \in Nat /\ k \in Nat /\ k <= Len(q)
  BY DEF Queue
<1>2. f \in Seq(Thread) /\ Len(f) = k /\ \A i \in 1..k : f[i] = q[i]
  BY <1>1
<1>3. /\ b \in Seq(Thread) /\ Len(b) = Len(q) - k
      /\ \A i \in 1..(Len(q) - k) : b[i] = q[k + i]
  BY <1>1
<1>4. o \in Seq(Thread) /\ Len(o) = 1 /\ o[1] = e
  OBVIOUS
<1> HIDE DEF f, b, o
<1> DEFINE g == f \o o
<1>5. /\ g \in Seq(Thread) /\ Len(g) = k + 1
      /\ \A i \in 1..(k + 1) : g[i] = IF i <= k THEN f[i] ELSE o[i - k]
  <2>1. /\ g \in Seq(Thread) /\ Len(g) = Len(f) + Len(o)
        /\ \A i \in 1..(Len(f) + Len(o)) : g[i] = IF i <= Len(f) THEN f[i] ELSE o[i - Len(f)]
    BY <1>2, <1>4, ConcatPositions
  <2>2. Len(f) = k /\ Len(o) = 1
    BY <1>2, <1>4
  <2> HIDE DEF g
  <2> QED BY <2>1, <2>2
<1>6. /\ g \in Seq(Thread) /\ Len(g) = k + 1
      /\ \A i \in 1..(k + 1) : g[i] = IF i <= k THEN q[i] ELSE e
  <2> HIDE DEF g
  <2>1. ASSUME NEW i \in 1..(k + 1) PROVE g[i] = IF i <= k THEN q[i] ELSE e
    <3>1. CASE i <= k
      <4>1. i \in 1..k BY <1>1, <3>1
      <4> QED BY <1>2, <1>5, <3>1, <4>1
    <3>2. CASE i = k + 1
      <4>1. i - k = 1 /\ ~(i <= k) BY <1>1, <3>2
      <4> QED BY <1>4, <1>5, <4>1
    <3> QED BY <1>1, <3>1, <3>2
  <2> QED BY <1>5, <2>1
<1>7. Inserted(q, k, e) = g \o b
  BY DEF Inserted, f, b, o
<1> HIDE DEF g
<1>8. /\ Len(g \o b) = Len(q) + 1
      /\ \A i \in 1..(Len(q) + 1) : (g \o b)[i] = IF i <= k + 1 THEN g[i] ELSE b[i - (k + 1)]
  <2>1. Len(g) + Len(b) = Len(q) + 1 /\ Len(g) = k + 1
    BY <1>1, <1>3, <1>6
  <2>2. /\ Len(g \o b) = Len(g) + Len(b)
        /\ \A i \in 1..(Len(g) + Len(b)) :
             (g \o b)[i] = IF i <= Len(g) THEN g[i] ELSE b[i - Len(g)]
    BY <1>3, <1>6, ConcatPositions
  <2> QED BY <2>1, <2>2
<1>9. ASSUME NEW i \in 1..(Len(q) + 1)
      PROVE  (g \o b)[i] = IF i <= k THEN q[i] ELSE IF i = k + 1 THEN e ELSE q[i - 1]
  <2>1. CASE i <= k + 1
    BY <1>1, <1>6, <1>8, <2>1
  <2>2. CASE ~(i <= k + 1)
    <3>1. i - (k + 1) \in 1..(Len(q) - k) /\ k + (i - (k + 1)) = i - 1
          /\ ~(i <= k) /\ i # k + 1
      BY <1>1, <2>2
    <3> QED BY <1>3, <1>8, <2>2, <3>1
  <2> QED BY <2>1, <2>2
<1> QED BY <1>7, <1>8, <1>9

(* putSleeping links the running thread in behind the k-th sleeper. *)
LEMMA InsertStep ==
  ASSUME SleepInv, SleepLinksInv, running \in Thread, running \notin Range(sleepQ),
         NEW k \in 0..Len(sleepQ), sleepQ' = Inserted(sleepQ, k, running), InsertLinks(k)
  PROVE  SleepLinksInv'
<1>1. PICK t, q, r : t = running /\ q = sleepQ /\ r = sleepQ'
  OBVIOUS
<1>2. /\ q \in Queue(Thread) /\ t \in Thread /\ t \notin Range(q) /\ k \in 0..Len(q)
      /\ r = Inserted(q, k, t)
  BY <1>1 DEF SleepInv
<1>3. /\ Len(q) \in Nat /\ (q = <<>> <=> Len(q) = 0)
      /\ \A i \in 1..Len(q) : q[i] \in Thread /\ q[i] \in Range(q) /\ q[i] # t /\ q[i] # Null
      /\ \A i, j \in 1..Len(q) : q[i] = q[j] => i = j
  BY <1>2, QueuePositions, NullAssumption
<1>4. /\ Len(r) = Len(q) + 1
      /\ \A i \in 1..(Len(q) + 1) : r[i] = IF i <= k THEN q[i] ELSE IF i = k + 1 THEN t ELSE q[i - 1]
  BY <1>2, InsertPositions
<1>5. r \in Queue(Thread) /\ Range(r) = Range(q) \cup {t} /\ r # <<>>
  BY <1>2, QueueInsert
<1>6. /\ sleepQueueHead = IF q = <<>> THEN Null ELSE q[1]
      /\ \A i \in 1..Len(q) :
           /\ nextSleep[q[i]] = IF i < Len(q) THEN q[i + 1] ELSE Null
           /\ prevSleep[q[i]] = IF i > 1 THEN q[i - 1] ELSE Null
      /\ \A u \in Thread \ Range(q) : nextSleep[u] = Null /\ prevSleep[u] = Null
      /\ nextSleep \in Link /\ prevSleep \in Link
  BY <1>1 DEF SleepLinksInv, SleepMatches, NotLinked
<1>7. PICK cur, behind :
        /\ cur = IF k = 0 THEN Null ELSE q[k]
        /\ behind = IF k < Len(q) THEN q[k + 1] ELSE Null
  OBVIOUS
<1>8. /\ sleepQueueHead' = IF k = 0 THEN t ELSE sleepQueueHead
      /\ nextSleep' = [u \in Thread |-> IF u = t THEN behind
                                        ELSE IF u = cur THEN t ELSE nextSleep[u]]
      /\ prevSleep' = [u \in Thread |-> IF u = t THEN cur
                                        ELSE IF u = behind THEN t ELSE prevSleep[u]]
  <2>1. behind = IF k = 0 THEN sleepQueueHead ELSE nextSleep[cur]
    <3>1. CASE k = 0
      BY <1>2, <1>3, <1>6, <1>7, <3>1
    <3>2. CASE k # 0
      <4>1. k \in 1..Len(q)
        BY <1>2, <1>3, <3>2
      <4> QED BY <1>6, <1>7, <3>2, <4>1
    <3> QED BY <3>1, <3>2
  <2> QED BY <1>1, <1>7, <2>1 DEF InsertLinks
<1>9. cur \in Thread \cup {Null} /\ behind \in Thread \cup {Null} /\ cur # t /\ behind # t
  <2>1. k # 0 => k \in 1..Len(q)
    BY <1>2, <1>3
  <2>2. k < Len(q) => k + 1 \in 1..Len(q)
    BY <1>2, <1>3
  <2> QED BY <1>2, <1>3, <1>7, <2>1, <2>2, NullAssumption
<1>10. nextSleep' \in Link /\ prevSleep' \in Link
  BY <1>2, <1>6, <1>8, <1>9 DEF Link
<1>11. sleepQueueHead' = r[1]
  BY <1>2, <1>3, <1>4, <1>6, <1>8
<1>12. ASSUME NEW i \in 1..Len(r)
       PROVE  /\ nextSleep'[r[i]] = IF i < Len(r) THEN r[i + 1] ELSE Null
              /\ prevSleep'[r[i]] = IF i > 1 THEN r[i - 1] ELSE Null
  <2>1. CASE i = k + 1
    <3>1. r[i] = t /\ nextSleep'[t] = behind /\ prevSleep'[t] = cur
      BY <1>2, <1>3, <1>4, <1>8, <2>1
    <3>2. i < Len(r) => k < Len(q) /\ r[i + 1] = q[k + 1]
      BY <1>2, <1>3, <1>4, <2>1
    <3>3. i > 1 => k # 0 /\ r[i - 1] = q[k]
      BY <1>2, <1>3, <1>4, <2>1
    <3>4. i = Len(r) => ~(k < Len(q))
      BY <1>2, <1>3, <1>4, <2>1
    <3>5. (i < Len(r) \/ i = Len(r)) /\ (i > 1 \/ (k = 0 /\ ~(i > 1)))
      BY <1>2, <1>3, <1>4, <2>1
    <3> QED BY <1>7, <3>1, <3>2, <3>3, <3>4, <3>5
  <2>2. CASE i <= k
    <3>1. i \in 1..Len(q) /\ r[i] = q[i] /\ i < Len(r)
      BY <1>2, <1>3, <1>4, <2>2
    <3>2. q[i] \in Thread /\ q[i] # t
      BY <1>3, <3>1
    <3>3. q[i] # behind
      <4>1. k < Len(q) => k + 1 \in 1..Len(q) /\ i # k + 1
        BY <1>2, <1>3, <2>2
      <4> QED BY <1>3, <1>7, <3>1, <4>1
    <3>4. prevSleep'[q[i]] = IF i > 1 THEN q[i - 1] ELSE Null
      BY <1>6, <1>8, <3>1, <3>2, <3>3
    <3>5. i > 1 => r[i - 1] = q[i - 1]
      BY <1>2, <1>3, <1>4, <2>2
    <3>6. CASE i = k
      <4>1. cur = q[i] /\ r[i + 1] = t
        BY <1>2, <1>3, <1>4, <1>7, <3>6
      <4> QED BY <1>8, <3>1, <3>2, <3>4, <3>5, <4>1
    <3>7. CASE i < k
      <4>1. q[i] # cur
        <5>1. k # 0 /\ k \in 1..Len(q) /\ i # k
          BY <1>2, <1>3, <3>1, <3>7
        <5> QED BY <1>3, <1>7, <3>1, <5>1
      <4>2. nextSleep'[q[i]] = q[i + 1]
        <5>1. i < Len(q)
          BY <1>2, <1>3, <3>7
        <5> QED BY <1>6, <1>8, <3>1, <3>2, <4>1, <5>1
      <4>3. r[i + 1] = q[i + 1]
        BY <1>2, <1>3, <1>4, <3>7
      <4> QED BY <3>1, <3>4, <3>5, <4>2, <4>3
    <3> QED BY <1>2, <1>3, <2>2, <3>6, <3>7
  <2>3. CASE i > k + 1
    <3>1. /\ i - 1 \in 1..Len(q) /\ r[i] = q[i - 1] /\ i > 1 /\ i - 1 > k /\ i - 1 + 1 = i
          /\ (i < Len(r) <=> i - 1 < Len(q))
      BY <1>2, <1>3, <1>4, <2>3
    <3>2. q[i - 1] \in Thread /\ q[i - 1] # t
      BY <1>3, <3>1
    <3>3. q[i - 1] # cur
      <4>1. k # 0 => k \in 1..Len(q) /\ i - 1 # k
        BY <1>2, <1>3, <3>1
      <4> QED BY <1>3, <1>7, <3>1, <4>1
    <3>4. nextSleep'[q[i - 1]] = IF i < Len(r) THEN q[i] ELSE Null
      BY <1>6, <1>8, <3>1, <3>2, <3>3
    <3>5. i < Len(r) => r[i + 1] = q[i]
      BY <1>2, <1>3, <1>4, <2>3
    <3>6. CASE i - 1 = k + 1
      <4>1. k < Len(q) /\ behind = q[i - 1] /\ r[i - 1] = t
        BY <1>2, <1>3, <1>4, <1>7, <3>1, <3>6
      <4> QED BY <1>8, <3>1, <3>2, <3>4, <3>5, <4>1
    <3>7. CASE i - 1 > k + 1
      <4>1. q[i - 1] # behind
        <5>1. k < Len(q) /\ k + 1 \in 1..Len(q) /\ i - 1 # k + 1
          BY <1>2, <1>3, <3>1, <3>7
        <5> QED BY <1>3, <1>7, <3>1, <5>1
      <4>2. prevSleep'[q[i - 1]] = q[i - 1 - 1]
        <5>1. i - 1 > 1
          BY <1>2, <1>3, <3>7
        <5> QED BY <1>6, <1>8, <3>1, <3>2, <4>1, <5>1
      <4>3. r[i - 1] = q[i - 1 - 1]
        BY <1>2, <1>3, <1>4, <3>1, <3>7
      <4> QED BY <3>1, <3>4, <3>5, <4>2, <4>3
    <3> QED BY <1>2, <1>3, <2>3, <3>6, <3>7
  <2> QED BY <1>2, <1>3, <1>4, <2>1, <2>2, <2>3
<1>13. ASSUME NEW u \in Thread \ Range(r)
       PROVE  nextSleep'[u] = Null /\ prevSleep'[u] = Null
  <2>1. u \in Thread /\ u \notin Range(q) /\ u # t
    BY <1>5
  <2>2. u # cur /\ u # behind
    <3>1. k # 0 => k \in 1..Len(q)
      BY <1>2, <1>3
    <3>2. k < Len(q) => k + 1 \in 1..Len(q)
      BY <1>2, <1>3
    <3> QED BY <1>3, <1>7, <2>1, <3>1, <3>2, NullAssumption
  <2> QED BY <1>6, <1>8, <2>1, <2>2
<1>14. SleepMatches'
  BY <1>1, <1>5, <1>11, <1>12, <1>13 DEF SleepMatches, NotLinked
<1> QED BY <1>10, <1>14 DEF SleepLinksInv

(* wakeSleeping takes the first n off, and their links with them. *)
LEMMA WakeStep ==
  ASSUME SleepInv, SleepLinksInv, NEW n \in 0..Len(sleepQ),
         sleepQ' = SubSeq(sleepQ, n + 1, Len(sleepQ)), WakeLinks(n)
  PROVE  SleepLinksInv'
<1>1. PICK q, r, f : q = sleepQ /\ r = sleepQ' /\ f = IF n < Len(q) THEN q[n + 1] ELSE Null
  OBVIOUS
<1>2. q \in Queue(Thread) /\ n \in 0..Len(q) /\ r = SubSeq(q, n + 1, Len(q))
  BY <1>1 DEF SleepInv
<1>3. /\ Len(q) \in Nat /\ (q = <<>> <=> Len(q) = 0)
      /\ \A i \in 1..Len(q) : q[i] \in Thread /\ q[i] \in Range(q) /\ q[i] # Null
      /\ \A u \in Range(q) : u \in Thread /\ \E i \in 1..Len(q) : q[i] = u
      /\ \A i, j \in 1..Len(q) : q[i] = q[j] => i = j
  BY <1>2, QueuePositions, NullAssumption
<1>4. /\ r \in Queue(Thread) /\ Len(r) = Len(q) - n
      /\ \A i \in 1..(Len(q) - n) : r[i] = q[n + i]
  BY <1>2, QueueSplit
<1>5. /\ sleepQueueHead = IF q = <<>> THEN Null ELSE q[1]
      /\ \A i \in 1..Len(q) :
           /\ nextSleep[q[i]] = IF i < Len(q) THEN q[i + 1] ELSE Null
           /\ prevSleep[q[i]] = IF i > 1 THEN q[i - 1] ELSE Null
      /\ \A u \in Thread \ Range(q) : nextSleep[u] = Null /\ prevSleep[u] = Null
      /\ nextSleep \in Link /\ prevSleep \in Link
  BY <1>1 DEF SleepLinksInv, SleepMatches, NotLinked
<1>6. PICK woken : woken = {q[i] : i \in 1..n}
  OBVIOUS
<1>7. /\ sleepQueueHead' = f
      /\ nextSleep' = [u \in Thread |-> IF u \in woken THEN Null ELSE nextSleep[u]]
      /\ prevSleep' = [u \in Thread |-> IF u \in woken \cup {f} THEN Null ELSE prevSleep[u]]
  <2>1. f = IF n = 0 THEN sleepQueueHead ELSE nextSleep[sleepQ[n]]
    <3>1. CASE n = 0
      BY <1>1, <1>2, <1>3, <1>5, <3>1
    <3>2. CASE n # 0
      <4>1. n \in 1..Len(q)
        BY <1>2, <1>3, <3>2
      <4> QED BY <1>1, <1>5, <3>2, <4>1
    <3> QED BY <3>1, <3>2
  <2> QED BY <1>1, <1>6, <2>1 DEF WakeLinks
<1>8. nextSleep' \in Link /\ prevSleep' \in Link
  BY <1>5, <1>7 DEF Link
<1>9. sleepQueueHead' = IF r = <<>> THEN Null ELSE r[1]
  <2>1. Len(r) = 0 <=> r = <<>>
    BY <1>4, QueuePositions
  <2>2. CASE n < Len(q)
    <3>1. 1 \in 1..(Len(q) - n) /\ Len(r) # 0
      BY <1>2, <1>3, <1>4, <2>2
    <3> QED BY <1>1, <1>4, <1>7, <2>1, <2>2, <3>1
  <2>3. CASE n = Len(q)
    <3>1. Len(r) = 0 /\ ~(n < Len(q))
      BY <1>3, <1>4, <2>3
    <3> QED BY <1>1, <1>7, <2>1, <3>1
  <2> QED BY <1>2, <1>3, <2>2, <2>3
<1>10. ASSUME NEW i \in 1..Len(r)
       PROVE  /\ nextSleep'[r[i]] = IF i < Len(r) THEN r[i + 1] ELSE Null
              /\ prevSleep'[r[i]] = IF i > 1 THEN r[i - 1] ELSE Null
  <2>1. /\ n + i \in 1..Len(q) /\ n + i > n /\ n < Len(q)
        /\ (i < Len(r) <=> n + i < Len(q))
        /\ (i < Len(r) => r[i + 1] = q[n + i + 1])
        /\ (i > 1 => n + i > 1 /\ r[i - 1] = q[n + i - 1])
    BY <1>2, <1>3, <1>4
  <2>2. r[i] = q[n + i] /\ q[n + i] \in Thread
    BY <1>3, <1>4, <2>1
  <2>3. q[n + i] \notin woken
    <3>1. \A j \in 1..n : j \in 1..Len(q) /\ j # n + i
      BY <1>2, <1>3, <2>1
    <3> QED BY <1>3, <1>6, <2>1, <3>1
  <2>4. nextSleep'[r[i]] = IF i < Len(r) THEN r[i + 1] ELSE Null
    BY <1>5, <1>7, <2>1, <2>2, <2>3
  <2>5. prevSleep'[r[i]] = IF i > 1 THEN r[i - 1] ELSE Null
    <3>1. CASE i = 1
      BY <1>1, <1>7, <2>1, <2>2, <3>1
    <3>2. CASE i > 1
      <4>1. n + 1 \in 1..Len(q) /\ n + 1 # n + i
        BY <1>2, <1>3, <2>1, <3>2
      <4>2. q[n + i] # f
        BY <1>1, <1>3, <2>1, <4>1
      <4> QED BY <1>5, <1>7, <2>1, <2>2, <2>3, <3>2, <4>2
    <3> QED BY <1>4, <3>1, <3>2
  <2> QED BY <2>4, <2>5
<1>11. ASSUME NEW u \in Thread \ Range(r)
       PROVE  nextSleep'[u] = Null /\ prevSleep'[u] = Null
  <2>1. CASE u \in woken
    BY <1>7, <2>1
  <2>2. CASE u \notin woken
    <3>1. u \notin Range(q)
      <4> SUFFICES ASSUME u \in Range(q) PROVE FALSE
        OBVIOUS
      <4>1. PICK i \in 1..Len(q) : q[i] = u
        BY <1>3
      <4>2. CASE i <= n
        <5>1. i \in 1..n
          BY <1>2, <1>3, <4>2
        <5> QED BY <1>6, <2>2, <4>1, <5>1
      <4>3. CASE i > n
        <5>1. i - n \in 1..Len(r) /\ i - n \in 1..(Len(q) - n) /\ n + (i - n) = i
          BY <1>2, <1>3, <1>4, <4>3
        <5>2. r[i - n] = u
          BY <1>4, <4>1, <5>1
        <5> QED BY <1>4, <5>1, <5>2, QueuePositions
      <4> QED BY <1>2, <1>3, <4>2, <4>3
    <3> QED BY <1>5, <1>7, <2>2, <3>1
  <2> QED BY <2>1, <2>2
<1>12. SleepMatches'
  BY <1>1, <1>9, <1>10, <1>11 DEF SleepMatches, NotLinked
<1> QED BY <1>8, <1>12 DEF SleepLinksInv

-----------------------------------------------------------------------------
(* The steps. *)

(* The running thread is in no list. *)
LEMMA RunningApart ==
  ASSUME Inv
  PROVE  /\ ready \in Queue(Thread) /\ running \in Thread /\ running \notin Range(ready)
         /\ running # idle => /\ running \notin Range(sleepQ)
                              /\ \A s \in Sem : running \notin Range(blockedQ[s])
<1>1. running # idle => running \notin blocked \cup sleeping
  BY RunningRunnable
<1> QED BY <1>1 DEF Inv, CpuInv, WaitInv, SleepInv

(* A thread that is not scheduled is in no list. *)
LEMMA UnscheduledApart ==
  ASSUME Inv, NEW t \in Thread, t \notin scheduled
  PROVE  /\ t \notin Range(ready) /\ t \notin Range(sleepQ)
         /\ \A s \in Sem : t \notin Range(blockedQ[s])
BY DEF Inv, FlagInv, CpuInv, WaitInv, SleepInv, Runnable

(* A step that dispatches from the ready queue and does nothing else. *)
LEMMA DispatchStep ==
  ASSUME Inv, LinkInv, Dispatch(ready), DispatchLinks(Ready)
  PROVE  ReadyInv'
<1>1. ready \in Queue(Thread) /\ running \in Thread /\ running \notin Range(ready)
  BY RunningApart
<1>2. Holds(Ready, ready)
  BY DEF LinkInv, ReadyInv
<1> QED BY <1>1, <1>2, ReadyDispatch

(* Clearing a link that is clear changes nothing. *)
LEMMA ClearAgain ==
  ASSUME NEW f \in Link, NEW t \in Thread, f[t] = Null
  PROVE  [f EXCEPT ![t] = Null] = f
BY DEF Link

(* A new TCB's links were clear already: its memory may have been another's. *)
LEMMA ConstructStep ==
  ASSUME Inv, LinkInv, NEW t \in Thread \ alive, NEW started \in BOOLEAN,
         ConstructLinks(t, started), UNCHANGED <<blockedQ, sleepQ>>,
         ready' = IF started THEN Append(ready, t) ELSE ready
  PROVE  LinkInv'
<1>1. /\ t \in Thread /\ t \notin Range(ready) /\ t \notin Range(sleepQ)
      /\ \A s \in Sem : t \notin Range(blockedQ[s])
  BY UnscheduledApart DEF Inv, FlagInv
<1>2. nextBlocked' = nextBlocked
  <2>1. nextBlocked \in Link /\ nextBlocked[t] = Null
    BY <1>1 DEF LinkInv, BlockedInv, BlockedMatches, NotLinked
  <2> QED BY <1>1, <2>1, ClearAgain DEF ConstructLinks
<1>3. nextSleep' = nextSleep /\ prevSleep' = prevSleep
  <2>1. nextSleep \in Link /\ nextSleep[t] = Null /\ prevSleep \in Link /\ prevSleep[t] = Null
    BY <1>1 DEF LinkInv, SleepLinksInv, SleepMatches, NotLinked
  <2> QED BY <1>1, <2>1, ClearAgain DEF ConstructLinks
<1>4. BlockedInv'
  BY <1>2, BlockedFrame DEF LinkInv, ConstructLinks, blockedLinks
<1>5. SleepLinksInv'
  BY <1>3, SleepLinksFrame DEF LinkInv, ConstructLinks, sleepLinks
<1>6. PICK l : l = [Ready EXCEPT !.next[t] = Null]
  OBVIOUS
<1>7. Holds(l, ready)
  <2>1. Holds(Ready, ready)
    BY DEF LinkInv, ReadyInv
  <2>2. Ready.next \in Link /\ Ready.next[t] = Null
    BY <1>1, <2>1 DEF Holds
  <2>3. l.head = Ready.head /\ l.tail = Ready.tail /\ l.next = [Ready.next EXCEPT ![t] = Null]
    BY <1>6 DEF Ready
  <2>4. l.next = Ready.next
    BY <1>1, <2>2, <2>3, ClearAgain
  <2> HIDE DEF Ready
  <2> QED BY <2>1, <2>3, <2>4 DEF Holds, IsList
<1>8. IF started THEN ReadyBecomes(put(l, t)) ELSE ReadyBecomes(l)
  BY <1>6 DEF ConstructLinks
<1>9. ReadyInv'
  <2>1. CASE started
    <3>1. ready \in Queue(Thread)
      BY RunningApart
    <3>2. Holds(put(l, t), Append(ready, t))
      BY <1>1, <1>7, <3>1, PutHolds
    <3> QED BY <1>8, <2>1, <3>2, ReadyStep
  <2>2. CASE ~started
    BY <1>7, <1>8, <2>2, ReadyStep
  <2> QED BY <2>1, <2>2
<1> QED BY <1>4, <1>5, <1>9 DEF LinkInv

(* thread_create and thread_create_only. *)
LEMMA LinkedCreateStep ==
  ASSUME Inv, LinkInv, NEW t \in Thread, NEW b \in BOOLEAN, LinkedCreate(t, b)
  PROVE  LinkInv'
<1>1. CASE ThreadCreate(t, b) /\ ConstructLinks(t, b)
  BY <1>1, ConstructStep DEF ThreadCreate, Construct, semVars
<1>2. CASE ThreadCreateOnly(t, b) /\ ConstructLinks(t, FALSE)
  <2>1. ready' = ready /\ t \in Thread \ alive /\ UNCHANGED <<blockedQ, sleepQ>>
    BY <1>2 DEF ThreadCreateOnly, Construct, semVars, cpuVars
  <2> QED BY <1>2, <2>1, ConstructStep
<1> QED BY <1>1, <1>2 DEF LinkedCreate

(* Starting a thread appends it. *)
LEMMA LinkedStartStep ==
  ASSUME Inv, LinkInv, NEW t \in Thread, LinkedStart(t)
  PROVE  LinkInv'
<1>1. t \notin Range(ready) /\ ready \in Queue(Thread)
  BY UnscheduledApart, RunningApart DEF LinkedStart, ThreadScheduleOnly
<1>2. Holds(put(Ready, t), Append(ready, t))
  BY <1>1, PutHolds DEF LinkInv, ReadyInv
<1>3. ReadyInv'
  BY <1>2, ReadyStep DEF LinkedStart, ThreadScheduleOnly
<1> QED BY <1>3, BlockedFrame, SleepLinksFrame
        DEF LinkInv, LinkedStart, ThreadScheduleOnly, semVars, sleepVars

(* thread_exit and thread_dispatch. *)
LEMMA LinkedYieldStep ==
  ASSUME Inv, LinkInv, LinkedYield
  PROVE  LinkInv'
<1>1. Dispatch(ready) /\ UNCHANGED <<blockedQ, sleepQ>>
  BY DEF LinkedYield, ThreadExit, ThreadDispatch, semVars, sleepVars
<1>2. ReadyInv'
  BY <1>1, DispatchStep DEF LinkedYield
<1> QED BY <1>1, <1>2, BlockedFrame, SleepLinksFrame DEF LinkInv, LinkedYield

(* One turn of join's loop. *)
LEMMA LinkedJoinStep ==
  ASSUME Inv, LinkInv, NEW t \in Thread, LinkedJoin(t)
  PROVE  LinkInv'
<1>1. /\ \/ t \in finished /\ UNCHANGED cpuVars
         \/ t \notin finished /\ Dispatch(ready)
      /\ UNCHANGED <<blockedQ, sleepQ>>
  <2>1. CASE ThreadJoin(t)
    BY <2>1 DEF ThreadJoin, JoinTest, semVars, sleepVars
  <2>2. CASE joinTarget[running] = t /\ JoinLoop
    BY <2>2 DEF JoinLoop, JoinTest, semVars, sleepVars
  <2>3. CASE joinTarget[running] = t /\ MainJoin
    BY <2>3 DEF MainJoin, JoinTest, semVars, sleepVars
  <2> QED BY <2>1, <2>2, <2>3 DEF LinkedJoin
<1>2. ReadyInv'
  <2>1. CASE t \in finished
    BY <1>1, <2>1, ReadyFrame DEF LinkInv, LinkedJoin, cpuVars
  <2>2. CASE t \notin finished
    BY <1>1, <2>2, DispatchStep DEF LinkedJoin
  <2> QED BY <2>1, <2>2
<1> QED BY <1>1, <1>2, BlockedFrame, SleepLinksFrame DEF LinkInv, LinkedJoin

(* A new semaphore blocks nobody. *)
LEMMA LinkedOpenStep ==
  ASSUME Inv, LinkInv, NEW s \in Sem, LinkedOpen(s)
  PROVE  LinkInv'
<1>1. /\ blockedQ[s] = <<>> /\ blockedQ' = [blockedQ EXCEPT ![s] = <<>>]
      /\ UNCHANGED <<ready, sleepQ>>
  BY DEF LinkedOpen, SemOpen, cpuVars, sleepVars, Inv, WaitInv
<1>2. PICK m, r : m = [head |-> Null, tail |-> Null, next |-> nextBlocked] /\ r = <<>>
  OBVIOUS
<1>3. BlockedBecomes(s, m)
  BY <1>2 DEF LinkedOpen
<1>4. r \in Queue(Thread) /\ Range(r) = {} /\ Range(blockedQ[s]) = {} /\ Len(r) = 0
  BY <1>1, <1>2, QueueEmpty
<1>5. m.head = Null /\ m.tail = Null /\ m.next = nextBlocked
  BY <1>2
<1>6. IsList(m, r)
  BY <1>2, <1>4, <1>5 DEF IsList
<1>7. BlockedInv'
  <2>1. /\ WaitInv /\ BlockedInv /\ blockedQ' = [blockedQ EXCEPT ![s] = r]
        /\ \A u \in Sem : u # s => Range(blockedQ[u]) \cap Range(r) = {}
    BY <1>1, <1>2, <1>4 DEF Inv, LinkInv
  <2>2. /\ m.next \in Link /\ m.head \in Thread \cup {Null} /\ m.tail \in Thread \cup {Null}
        /\ \A t \in Thread \ (Range(blockedQ[s]) \cup Range(r)) : m.next[t] = nextBlocked[t]
        /\ \A t \in Range(blockedQ[s]) \ Range(r) : m.next[t] = Null
    BY <1>4, <1>5, <2>1 DEF BlockedInv
  <2> HIDE <1>1, <1>2
  <2> QED BY <1>3, <1>4, <1>6, <2>1, <2>2, BlockedStep
<1> QED BY <1>1, <1>7, ReadyFrame, SleepLinksFrame DEF LinkInv, LinkedOpen

(* Sem::wait: a thread that blocks goes behind those that wait already. *)
LEMMA LinkedWaitStep ==
  ASSUME Inv, LinkInv, NEW s \in Sem, LinkedWait(s)
  PROVE  LinkInv'
<1>1. /\ running # idle /\ UNCHANGED sleepQ /\ val[s] \in Int
      /\ \/ val[s] - 1 >= 0 /\ UNCHANGED <<ready, blockedQ>>
         \/ /\ val[s] - 1 < 0
            /\ blockedQ' = [blockedQ EXCEPT ![s] = Append(@, running)]
            /\ Dispatch(ready)
  <2>1. running # idle /\ \E label : Wait(s, label)
    BY BootThreads DEF LinkedWait, SemWait, ClientCalls, Client, System, KProducer, DrainAgain
  <2>2. PICK label : Wait(s, label)
    BY <2>1
  <2> QED BY <2>1, <2>2 DEF Wait, cpuVars, sleepVars, Inv, WaitInv
<1>2. SleepLinksInv'
  BY <1>1, SleepLinksFrame DEF LinkInv, LinkedWait
<1>3. CASE val[s] - 1 >= 0 /\ UNCHANGED <<ready, blockedQ>>
  <2>1. UNCHANGED <<readyLinks, blockedLinks>>
    BY <1>1, <1>3 DEF LinkedWait
  <2> QED BY <1>2, <1>3, <2>1, ReadyFrame, BlockedFrame DEF LinkInv
<1>4. CASE /\ val[s] - 1 < 0
           /\ blockedQ' = [blockedQ EXCEPT ![s] = Append(@, running)]
           /\ Dispatch(ready)
  <2>1. BlockedBecomes(s, put(Blocked(s), running)) /\ DispatchLinks(Ready)
    BY <1>1, <1>4 DEF LinkedWait
  <2>2. ReadyInv'
    BY <1>4, <2>1, DispatchStep
  <2>3. /\ blockedQ \in [Sem -> Queue(Thread)] /\ running \in Thread
        /\ \A u \in Sem : running \notin Range(blockedQ[u])
        /\ \A u \in Sem : u # s => Range(blockedQ[u]) \cap Range(blockedQ[s]) = {}
    BY <1>1, RunningApart DEF Inv, WaitInv
  <2>4. PICK q, r : q = blockedQ[s] /\ r = Append(q, running)
    OBVIOUS
  <2>5. /\ q \in Queue(Thread) /\ r \in Queue(Thread) /\ Range(r) = Range(q) \cup {running}
        /\ running \notin Range(q)
    BY <2>3, <2>4, QueueAppend
  <2>6. /\ Blocked(s).next = nextBlocked /\ nextBlocked \in Link
        /\ IsList(Blocked(s), q) /\ nextBlocked[running] = Null
    BY <2>3, <2>4 DEF Blocked, LinkInv, BlockedInv, BlockedMatches, NotLinked
  <2>7. PICK m : m = put(Blocked(s), running)
    OBVIOUS
  <2>8. /\ m.next \in Link /\ m.head \in Thread /\ m.tail \in Thread /\ IsList(m, r)
        /\ \A u \in Thread \ Range(q) : m.next[u] = nextBlocked[u]
    <3> HIDE DEF Blocked
    <3> QED BY <2>3, <2>4, <2>5, <2>6, <2>7, PutList
  <2>9. /\ blockedQ' = [blockedQ EXCEPT ![s] = r] /\ BlockedBecomes(s, m)
    BY <1>4, <2>1, <2>4, <2>7
  <2>10. \A u \in Sem : u # s => Range(blockedQ[u]) \cap Range(r) = {}
    BY <2>3, <2>4, <2>5
  <2>11. /\ \A t \in Thread \ (Range(blockedQ[s]) \cup Range(r)) : m.next[t] = nextBlocked[t]
         /\ \A t \in Range(blockedQ[s]) \ Range(r) : m.next[t] = Null
    BY <2>4, <2>5, <2>8
  <2>12. BlockedInv'
    BY <2>5, <2>8, <2>9, <2>10, <2>11, BlockedStep DEF Inv, LinkInv
  <2> QED BY <1>2, <2>2, <2>12 DEF LinkInv
<1> QED BY <1>1, <1>3, <1>4

(* Sem::signal: the first that waits goes to the end of the ready queue. *)
LEMMA LinkedSignalStep ==
  ASSUME Inv, LinkInv, NEW s \in Sem, LinkedSignal(s)
  PROVE  LinkInv'
<1>1. /\ UNCHANGED sleepQ /\ val[s] \in Int
      /\ \/ val[s] + 1 > 0 /\ UNCHANGED <<ready, blockedQ>>
         \/ /\ val[s] + 1 <= 0
            /\ blockedQ' = [blockedQ EXCEPT ![s] = Tail(@)]
            /\ ready' = Append(ready, Head(blockedQ[s]))
  <2>1. Signal(s) /\ SignalFrame
    BY DEF LinkedSignal, SemSignal, Putc
  <2> QED BY <2>1 DEF Signal, SignalFrame, sleepVars, Inv, WaitInv
<1>2. SleepLinksInv'
  BY <1>1, SleepLinksFrame DEF LinkInv, LinkedSignal
<1>3. CASE val[s] + 1 > 0 /\ UNCHANGED <<ready, blockedQ>>
  <2>1. UNCHANGED <<readyLinks, blockedLinks>>
    BY <1>3 DEF LinkedSignal
  <2> QED BY <1>2, <1>3, <2>1, ReadyFrame, BlockedFrame DEF LinkInv
<1>4. CASE /\ val[s] + 1 <= 0
           /\ blockedQ' = [blockedQ EXCEPT ![s] = Tail(@)]
           /\ ready' = Append(ready, Head(blockedQ[s]))
  <2>1. BlockedBecomes(s, get(Blocked(s))) /\ ReadyBecomes(put(Ready, Blocked(s).head))
    BY <1>1, <1>4 DEF LinkedSignal
  <2>2. PICK q, r, h : q = blockedQ[s] /\ r = Tail(q) /\ h = Head(q)
    OBVIOUS
  <2>3. q \in Queue(Thread) /\ q # <<>>
    <3>1. q \in Queue(Thread) /\ Len(q) = IF val[s] < 0 THEN -val[s] ELSE 0
      BY <2>2 DEF Inv, WaitInv, ValCountsWaiters
    <3>2. Len(q) > 0
      BY <1>1, <1>4, <3>1
    <3> QED BY <3>1, <3>2
  <2>4. r \in Queue(Thread) /\ h \in Range(q) /\ h \in Thread /\ Range(r) = Range(q) \ {h}
    BY <2>2, <2>3, QueueTail
  <2>5. /\ Blocked(s).next = nextBlocked /\ nextBlocked \in Link /\ IsList(Blocked(s), q)
    BY <2>2 DEF Blocked, LinkInv, BlockedInv, BlockedMatches
  <2>6. PICK b, m : b = Blocked(s) /\ m = get(b)
    OBVIOUS
  <2>7. /\ b.head = h /\ m.next \in Link
        /\ m.head \in Thread \cup {Null} /\ m.tail \in Thread \cup {Null}
        /\ IsList(m, r) /\ m.next[h] = Null
        /\ \A u \in Thread \ {h} : m.next[u] = nextBlocked[u]
    <3>1. b.next = nextBlocked /\ b.next \in Link /\ IsList(b, q)
      BY <2>5, <2>6
    <3> QED BY <2>2, <2>3, <2>6, <3>1, GetList
  <2>8. ReadyInv'
    <3>1. h \notin Range(ready)
      BY <2>2, <2>4 DEF Inv, CpuInv, WaitInv, Runnable, FlagInv
    <3>2. Holds(put(Ready, h), Append(ready, h))
      BY <2>4, <3>1, RunningApart, PutHolds DEF LinkInv, ReadyInv
    <3>3. ReadyBecomes(put(Ready, h)) /\ ready' = Append(ready, h)
      BY <1>4, <2>1, <2>2, <2>6, <2>7
    <3> QED BY <3>2, <3>3, ReadyStep
  <2>9. /\ blockedQ' = [blockedQ EXCEPT ![s] = r] /\ BlockedBecomes(s, m)
    BY <1>4, <2>1, <2>2, <2>6
  <2>10. \A u \in Sem : u # s => Range(blockedQ[u]) \cap Range(r) = {}
    BY <2>2, <2>4 DEF Inv, WaitInv
  <2>11. /\ \A t \in Thread \ (Range(blockedQ[s]) \cup Range(r)) : m.next[t] = nextBlocked[t]
         /\ \A t \in Range(blockedQ[s]) \ Range(r) : m.next[t] = Null
    BY <2>2, <2>4, <2>7
  <2>12. BlockedInv'
    BY <2>4, <2>7, <2>9, <2>10, <2>11, BlockedStep DEF Inv, LinkInv
  <2> QED BY <1>2, <2>8, <2>12 DEF LinkInv
<1> QED BY <1>1, <1>3, <1>4

(* time_sleep *)
LEMMA LinkedSleepStep ==
  ASSUME Inv, LinkInv, LinkedSleep
  PROVE  LinkInv'
<1>1. PICK time \in 1..MaxSleep : TimeSleep(time)
  BY DEF LinkedSleep
<1>2. running # idle /\ Dispatch(ready) /\ UNCHANGED blockedQ
  BY <1>1 DEF TimeSleep, ClientCalls, Client, System, semVars
<1>3. ReadyInv'
  BY <1>2, DispatchStep DEF LinkedSleep
<1>4. PICK k \in 0..Len(sleepQ) :
        sleepQ' = Inserted(sleepQ, k, running) /\ InsertLinks(k)
  BY DEF LinkedSleep, Inserted
<1>5. SleepLinksInv'
  BY <1>2, <1>4, RunningApart, InsertStep DEF Inv, LinkInv
<1> QED BY <1>2, <1>3, <1>5, BlockedFrame DEF LinkInv, LinkedSleep

(* The timer interrupt: InterruptTimer and the lists wake the same n. *)
LEMMA LinkedTimerStep ==
  ASSUME Inv, LinkInv, LinkedTimer
  PROVE  LinkInv'
<1>1. PICK n \in 0..Len(sleepQ) :
        /\ sleepQ' = SubSeq(sleepQ, n + 1, Len(sleepQ))
        /\ WakeLinks(n)
        /\ IF SliceOver THEN DispatchLinks(putEach(Ready, SubSeq(sleepQ, 1, n)))
                        ELSE ReadyBecomes(putEach(Ready, SubSeq(sleepQ, 1, n)))
  BY DEF LinkedTimer
<1>2. PICK m \in 0..Len(sleepQ) :
        /\ sleepQ' = SubSeq(sleepQ, m + 1, Len(sleepQ))
        /\ \/ SliceOver /\ Dispatch(ready \o SubSeq(sleepQ, 1, m))
           \/ ~SliceOver /\ ready' = ready \o SubSeq(sleepQ, 1, m)
  BY DEF LinkedTimer, InterruptTimer
<1>3. sleepQ \in Queue(Thread) /\ Len(sleepQ) \in Nat
  BY DEF Inv, SleepInv, Queue
<1>4. m = n
  <2>1. Len(sleepQ') = Len(sleepQ) - n
    BY <1>1, <1>3, QueueSplit
  <2>2. Len(sleepQ') = Len(sleepQ) - m
    BY <1>2, <1>3, QueueSplit
  <2> QED BY <1>3, <2>1, <2>2
<1>5. PICK woken : woken = SubSeq(sleepQ, 1, n)
  OBVIOUS
<1>6. woken \in Queue(Thread) /\ Range(woken) \subseteq Range(sleepQ)
  BY <1>3, <1>5, QueueSplit
<1>7. /\ ready \in Queue(Thread) /\ running \in Thread
      /\ Range(ready) \cap Range(woken) = {}
      /\ running \notin Range(ready) \cup Range(woken)
  <2>1. Range(woken) \subseteq sleeping
    BY <1>6 DEF Inv, SleepInv
  <2> QED BY <2>1 DEF Inv, CpuInv, FlagInv, Runnable
<1>8. /\ ready \o woken \in Queue(Thread)
      /\ Range(ready \o woken) = Range(ready) \cup Range(woken)
      /\ Holds(putEach(Ready, woken), ready \o woken)
  BY <1>6, <1>7, QueueConcat, PutEachHolds DEF LinkInv, ReadyInv
<1>9. ReadyInv'
  <2>1. CASE SliceOver
    <3>1. /\ Dispatch(ready \o woken) /\ DispatchLinks(putEach(Ready, woken))
      BY <1>1, <1>2, <1>4, <1>5, <2>1
    <3> QED BY <1>7, <1>8, <3>1, ReadyDispatch
  <2>2. CASE ~SliceOver
    <3>1. ready' = ready \o woken /\ ReadyBecomes(putEach(Ready, woken))
      BY <1>1, <1>2, <1>4, <1>5, <2>2
    <3> QED BY <1>8, <3>1, ReadyStep
  <2> QED BY <2>1, <2>2
<1>10. SleepLinksInv'
  BY <1>1, WakeStep DEF Inv, LinkInv
<1>11. BlockedInv'
  BY BlockedFrame DEF LinkInv, LinkedTimer, InterruptTimer, semVars
<1> QED BY <1>9, <1>10, <1>11 DEF LinkInv

(* What touches no list changes no queue. *)
LEMMA UnlinkingStep ==
  ASSUME LinkInv, Unlinking
  PROVE  LinkInv'
<1>1. UNCHANGED <<ready, blockedQ, sleepQ>>
  <2>1. CASE \E t \in Thread : ThreadDeleteOnly(t)
    BY <2>1 DEF ThreadDeleteOnly, cpuVars, semVars, sleepVars
  <2>2. CASE \E s \in Sem : SemClose(s)
    BY <2>2 DEF SemClose, cpuVars, sleepVars
  <2>3. CASE StartBody \/ ReturnFromEcall \/ ReturnFromTimer \/ LeaveDrain \/ RaiseTimer
    BY <2>3 DEF StartBody, ReturnFromEcall, ReturnFromTimer, LeaveDrain, RaiseTimer,
                Continue, cpuVars, semVars, sleepVars
  <2> QED BY <2>1, <2>2, <2>3 DEF Unlinking
<1> QED BY <1>1, ReadyFrame, BlockedFrame, SleepLinksFrame DEF LinkInv, Unlinking, linkVars

-----------------------------------------------------------------------------
(* Every linked step is a step of Kernel, so Kernel's invariant holds. *)
LEMMA LinkNextIsNext == LinkNext => Next
<1>1. ASSUME NEW t \in Thread, NEW b \in Bodies, LinkedCreate(t, b) PROVE Next
  BY <1>1 DEF LinkedCreate, Next, ClientSyscall
<1>2. ASSUME NEW t \in Thread, LinkedStart(t) PROVE Next
  BY <1>2 DEF LinkedStart, Next, ClientSyscall
<1>3. ASSUME NEW t \in Thread, LinkedJoin(t) PROVE Next
  BY <1>3 DEF LinkedJoin, Next, ClientSyscall, KernelStep
<1>4. ASSUME NEW s \in Sem, LinkedOpen(s) PROVE Next
  BY <1>4 DEF LinkedOpen, Next, ClientSyscall
<1>5. ASSUME NEW s \in Sem, LinkedWait(s) PROVE Next
  BY <1>5 DEF LinkedWait, Next, ClientSyscall, DrainLoop
<1>6. ASSUME NEW s \in Sem, LinkedSignal(s) PROVE Next
  BY <1>6 DEF LinkedSignal, Next, ClientSyscall
<1>7. LinkedYield => Next
  BY DEF LinkedYield, Next, ClientSyscall
<1>8. LinkedSleep => Next
  BY DEF LinkedSleep, Next, ClientSyscall
<1>9. LinkedTimer => Next
  BY DEF LinkedTimer, Next
<1>10. Unlinking => Next
  BY DEF Unlinking, Next, ClientSyscall, KernelStep, DrainLoop
<1> QED BY <1>1, <1>2, <1>3, <1>4, <1>5, <1>6, <1>7, <1>8, <1>9, <1>10 DEF LinkNext

(* Every step preserves the invariant of the lists. *)
LEMMA LinkNextInv ==
  ASSUME Inv, LinkInv, [LinkNext]_<<vars, linkVars>>
  PROVE  LinkInv'
<1>1. CASE UNCHANGED <<vars, linkVars>>
  BY <1>1, ReadyFrame, BlockedFrame, SleepLinksFrame
     DEF LinkInv, linkVars, vars, cpuVars, semVars, sleepVars
<1>2. CASE \E t \in Thread, b \in Bodies : LinkedCreate(t, b)
  BY <1>2, LinkedCreateStep, ClientAssumption
<1>3. CASE \E t \in Thread : LinkedStart(t) \/ LinkedJoin(t)
  BY <1>3, LinkedStartStep, LinkedJoinStep
<1>4. CASE \E s \in Sem : LinkedOpen(s) \/ LinkedWait(s) \/ LinkedSignal(s)
  BY <1>4, LinkedOpenStep, LinkedWaitStep, LinkedSignalStep
<1>5. CASE LinkedYield \/ LinkedSleep \/ LinkedTimer
  BY <1>5, LinkedYieldStep, LinkedSleepStep, LinkedTimerStep
<1>6. CASE Unlinking
  BY <1>6, UnlinkingStep
<1> QED BY <1>1, <1>2, <1>3, <1>4, <1>5, <1>6 DEF LinkNext

(* In every reachable state the pointers of scheduler.cpp, Semaphore.cpp   *)
(* and SleepList.cpp are the queues of Kernel.                             *)
THEOREM ListsAreQueues == ASSUME SafeDelete PROVE LinkSpec => []LinksMatch
<1> DEFINE J == Inv /\ idle \notin blocked
<1>1. LinkInit => J /\ LinkInv
  BY InitInv, LinkInitInv DEF LinkInit, Init
<1>2. ASSUME J, LinkInv, [LinkNext]_<<vars, linkVars>> PROVE J' /\ LinkInv'
  <2>1. [Next]_vars
    BY <1>2, LinkNextIsNext
  <2> QED BY <1>2, <2>1, IdleNeverWaits, NextInv, LinkNextInv DEF IdleStays
<1>3. LinkInv => LinksMatch
  <2>1. ReadyInv => ReadyMatches
    BY DEF ReadyInv, Holds, Ready, ReadyMatches, NotLinked
  <2> QED BY <2>1 DEF LinkInv, BlockedInv, SleepLinksInv, LinksMatch
<1> QED BY <1>1, <1>2, <1>3, PTL DEF LinkSpec
=============================================================================
