---------------------------- MODULE QueueLemmas -----------------------------
(***************************************************************************)
(* What the operations on the kernel's queues do to a sequence without     *)
(* repetitions: its elements, and that it still has no repetition; and the *)
(* arithmetic of the console's ring buffers.  Where a proof goes by        *)
(* induction it takes the least number for which something fails.          *)
(***************************************************************************)
EXTENDS Integers, Sequences, Functions, TLAPS, WellFoundedInduction

Queue(S) == {q \in Seq(S) : IsInjective(q)}

(* q with e behind its first k elements. *)
Inserted(q, k, e) == SubSeq(q, 1, k) \o <<e>> \o SubSeq(q, k + 1, Len(q))

(* A set of numbers that is not empty has a least member. *)
LEMMA Least == ASSUME NEW S \in SUBSET Nat, S # {} PROVE \E n \in S : \A m \in S : n <= m
<1> DEFINE R == OpToRel(<, Nat)
<1>1. \A m, n \in Nat : m < n => <<m, n>> \in R
  BY DEF OpToRel
<1>2. IsWellFoundedOn(R, Nat)
  BY NatLessThanWellFounded
<1> HIDE DEF R
<1>3. \E n \in S : \A m \in S : ~(<<m, n>> \in R)
  BY <1>2, WFMin
<1>4. PICK n \in S : \A m \in S : ~(<<m, n>> \in R)
  BY <1>3
<1>5. \A m \in S : ~(m < n)
  BY <1>1, <1>4
<1> QED BY <1>5

(* A queue, its elements and its lack of repetition by position. *)
LEMMA QueueDef ==
  ASSUME NEW S, NEW q \in Seq(S)
  PROVE  /\ \A e : e \in Range(q) <=> \E i \in 1..Len(q) : q[i] = e
         /\ IsInjective(q) <=> \A i, j \in 1..Len(q) : q[i] = q[j] => i = j
         /\ Len(q) \in Nat
BY DEF IsInjective, Range

(* The empty queue is a queue and holds nothing. *)
LEMMA QueueEmpty ==
  ASSUME NEW S
  PROVE  <<>> \in Queue(S) /\ Range(<<>>) = {}
BY DEF Queue, IsInjective, Range

(* Putting an element that is not queued at the tail adds just that one.   *)
LEMMA QueueAppend ==
  ASSUME NEW S, NEW q \in Queue(S), NEW e \in S, e \notin Range(q)
  PROVE  /\ Append(q, e) \in Queue(S)
         /\ Range(Append(q, e)) = Range(q) \cup {e}
         /\ Append(q, e) # <<>>
         /\ Len(Append(q, e)) = Len(q) + 1
<1> DEFINE a == Append(q, e)
<1>1. q \in Seq(S) /\ IsInjective(q) BY DEF Queue
<1>2. a \in Seq(S) /\ Len(a) = Len(q) + 1 /\ Len(q) \in Nat
      /\ \A i \in 1..Len(a) : a[i] = IF i = Len(q) + 1 THEN e ELSE q[i]
  BY <1>1
<1> HIDE DEF a
<1>3. \A i \in 1..Len(q) : a[i] = q[i]
  BY <1>2
<1>4. a[Len(q) + 1] = e
  BY <1>2
<1>5. Range(a) = Range(q) \cup {e}
  <2>1. ASSUME NEW x PROVE x \in Range(a) <=> x \in Range(q) \cup {e}
    BY <1>1, <1>2, <1>3, <1>4, QueueDef
  <2> QED BY <2>1
<1>6. IsInjective(a)
  BY <1>1, <1>2, <1>3, <1>4, QueueDef
<1>7. a # <<>>
  BY <1>2
<1> QED BY <1>2, <1>5, <1>6, <1>7 DEF a, Queue

(* Taking the head of a queue leaves the others. *)
LEMMA QueueTail ==
  ASSUME NEW S, NEW q \in Queue(S), q # <<>>
  PROVE  /\ Tail(q) \in Queue(S)
         /\ Head(q) \in Range(q)
         /\ Head(q) \in S
         /\ Range(Tail(q)) = Range(q) \ {Head(q)}
         /\ Len(Tail(q)) = Len(q) - 1
<1> DEFINE t == Tail(q)
<1>1. q \in Seq(S) /\ IsInjective(q) BY DEF Queue
<1>2. /\ t \in Seq(S) /\ Len(t) = Len(q) - 1 /\ Len(q) \in Nat \ {0}
      /\ \A i \in 1..Len(t) : t[i] = q[i + 1]
      /\ Head(q) = q[1] /\ Head(q) \in S
  BY <1>1
<1> HIDE DEF t
<1>3. Head(q) \in Range(q)
  BY <1>1, <1>2, QueueDef
<1>4. Range(t) = Range(q) \ {Head(q)}
  <2>1. ASSUME NEW x \in Range(t) PROVE x \in Range(q) \ {Head(q)}
    <3>1. PICK i \in 1..Len(t) : t[i] = x
      BY <1>2, QueueDef
    <3>2. i + 1 \in 1..Len(q) /\ i + 1 # 1 /\ q[i + 1] = x /\ 1 \in 1..Len(q)
      BY <1>2, <3>1
    <3> QED BY <1>1, <1>2, <3>2, QueueDef
  <2>2. ASSUME NEW x \in Range(q), x # Head(q) PROVE x \in Range(t)
    <3>1. PICK i \in 1..Len(q) : q[i] = x
      BY <1>1, QueueDef
    <3>2. i - 1 \in 1..Len(t) /\ t[i - 1] = q[i - 1 + 1] /\ i - 1 + 1 = i
      BY <1>2, <2>2, <3>1
    <3> QED BY <1>2, <3>1, <3>2, QueueDef
  <2> QED BY <2>1, <2>2
<1>5. IsInjective(t)
  <2>1. ASSUME NEW i \in 1..Len(t), NEW j \in 1..Len(t), t[i] = t[j] PROVE i = j
    <3>1. i + 1 \in 1..Len(q) /\ j + 1 \in 1..Len(q) /\ q[i + 1] = q[j + 1]
      BY <1>2, <2>1
    <3>2. i + 1 = j + 1
      BY <1>1, <3>1, QueueDef
    <3> QED BY <3>2
  <2> QED BY <1>2, <2>1, QueueDef
<1> QED BY <1>2, <1>3, <1>4, <1>5 DEF t, Queue

(* Two disjoint queues can be chained. *)
LEMMA QueueConcat ==
  ASSUME NEW S, NEW p \in Queue(S), NEW q \in Queue(S),
         Range(p) \cap Range(q) = {}
  PROVE  /\ p \o q \in Queue(S)
         /\ Range(p \o q) = Range(p) \cup Range(q)
<1> DEFINE c == p \o q
<1>1. p \in Seq(S) /\ IsInjective(p) /\ q \in Seq(S) /\ IsInjective(q)
  BY DEF Queue
<1>2. /\ c \in Seq(S) /\ Len(c) = Len(p) + Len(q)
      /\ Len(p) \in Nat /\ Len(q) \in Nat
      /\ \A i \in 1..Len(c) : c[i] = IF i <= Len(p) THEN p[i] ELSE q[i - Len(p)]
  BY <1>1
<1> HIDE DEF c
<1>3. \A i \in 1..Len(p) : i \in 1..Len(c) /\ c[i] = p[i]
  BY <1>2
<1>4. \A i \in 1..Len(q) : Len(p) + i \in 1..Len(c) /\ c[Len(p) + i] = q[i]
  <2> SUFFICES ASSUME NEW i \in 1..Len(q)
               PROVE  Len(p) + i \in 1..Len(c) /\ c[Len(p) + i] = q[i]
    OBVIOUS
  <2>1. Len(p) + i \in 1..Len(c) /\ ~(Len(p) + i <= Len(p)) /\ Len(p) + i - Len(p) = i
    BY <1>2
  <2> QED BY <1>2, <2>1
<1>5. Range(c) = Range(p) \cup Range(q)
  <2>1. ASSUME NEW x \in Range(c) PROVE x \in Range(p) \cup Range(q)
    <3>1. PICK i \in 1..Len(c) : c[i] = x
      BY <1>2, QueueDef
    <3>2. CASE i <= Len(p)
      BY <1>1, <1>2, <3>1, <3>2, QueueDef
    <3>3. CASE ~(i <= Len(p))
      <4>1. i - Len(p) \in 1..Len(q) /\ q[i - Len(p)] = x
        BY <1>2, <3>1, <3>3
      <4> QED BY <1>1, <4>1, QueueDef
    <3> QED BY <3>2, <3>3
  <2>2. ASSUME NEW x \in Range(p) PROVE x \in Range(c)
    <3>1. PICK i \in 1..Len(p) : p[i] = x
      BY <1>1, QueueDef
    <3> QED BY <1>2, <1>3, <3>1, QueueDef
  <2>3. ASSUME NEW x \in Range(q) PROVE x \in Range(c)
    <3>1. PICK i \in 1..Len(q) : q[i] = x
      BY <1>1, QueueDef
    <3> QED BY <1>2, <1>4, <3>1, QueueDef
  <2> QED BY <2>1, <2>2, <2>3
<1>6. IsInjective(c)
  <2>1. ASSUME NEW i \in 1..Len(c), NEW j \in 1..Len(c), c[i] = c[j], i < j
        PROVE  FALSE
    <3>1. CASE j <= Len(p)
      <4>1. i \in 1..Len(p) /\ j \in 1..Len(p) /\ p[i] = p[j]
        BY <1>2, <2>1, <3>1
      <4> QED BY <1>1, <4>1, <2>1, QueueDef
    <3>2. CASE ~(i <= Len(p))
      <4>1. /\ i - Len(p) \in 1..Len(q) /\ j - Len(p) \in 1..Len(q)
            /\ q[i - Len(p)] = q[j - Len(p)] /\ i - Len(p) # j - Len(p)
        BY <1>2, <2>1, <3>2
      <4> QED BY <1>1, <4>1, QueueDef
    <3>3. CASE i <= Len(p) /\ ~(j <= Len(p))
      <4>1. /\ i \in 1..Len(p) /\ j - Len(p) \in 1..Len(q)
            /\ p[i] = q[j - Len(p)]
        BY <1>2, <2>1, <3>3
      <4>2. p[i] \in Range(p) /\ p[i] \in Range(q)
        BY <1>1, <4>1, QueueDef
      <4> QED BY <4>2
    <3> QED BY <1>2, <2>1, <3>1, <3>2, <3>3
  <2>2. ASSUME NEW i \in 1..Len(c), NEW j \in 1..Len(c), c[i] = c[j] PROVE i = j
    <3>1. ~(i < j) /\ ~(j < i)
      BY <2>1, <2>2
    <3> QED BY <3>1, <1>2
  <2> QED BY <1>2, <2>2, QueueDef
<1> QED BY <1>2, <1>5, <1>6 DEF c, Queue

(* A queue cut in two. *)
LEMMA QueueSplit ==
  ASSUME NEW S, NEW q \in Queue(S), NEW n \in 0..Len(q)
  PROVE  /\ SubSeq(q, 1, n) \in Queue(S)
         /\ SubSeq(q, n + 1, Len(q)) \in Queue(S)
         /\ Range(SubSeq(q, 1, n)) \cup Range(SubSeq(q, n + 1, Len(q))) = Range(q)
         /\ Range(SubSeq(q, 1, n)) \cap Range(SubSeq(q, n + 1, Len(q))) = {}
         /\ Len(SubSeq(q, n + 1, Len(q))) = Len(q) - n
         /\ \A i \in 1..(Len(q) - n) : SubSeq(q, n + 1, Len(q))[i] = q[n + i]
<1> DEFINE f == SubSeq(q, 1, n)
           b == SubSeq(q, n + 1, Len(q))
<1>1. q \in Seq(S) /\ IsInjective(q) /\ Len(q) \in Nat BY DEF Queue
<1>2. f \in Seq(S) /\ Len(f) = n /\ \A i \in 1..n : f[i] = q[i]
  BY <1>1
<1>3. /\ b \in Seq(S) /\ Len(b) = Len(q) - n
      /\ \A i \in 1..(Len(q) - n) : b[i] = q[n + i]
  BY <1>1
<1> HIDE DEF f, b
<1>4. \A e : e \in Range(f) <=> \E i \in 1..n : q[i] = e
  BY <1>2, QueueDef
<1>5. \A e : e \in Range(b) <=> \E i \in (n + 1)..Len(q) : q[i] = e
  <2> SUFFICES ASSUME NEW e
               PROVE  e \in Range(b) <=> \E i \in (n + 1)..Len(q) : q[i] = e
    OBVIOUS
  <2>1. e \in Range(b) => \E i \in (n + 1)..Len(q) : q[i] = e
    <3> SUFFICES ASSUME e \in Range(b) PROVE \E i \in (n + 1)..Len(q) : q[i] = e
      OBVIOUS
    <3>1. PICK i \in 1..(Len(q) - n) : b[i] = e
      BY <1>3, QueueDef
    <3>2. n + i \in (n + 1)..Len(q) /\ q[n + i] = e
      BY <1>1, <1>3, <3>1
    <3> QED BY <3>2
  <2>2. ASSUME NEW i \in (n + 1)..Len(q), q[i] = e PROVE e \in Range(b)
    <3>1. i - n \in 1..Len(b) /\ b[i - n] = q[n + (i - n)] /\ n + (i - n) = i
      BY <1>1, <1>3
    <3>2. b[i - n] = e
      BY <3>1, <2>2
    <3> QED BY <1>3, <3>1, <3>2, QueueDef
  <2> QED BY <2>1, <2>2
<1>6. Range(f) \cup Range(b) = Range(q)
  <2>1. \A e : e \in Range(q) <=> \E i \in 1..Len(q) : q[i] = e
    BY <1>1, QueueDef
  <2>2. 1..Len(q) = (1..n) \cup ((n + 1)..Len(q))
    BY <1>1
  <2> QED BY <1>4, <1>5, <2>1, <2>2
<1>7. Range(f) \cap Range(b) = {}
  <2> SUFFICES ASSUME NEW e \in Range(f), e \in Range(b) PROVE FALSE
    OBVIOUS
  <2>1. PICK i \in 1..n : q[i] = e
    BY <1>4
  <2>2. PICK j \in (n + 1)..Len(q) : q[j] = e
    BY <1>5
  <2>3. i \in 1..Len(q) /\ j \in 1..Len(q) /\ i # j
    BY <1>1
  <2> QED BY <1>1, <2>1, <2>2, <2>3, QueueDef
<1>8. IsInjective(f)
  BY <1>1, <1>2, QueueDef
<1>9. IsInjective(b)
  <2>1. ASSUME NEW i \in 1..Len(b), NEW j \in 1..Len(b), b[i] = b[j] PROVE i = j
    <3>1. n + i \in 1..Len(q) /\ n + j \in 1..Len(q) /\ q[n + i] = q[n + j]
      BY <1>1, <1>3, <2>1
    <3>2. n + i = n + j
      BY <1>1, <3>1, QueueDef
    <3> QED BY <3>2
  <2> QED BY <1>3, <2>1, QueueDef
<1> QED BY <1>2, <1>3, <1>6, <1>7, <1>8, <1>9 DEF f, b, Queue

(* An element put behind the first k of a queue. *)
LEMMA QueueInsert ==
  ASSUME NEW S, NEW q \in Queue(S), NEW e \in S, e \notin Range(q),
         NEW k \in 0..Len(q)
  PROVE  /\ Inserted(q, k, e) \in Queue(S)
         /\ Range(Inserted(q, k, e)) = Range(q) \cup {e}
         /\ Inserted(q, k, e) # <<>>
         /\ Head(Inserted(q, k, e)) = IF k = 0 THEN e ELSE q[1]
<1> DEFINE f == SubSeq(q, 1, k)
           b == SubSeq(q, k + 1, Len(q))
<1>1. /\ f \in Queue(S) /\ b \in Queue(S)
      /\ Range(f) \cup Range(b) = Range(q) /\ Range(f) \cap Range(b) = {}
  BY QueueSplit
<1>2. <<e>> \in Queue(S) /\ Range(<<e>>) = {e}
  BY DEF Queue, IsInjective, Range
<1>3. Len(f) = k /\ \A i \in 1..k : f[i] = q[i]
  BY DEF Queue
<1> HIDE DEF f, b
<1>4. f \o <<e>> \in Queue(S) /\ Range(f \o <<e>>) = Range(f) \cup {e}
  BY <1>1, <1>2, QueueConcat
<1>5. (f \o <<e>>) \o b \in Queue(S) /\ Range((f \o <<e>>) \o b) = Range(q) \cup {e}
  BY <1>1, <1>4, QueueConcat
<1>6. f \in Seq(S) /\ b \in Seq(S) /\ q \in Seq(S)
  BY <1>1 DEF Queue
<1>7. (f \o <<e>>) \o b # <<>> /\ Head((f \o <<e>>) \o b) = IF k = 0 THEN e ELSE q[1]
  <2>1. /\ f \o <<e>> \in Seq(S) /\ Len(f \o <<e>>) = k + 1
        /\ (f \o <<e>>)[1] = IF k = 0 THEN e ELSE q[1]
    BY <1>3, <1>6
  <2> DEFINE g == f \o <<e>>
  <2> HIDE DEF g
  <2>2. g \o b \in Seq(S) /\ Len(g \o b) = Len(g) + Len(b) /\ Len(b) \in Nat
        /\ (1 <= Len(g) => (g \o b)[1] = g[1])
    BY <1>6, <2>1 DEF g
  <2>3. g \o b # <<>> /\ Head(g \o b) = g[1]
    BY <2>1, <2>2 DEF g
  <2> QED BY <2>1, <2>3 DEF g
<1> QED BY <1>5, <1>7 DEF f, b, Inserted
-----------------------------------------------------------------------------
(* Rings: an array of n places, in use from index h up to, not with, l.    *)

(* A remainder by subtraction. *)
LEMMA Wraps ==
  ASSUME NEW n \in Nat \ {0}, NEW i \in Int, 0 <= i, i < 2 * n
  PROVE  /\ i % n = IF i < n THEN i ELSE i - n
         /\ i % n \in 0..(n - 1)
<1>1. CASE i < n BY <1>1
<1>2. CASE i >= n
  <2>1. i \in n..(2 * n - 1)
    BY <1>2
  <2> QED BY <2>1
<1> QED BY <1>1, <1>2

(* The number of places in use from index h to index l of n. *)
Used(h, l, n) == (l - h + n) % n

(* The places in use are counted without the wrap. *)
LEMMA UsedIs ==
  ASSUME NEW n \in Nat \ {0}, NEW h \in 0..(n - 1), NEW l \in 0..(n - 1)
  PROVE  /\ Used(h, l, n) = IF h <= l THEN l - h ELSE l - h + n
         /\ Used(h, l, n) \in 0..(n - 1)
<1>1. PICK d \in Int : d = l - h + n
  OBVIOUS
<1>2. 0 <= d /\ d < 2 * n
  BY <1>1
<1>3. d % n = (IF d < n THEN d ELSE d - n) /\ d % n \in 0..(n - 1)
  BY <1>2, Wraps
<1> QED BY <1>1, <1>3 DEF Used

(* The index after i, and the place of the k-th element behind h. *)
LEMMA NextIs ==
  ASSUME NEW n \in Nat \ {0}, NEW h \in 0..(n - 1), NEW k \in 0..n
  PROVE  /\ (h + k) % n = IF h + k < n THEN h + k ELSE h + k - n
         /\ (h + k) % n \in 0..(n - 1)
<1>1. PICK d \in Int : d = h + k
  OBVIOUS
<1>2. 0 <= d /\ d < 2 * n
  BY <1>1
<1>3. d % n = (IF d < n THEN d ELSE d - n) /\ d % n \in 0..(n - 1)
  BY <1>2, Wraps
<1> QED BY <1>1, <1>3

(* A character put behind the last one of a ring that is not full: it is   *)
(* counted, and it is not written over one of the others.                  *)
LEMMA RingPut ==
  ASSUME NEW n \in Nat \ {0}, NEW h \in 0..(n - 1), NEW l \in 0..(n - 1),
         NEW u, u = Used(h, l, n), u < n - 1
  PROVE  /\ (l + 1) % n \in 0..(n - 1)
         /\ Used(h, (l + 1) % n, n) = u + 1
         /\ \A k \in 0..(u - 1) : (h + k) % n \in 0..(n - 1) /\ (h + k) % n # l
         /\ (h + u) % n = l
<1>1. u = (IF h <= l THEN l - h ELSE l - h + n) /\ u \in 0..(n - 1)
  BY UsedIs
<1>2. PICK m : m = (l + 1) % n
  OBVIOUS
<1>3. m = (IF l + 1 < n THEN l + 1 ELSE l + 1 - n) /\ m \in 0..(n - 1)
  <2>1. 1 \in 0..n
    OBVIOUS
  <2> QED BY <1>2, <2>1, NextIs
<1>4. Used(h, m, n) = u + 1
  <2>1. Used(h, m, n) = IF h <= m THEN m - h ELSE m - h + n
    BY <1>3, UsedIs
  <2> QED BY <1>1, <1>3, <2>1
<1>5. ASSUME NEW k \in 0..(u - 1) PROVE (h + k) % n \in 0..(n - 1) /\ (h + k) % n # l
  <2>1. PICK p : p = (h + k) % n
    OBVIOUS
  <2>2. p = (IF h + k < n THEN h + k ELSE h + k - n) /\ p \in 0..(n - 1)
    <3>1. k \in 0..n
      BY <1>1
    <3> QED BY <2>1, <3>1, NextIs
  <2>3. p # l
    BY <1>1, <1>5, <2>2
  <2> QED BY <2>1, <2>2, <2>3
<1>6. (h + u) % n = l
  <2>1. PICK p : p = (h + u) % n
    OBVIOUS
  <2>2. p = IF h + u < n THEN h + u ELSE h + u - n
    <3>1. u \in 0..n
      BY <1>1
    <3> QED BY <2>1, <3>1, NextIs
  <2>3. p = l
    BY <1>1, <2>2
  <2> QED BY <2>1, <2>3
<1> QED BY <1>2, <1>3, <1>4, <1>5, <1>6

(* The first character taken from a ring that is not empty: the others     *)
(* follow in their order.                                                  *)
LEMMA RingGet ==
  ASSUME NEW n \in Nat \ {0}, NEW h \in 0..(n - 1), NEW l \in 0..(n - 1),
         NEW u, u = Used(h, l, n), u > 0
  PROVE  /\ (h + 1) % n \in 0..(n - 1)
         /\ Used((h + 1) % n, l, n) = u - 1
         /\ \A k \in 0..(u - 2) : (((h + 1) % n) + k) % n = (h + (k + 1)) % n
         /\ h % n = h
<1>1. u = (IF h <= l THEN l - h ELSE l - h + n) /\ u \in 0..(n - 1)
  BY UsedIs
<1>2. PICK m : m = (h + 1) % n
  OBVIOUS
<1>3. m = (IF h + 1 < n THEN h + 1 ELSE h + 1 - n) /\ m \in 0..(n - 1)
  <2>1. 1 \in 0..n
    OBVIOUS
  <2> QED BY <1>2, <2>1, NextIs
<1>4. Used(m, l, n) = u - 1
  <2>1. Used(m, l, n) = IF m <= l THEN l - m ELSE l - m + n
    BY <1>3, UsedIs
  <2> QED BY <1>1, <1>3, <2>1
<1>5. ASSUME NEW k \in 0..(u - 2) PROVE (m + k) % n = (h + (k + 1)) % n
  <2>1. k \in 0..n /\ k + 1 \in 0..n
    BY <1>1
  <2>2. PICK j : j = k + 1
    OBVIOUS
  <2>3. (h + j) % n = IF h + j < n THEN h + j ELSE h + j - n
    BY <2>1, <2>2, NextIs
  <2>4. (m + k) % n = IF m + k < n THEN m + k ELSE m + k - n
    BY <1>3, <2>1, NextIs
  <2>5. (m + k) % n = (h + j) % n
    BY <1>1, <1>3, <2>1, <2>2, <2>3, <2>4
  <2> QED BY <2>2, <2>5
<1>6. h % n = h
  BY Wraps
<1> QED BY <1>2, <1>3, <1>4, <1>5, <1>6
=============================================================================
