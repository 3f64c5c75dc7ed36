------------------------- MODULE KernelClockProofs --------------------------
(***************************************************************************)
(* The relative times of the sleep list for any number of threads and any  *)
(* times: insertions and ticks are those of one countdown per sleeper      *)
(* (SleepClock).                                                           *)
(*                                                                         *)
(* The countdowns are the sums TicksUntil, which are defined by recursion  *)
(* over the list.  That they exist is shown for ever longer beginnings of  *)
(* the list (SumExists); what an insertion or a tick does to them, for     *)
(* ever longer ones again.  The inductive invariant is Kernel's.           *)
(***************************************************************************)
EXTENDS KernelClock, KernelProofs

Pos == Nat \ {0}

(* T are the sums of the times f along q. *)
SumOf(T, q, f) ==
  \A k \in Pos : T[k] = IF k = 1 THEN f[q[1]] ELSE T[k - 1] + f[q[k]]

(* The recursion of TicksUntil has a solution. *)
LEMMA SumExists ==
  ASSUME NEW q, NEW f
  PROVE  \E T : T = [k \in Pos |-> IF k = 1 THEN f[q[1]] ELSE T[k - 1] + f[q[k]]]
<1> DEFINE Plus(T, k) == IF k = 1 THEN f[q[1]] ELSE T[k - 1] + f[q[k]]
           Up(n, T) == T = [k \in 1..n |-> Plus(T, k)]
<1>1. \A n \in Nat : \E T : Up(n, T)
  <2> DEFINE K == {n \in Nat : ~ \E T : Up(n, T)}
  <2>1. SUFFICES ASSUME K # {} PROVE FALSE
    OBVIOUS
  <2>2. PICK n \in K : \A m \in K : n <= m
    BY <2>1, Least
  <2>3. CASE n = 0
    <3> DEFINE Z == [k \in {} |-> 0]
    <3>1. Up(n, Z)
      BY <2>3
    <3> HIDE DEF Up, Z
    <3> QED BY <3>1
  <2>4. CASE n # 0
    <3>1. n \in Nat /\ n - 1 \in Nat /\ n - 1 \notin K
      <4>1. n \in Nat /\ n - 1 \in Nat /\ ~(n <= n - 1)
        BY <2>4
      <4> HIDE DEF K
      <4> QED BY <2>2, <4>1
    <3>2. PICK T : Up(n - 1, T)
      BY <3>1
    <3> DEFINE G == [k \in 1..n |-> IF k = n THEN Plus(T, n) ELSE T[k]]
    <3>3. ASSUME NEW k \in 1..n PROVE G[k] = Plus(G, k)
      <4>1. k # 1 => k - 1 \in 1..n /\ k - 1 # n /\ G[k - 1] = T[k - 1]
        BY <3>1
      <4>2. Plus(G, k) = Plus(T, k)
        <5> HIDE DEF G
        <5> QED BY <4>1
      <4>3. CASE k = n
        BY <4>2, <4>3
      <4>4. CASE k # n
        <5>1. G[k] = T[k] /\ k \in 1..(n - 1)
          BY <3>1, <4>4
        <5>2. T[k] = Plus(T, k)
          BY <3>2, <5>1
        <5> HIDE DEF G, Plus
        <5> QED BY <4>2, <5>1, <5>2
      <4> HIDE DEF G, Plus
      <4> QED BY <4>3, <4>4
    <3>4. Up(n, G)
      <4>1. G = [k \in 1..n |-> G[k]]
        OBVIOUS
      <4> HIDE DEF G, Plus
      <4> QED BY <3>3, <4>1
    <3>5. \E H : Up(n, H)
      <4> HIDE DEF Up, G
      <4> QED BY <3>4
    <3> HIDE DEF Up, G
    <3> QED BY <2>2, <3>5
  <2> QED BY <2>3, <2>4
<1>2. ASSUME NEW n \in Nat, NEW m \in Nat, n <= m, NEW G, Up(n, G), NEW H, Up(m, H)
      PROVE  \A k \in 1..n : G[k] = H[k]
  <2> DEFINE K == {k \in 1..n : G[k] # H[k]}
  <2>1. SUFFICES ASSUME K # {} PROVE FALSE
    OBVIOUS
  <2>2. PICK k \in K : \A j \in K : k <= j
    <3>1. K \in SUBSET Nat
      OBVIOUS
    <3> HIDE DEF K
    <3> QED BY <2>1, <3>1, Least
  <2>3. k \in 1..n /\ k \in 1..m /\ G[k] # H[k]
    BY <1>2
  <2>4. G[k] = Plus(G, k) /\ H[k] = Plus(H, k)
    <3> HIDE DEF Plus
    <3> QED BY <1>2, <2>3
  <2>5. k # 1 => G[k - 1] = H[k - 1]
    <3>1. k # 1 => k - 1 \in 1..n /\ ~(k <= k - 1)
      BY <2>3
    <3> QED BY <2>2, <3>1
  <2> QED BY <2>3, <2>4, <2>5
<1> DEFINE S(n) == CHOOSE T : Up(n, T)
           F == [k \in Pos |-> S(k)[k]]
<1>3. ASSUME NEW n \in Nat PROVE Up(n, S(n))
  <2> HIDE DEF Up
  <2> QED BY <1>1
<1> HIDE DEF S
<1>4. ASSUME NEW k \in Pos PROVE F[k] = Plus(F, k)
  <2>1. k \in Nat /\ F[k] = S(k)[k] /\ S(k)[k] = Plus(S(k), k)
    <3>1. k \in Nat /\ k \in 1..k
      BY DEF Pos
    <3>2. Up(k, S(k))
      BY <1>3, <3>1
    <3>3. S(k)[k] = Plus(S(k), k)
      <4> HIDE DEF Plus
      <4> QED BY <3>1, <3>2
    <3> QED BY <3>1, <3>3
  <2>2. CASE k = 1
    BY <2>1, <2>2
  <2>3. CASE k # 1
    <3>1. k - 1 \in Nat /\ k - 1 \in Pos /\ k - 1 <= k /\ k - 1 \in 1..(k - 1)
      BY <2>1, <2>3 DEF Pos
    <3>2. Up(k - 1, S(k - 1)) /\ Up(k, S(k))
      BY <1>3, <2>1, <3>1
    <3>3. S(k - 1)[k - 1] = S(k)[k - 1]
      <4> HIDE DEF Up
      <4> QED BY <1>2, <2>1, <3>1, <3>2
    <3>4. F[k - 1] = S(k)[k - 1]
      BY <3>1, <3>3
    <3> HIDE DEF F
    <3> QED BY <2>1, <2>3, <3>4
  <2> QED BY <2>2, <2>3
<1>5. F = [k \in Pos |-> Plus(F, k)]
  <2>1. F = [k \in Pos |-> F[k]]
    OBVIOUS
  <2> HIDE DEF F, Plus
  <2> QED BY <1>4, <2>1
<1> HIDE DEF F
<1> QED BY <1>5

(* TicksUntil is that solution, *)
LEMMA TicksSum == SumOf(TicksUntil, sleepQ, sleepTime)
<1>1. TicksUntil = [k \in Pos |-> IF k = 1 THEN sleepTime[sleepQ[1]]
                                  ELSE TicksUntil[k - 1] + sleepTime[sleepQ[k]]]
  BY SumExists DEF TicksUntil, Pos
<1> HIDE DEF TicksUntil
<1> QED BY <1>1 DEF SumOf

(* and after a step as well. *)
LEMMA TicksSumNext == SumOf(TicksUntil, sleepQ, sleepTime)'
BY TicksSum, PTL

(* The sums never fall. *)
LEMMA SumsRise ==
  ASSUME NEW q \in Seq(Thread), NEW f \in [Thread -> Nat], NEW T, SumOf(T, q, f)
  PROVE  \A k \in 1..Len(q) : /\ T[k] \in Nat
                              /\ k > 1 => T[k - 1] \in Nat /\ T[k - 1] <= T[k]
                              /\ T[1] <= T[k]
<1> DEFINE Fine(k) == /\ T[k] \in Nat
                      /\ k > 1 => T[k - 1] \in Nat /\ T[k - 1] <= T[k]
                      /\ T[1] <= T[k]
           K == {k \in 1..Len(q) : ~Fine(k)}
<1>1. SUFFICES ASSUME K # {} PROVE FALSE
  OBVIOUS
<1>2. PICK k \in K : \A j \in K : k <= j
  <2>1. K \in SUBSET Nat
    BY DEF Fine
  <2> HIDE DEF K
  <2> QED BY <1>1, <2>1, Least
<1>3. Len(q) \in Nat /\ k \in 1..Len(q) /\ k \in Pos /\ f[q[k]] \in Nat
  BY DEF Pos
<1>4. T[k] = IF k = 1 THEN f[q[1]] ELSE T[k - 1] + f[q[k]]
  BY <1>3 DEF SumOf
<1>5. CASE k = 1
  BY <1>3, <1>4, <1>5
<1>6. CASE k # 1
  <2>1. k - 1 \in 1..Len(q) /\ ~(k <= k - 1) /\ k - 1 \notin K
    BY <1>2, <1>3, <1>6
  <2>2. Fine(k - 1)
    BY <2>1
  <2>3. T[k - 1] \in Nat /\ T[1] <= T[k - 1]
    BY <2>2
  <2>4. T[1] \in Int
    <3>1. 1 \in 1..Len(q) /\ 1 \in Pos /\ T[1] = f[q[1]]
      BY <1>3 DEF SumOf, Pos
    <3> QED BY <3>1
  <2>5. PICK x, y \in Nat : x = T[k - 1] /\ y = f[q[k]] /\ T[k] = x + y
    BY <1>3, <1>4, <1>6, <2>3
  <2>6. T[k] \in Nat /\ T[k - 1] <= T[k]
    BY <2>5
  <2>7. T[1] <= T[k]
    BY <2>3, <2>4, <2>6
  <2>8. Fine(k)
    BY <2>3, <2>6, <2>7
  <2> HIDE DEF Fine
  <2> QED BY <2>8
<1> QED BY <1>5, <1>6

-----------------------------------------------------------------------------
(* p is q with t behind the first k elements; the shares, and the sums, of *)
(* such a p.                                                               *)
HasBehind(p, q, k, t) ==
  /\ Len(p) = Len(q) + 1 /\ p[k + 1] = t
  /\ \A j \in 1..k : p[j] = q[j]
  /\ \A j \in (k + 1)..Len(q) : p[j + 1] = q[j]
SharesBehind(g, f, q, k, t, rest) ==
  g = [u \in Thread |-> IF u = t THEN rest
                        ELSE IF k < Len(q) /\ u = q[k + 1] THEN f[u] - rest ELSE f[u]]
SumsBehind(U, T, q, k, time) ==
  /\ \A j \in 1..k : U[j] = T[j]
  /\ U[k + 1] = time
  /\ \A j \in (k + 1)..Len(q) : U[j + 1] = T[j]

(* Where the elements of a queue are when one is put behind its first k. *)
LEMMA InsertedAt ==
  ASSUME NEW q \in Seq(Thread), NEW k \in 0..Len(q), NEW t \in Thread, NEW p, p = Inserted(q, k, t)
  PROVE  HasBehind(p, q, k, t)
<1>1. PICK n \in Nat : n = Len(q)
  OBVIOUS
<1>2. PICK a : a = SubSeq(q, 1, k)
  OBVIOUS
<1>3. PICK b : b = SubSeq(q, k + 1, n)
  OBVIOUS
<1>4. a \in Seq(Thread) /\ Len(a) = k /\ \A j \in 1..k : a[j] = q[j]
  BY <1>1, <1>2
<1>5. b \in Seq(Thread) /\ Len(b) = n - k /\ \A j \in 1..(n - k) : b[j] = q[k + j]
  BY <1>1, <1>3
<1>6. PICK c : c = a \o <<t>>
  OBVIOUS
<1>7. c \in Seq(Thread) /\ Len(c) = k + 1 /\ c[k + 1] = t /\ \A j \in 1..k : c[j] = q[j]
  BY <1>1, <1>4, <1>6
<1>8. p = c \o b
  BY <1>1, <1>2, <1>3, <1>6 DEF Inserted
<1>9. Len(p) = n + 1 /\ \A j \in 1..(k + 1) : p[j] = c[j]
  BY <1>1, <1>5, <1>7, <1>8
<1>10. ASSUME NEW j \in (k + 1)..n PROVE p[j + 1] = q[j]
  <2>1. PICK i \in 1..(n - k) : i = j - k
    BY <1>1, <1>10
  <2>2. p[(k + 1) + i] = b[i]
    BY <1>1, <1>5, <1>7, <1>8
  <2>3. (k + 1) + i = j + 1 /\ k + i = j
    BY <1>1, <1>10, <2>1
  <2> QED BY <1>5, <2>1, <2>2, <2>3
<1> QED BY <1>1, <1>7, <1>9, <1>10 DEF HasBehind

(* With t behind the first k sleepers and rest taken off its successor's   *)
(* share, t has its time and all others have what they had.                *)
LEMMA InsertSums ==
  ASSUME NEW q \in Queue(Thread), NEW f \in [Thread -> Nat], NEW T, SumOf(T, q, f),
         NEW t \in Thread \ Range(q), NEW k \in 0..Len(q), NEW time \in Nat,
         NEW rest, rest = IF k = 0 THEN time ELSE time - T[k],
         NEW p, p = Inserted(q, k, t),
         NEW g, SharesBehind(g, f, q, k, t, rest),
         NEW U, SumOf(U, p, g)
  PROVE  SumsBehind(U, T, q, k, time)
<1>1. q \in Seq(Thread) /\ Len(q) \in Nat /\ \A i, j \in 1..Len(q) : q[i] = q[j] => i = j
  BY QueueDef DEF Queue
<1>2. /\ p[k + 1] = t
      /\ \A j \in 1..k : p[j] = q[j]
      /\ \A j \in (k + 1)..Len(q) : p[j + 1] = q[j]
  <2>1. HasBehind(p, q, k, t)
    BY <1>1, InsertedAt
  <2> QED BY <2>1 DEF HasBehind
<1>3. \A j \in 1..Len(q) : T[j] \in Nat /\ q[j] \in Thread /\ q[j] # t /\ f[q[j]] \in Nat
  <2>1. \A j \in 1..Len(q) : q[j] \in Thread /\ q[j] \in Range(q)
    BY <1>1 DEF Range
  <2>2. \A j \in 1..Len(q) : T[j] \in Nat
    BY <1>1, SumsRise
  <2> QED BY <2>1, <2>2
<1>4. \A j \in 1..Len(q) : g[q[j]] = IF j = k + 1 THEN f[q[j]] - rest ELSE f[q[j]]
  <2> SUFFICES ASSUME NEW j \in 1..Len(q)
               PROVE  g[q[j]] = IF j = k + 1 THEN f[q[j]] - rest ELSE f[q[j]]
    OBVIOUS
  <2>1. g[q[j]] = IF k < Len(q) /\ q[j] = q[k + 1] THEN f[q[j]] - rest ELSE f[q[j]]
    BY <1>3 DEF SharesBehind
  <2>2. (k < Len(q) /\ q[j] = q[k + 1]) <=> j = k + 1
    BY <1>1
  <2> QED BY <2>1, <2>2
<1>5. \A j \in Pos : /\ T[j] = IF j = 1 THEN f[q[1]] ELSE T[j - 1] + f[q[j]]
                     /\ U[j] = IF j = 1 THEN g[p[1]] ELSE U[j - 1] + g[p[j]]
  BY DEF SumOf
<1>6. g[t] = rest
  BY DEF SharesBehind
<1>7. \A j \in 1..k : U[j] = T[j]
  <2> DEFINE K == {j \in 1..k : U[j] # T[j]}
  <2>1. SUFFICES ASSUME K # {} PROVE FALSE
    OBVIOUS
  <2>2. PICK j \in K : \A i \in K : j <= i
    <3>1. K \in SUBSET Nat
      OBVIOUS
    <3> HIDE DEF K
    <3> QED BY <2>1, <3>1, Least
  <2>3. j \in 1..k /\ U[j] # T[j] /\ j \in Pos /\ j \in 1..Len(q) /\ j # k + 1
    BY <1>1 DEF Pos
  <2>4. g[p[j]] = f[q[j]]
    BY <1>2, <1>4, <2>3
  <2>5. CASE j = 1
    BY <1>5, <2>3, <2>4, <2>5
  <2>6. CASE j # 1
    <3>1. j - 1 \in 1..k /\ ~(j <= j - 1)
      BY <2>3, <2>6
    <3>2. j - 1 \notin K
      <4> HIDE DEF K
      <4> QED BY <2>2, <3>1
    <3>3. U[j - 1] = T[j - 1]
      BY <3>1, <3>2
    <3> QED BY <1>5, <2>3, <2>4, <2>6, <3>3
  <2> QED BY <2>5, <2>6
<1>8. U[k + 1] = time
  <2>1. k + 1 \in Pos /\ g[p[k + 1]] = rest
    BY <1>2, <1>6 DEF Pos
  <2>2. CASE k = 0
    BY <1>5, <2>1, <2>2
  <2>3. CASE k # 0
    <3>1. k + 1 # 1 /\ (k + 1) - 1 = k /\ k \in 1..k /\ k \in 1..Len(q)
      BY <1>1, <2>3
    <3>2. U[k + 1] = U[k] + rest /\ U[k] = T[k] /\ T[k] \in Nat
      BY <1>3, <1>5, <1>7, <2>1, <3>1
    <3> QED BY <2>3, <3>2
  <2> QED BY <2>2, <2>3
<1>9. \A j \in (k + 1)..Len(q) : U[j + 1] = T[j]
  <2> DEFINE K == {j \in (k + 1)..Len(q) : U[j + 1] # T[j]}
  <2>1. SUFFICES ASSUME K # {} PROVE FALSE
    OBVIOUS
  <2>2. PICK j \in K : \A i \in K : j <= i
    <3>1. K \in SUBSET Nat
      OBVIOUS
    <3> HIDE DEF K
    <3> QED BY <2>1, <3>1, Least
  <2>3. /\ j \in (k + 1)..Len(q) /\ U[j + 1] # T[j] /\ j \in Pos /\ j \in 1..Len(q)
        /\ j + 1 \in Pos /\ j + 1 # 1 /\ (j + 1) - 1 = j
    BY <1>1 DEF Pos
  <2>4. U[j + 1] = U[j] + g[q[j]]
    BY <1>2, <1>5, <2>3
  <2>5. PICK x \in Nat : x = f[q[j]]
    BY <1>3, <2>3
  <2>6. CASE j = k + 1
    <3>1. U[j + 1] = time + (x - rest)
      BY <1>4, <1>8, <2>3, <2>4, <2>5, <2>6
    <3>2. CASE k = 0
      BY <1>5, <2>3, <2>5, <2>6, <3>1, <3>2
    <3>3. CASE k # 0
      <4>1. k \in 1..Len(q) /\ j # 1 /\ j - 1 = k
        BY <1>1, <2>6, <3>3
      <4>2. T[j] = T[k] + x /\ T[k] \in Nat
        BY <1>3, <1>5, <2>3, <2>5, <4>1
      <4>3. PICK y \in Nat : y = T[k]
        BY <4>2
      <4>4. U[j + 1] = time + (x - (time - y)) /\ T[j] = y + x
        BY <3>1, <3>3, <4>2, <4>3
      <4>5. U[j + 1] = T[j]
        BY <4>4
      <4> QED BY <2>3, <4>5
    <3> QED BY <3>2, <3>3
  <2>7. CASE j # k + 1
    <3>1. j - 1 \in (k + 1)..Len(q) /\ ~(j <= j - 1) /\ (j - 1) + 1 = j /\ j # 1
      BY <1>1, <2>3, <2>7
    <3>2. j - 1 \notin K
      <4> HIDE DEF K
      <4> QED BY <2>2, <3>1
    <3>3. U[j] = T[j - 1]
      BY <3>1, <3>2
    <3>4. T[j] = T[j - 1] + x /\ g[q[j]] = x
      BY <1>4, <1>5, <2>3, <2>5, <2>7, <3>1
    <3> QED BY <2>3, <2>4, <3>3, <3>4
  <2> QED BY <2>6, <2>7
<1> QED BY <1>7, <1>8, <1>9 DEF SumsBehind

(* The sums U behind the first n of q, whose time is over. *)
SumsTicked(U, T, q, n) ==
  /\ \A j \in 1..n : T[j] = 1
  /\ \A j \in 1..(Len(q) - n) : U[j] = T[n + j] - 1 /\ T[n + j] > 1

(* A tick takes one off the head's share and so off every sum; the first n, *)
(* whose sums were 1, are taken off the list.                              *)
LEMMA TickSums ==
  ASSUME NEW q \in Queue(Thread), NEW f \in [Thread -> Nat], NEW T, SumOf(T, q, f),
         NEW g, g = [u \in Thread |-> IF q # <<>> /\ u = Head(q) THEN f[u] - 1 ELSE f[u]],
         NEW n \in 0..Len(q), \A i \in 1..n : g[q[i]] = 0,
         n < Len(q) => g[q[n + 1]] # 0,
         q # <<>> => f[Head(q)] > 0,
         NEW p, p = SubSeq(q, n + 1, Len(q)), NEW U, SumOf(U, p, g)
  PROVE  SumsTicked(U, T, q, n)
<1>1. q \in Seq(Thread) /\ Len(q) \in Nat /\ \A i, j \in 1..Len(q) : q[i] = q[j] => i = j
  BY QueueDef DEF Queue
<1>2. \A j \in 1..(Len(q) - n) : p[j] = q[n + j]
  BY QueueSplit
<1>3. \A j \in 1..Len(q) : T[j] \in Nat /\ q[j] \in Thread /\ f[q[j]] \in Nat
  <2>1. \A j \in 1..Len(q) : q[j] \in Thread
    BY <1>1
  <2>2. \A j \in 1..Len(q) : T[j] \in Nat
    BY <1>1, SumsRise
  <2> QED BY <2>1, <2>2
<1>4. \A j \in 1..Len(q) : g[q[j]] = IF j = 1 THEN f[q[j]] - 1 ELSE f[q[j]]
  <2> SUFFICES ASSUME NEW j \in 1..Len(q)
               PROVE  g[q[j]] = IF j = 1 THEN f[q[j]] - 1 ELSE f[q[j]]
    OBVIOUS
  <2>1. q # <<>> /\ Head(q) = q[1] /\ 1 \in 1..Len(q)
    BY <1>1
  <2>2. g[q[j]] = IF q[j] = Head(q) THEN f[q[j]] - 1 ELSE f[q[j]]
    BY <1>3, <2>1
  <2>3. q[j] = Head(q) <=> j = 1
    BY <1>1, <2>1
  <2> QED BY <2>2, <2>3
<1>5. \A j \in Pos : /\ T[j] = IF j = 1 THEN f[q[1]] ELSE T[j - 1] + f[q[j]]
                     /\ U[j] = IF j = 1 THEN g[p[1]] ELSE U[j - 1] + g[p[j]]
  BY DEF SumOf
<1>6. \A j \in 1..n : T[j] = 1
  <2> DEFINE K == {j \in 1..n : T[j] # 1}
  <2>1. SUFFICES ASSUME K # {} PROVE FALSE
    OBVIOUS
  <2>2. PICK j \in K : \A i \in K : j <= i
    <3>1. K \in SUBSET Nat
      OBVIOUS
    <3> HIDE DEF K
    <3> QED BY <2>1, <3>1, Least
  <2>3. j \in 1..n /\ T[j] # 1 /\ j \in Pos /\ j \in 1..Len(q) /\ g[q[j]] = 0
    <3>1. j \in 1..n /\ T[j] # 1
      OBVIOUS
    <3>2. j \in Pos /\ j \in 1..Len(q)
      BY <1>1, <3>1 DEF Pos
    <3> QED BY <3>1, <3>2
  <2>4. CASE j = 1
    BY <1>3, <1>4, <1>5, <2>3, <2>4
  <2>5. CASE j # 1
    <3>1. j - 1 \in 1..n /\ ~(j <= j - 1)
      BY <2>3, <2>5
    <3>2. j - 1 \notin K
      <4> HIDE DEF K
      <4> QED BY <2>2, <3>1
    <3>3. T[j - 1] = 1 /\ f[q[j]] = 0
      BY <1>4, <2>3, <2>5, <3>1, <3>2
    <3> QED BY <1>5, <2>3, <2>5, <3>3
  <2> QED BY <2>4, <2>5
<1>7. \A j \in 1..(Len(q) - n) : U[j] = T[n + j] - 1 /\ T[n + j] > 1
  <2> DEFINE K == {j \in 1..(Len(q) - n) : ~(U[j] = T[n + j] - 1 /\ T[n + j] > 1)}
  <2>1. SUFFICES ASSUME K # {} PROVE FALSE
    OBVIOUS
  <2>2. PICK j \in K : \A i \in K : j <= i
    <3>1. K \in SUBSET Nat
      OBVIOUS
    <3> HIDE DEF K
    <3> QED BY <2>1, <3>1, Least
  <2>3. /\ j \in 1..(Len(q) - n) /\ ~(U[j] = T[n + j] - 1 /\ T[n + j] > 1) /\ j \in Pos
        /\ n + j \in Pos /\ n + j \in 1..Len(q) /\ p[j] = q[n + j]
    <3>1. j \in 1..(Len(q) - n) /\ ~(U[j] = T[n + j] - 1 /\ T[n + j] > 1)
      OBVIOUS
    <3> HIDE DEF K
    <3>2. j \in Pos /\ n + j \in Pos /\ n + j \in 1..Len(q)
      BY <1>1, <3>1 DEF Pos
    <3> QED BY <1>2, <3>1, <3>2
  <2>4. PICK x \in Nat : x = f[q[n + j]]
    BY <1>3, <2>3
  <2>5. PICK y : y = g[q[n + j]]
    OBVIOUS
  <2>6. y = IF n + j = 1 THEN x - 1 ELSE x
    BY <1>4, <2>3, <2>4, <2>5
  <2>7. CASE j = 1
    <3>1. U[j] = y /\ y # 0
      <4>1. n < Len(q) /\ n + j = n + 1 /\ 1 \in Pos
        BY <1>1, <2>3, <2>7 DEF Pos
      <4>2. y = g[q[n + 1]]
        BY <2>4, <2>5, <4>1
      <4>3. U[1] = g[p[1]] /\ p[1] = q[n + 1]
        BY <1>5, <2>3, <2>7, <4>1
      <4> QED BY <2>7, <4>1, <4>2, <4>3
    <3>2. CASE n = 0
      <4>1. T[n + j] = x /\ x > 0
        <5>1. q # <<>> /\ Head(q) = q[1] /\ n + j = 1
          BY <1>1, <2>3, <2>7, <3>2
        <5>2. f[q[1]] > 0 /\ T[1] = f[q[1]]
          BY <1>5, <5>1 DEF Pos
        <5> QED BY <2>4, <2>5, <5>1, <5>2
      <4> QED BY <2>3, <2>6, <2>7, <3>1, <3>2, <4>1
    <3>3. CASE n # 0
      <4>1. n \in 1..n /\ n + j # 1 /\ (n + j) - 1 = n
        BY <1>1, <2>7, <3>3
      <4>2. T[n] = 1
        BY <1>6, <4>1
      <4>3. T[n + j] = 1 + x /\ y = x
        <5>1. n + j \in Pos /\ T[n + j] = T[(n + j) - 1] + f[q[n + j]]
          BY <1>5, <2>3, <4>1
        <5>2. T[(n + j) - 1] = 1
          BY <4>1, <4>2
        <5> QED BY <2>4, <2>5, <2>6, <4>1, <5>1, <5>2
      <4>4. U[j] = T[n + j] - 1 /\ T[n + j] > 1
        <5>1. x > 0 /\ U[j] = x
          BY <2>4, <2>5, <3>1, <4>3
        <5> QED BY <4>3, <5>1
      <4> QED BY <2>3, <4>4
    <3> QED BY <3>2, <3>3
  <2>8. CASE j # 1
    <3>1. /\ j - 1 \in 1..(Len(q) - n) /\ ~(j <= j - 1)
          /\ n + (j - 1) = (n + j) - 1 /\ n + j # 1 /\ (n + j) - 1 \in 1..Len(q)
      BY <1>1, <2>3, <2>8
    <3>2. j - 1 \notin K
      <4> HIDE DEF K
      <4> QED BY <2>2, <3>1
    <3>3. PICK z \in Nat : z = T[(n + j) - 1]
      BY <1>3, <3>1
    <3>4. U[j - 1] = z - 1 /\ z > 1
      BY <3>1, <3>2, <3>3
    <3>5. U[j] = (z - 1) + x /\ T[n + j] = z + x
      <4>1. U[j] = U[j - 1] + y
        <5>1. j \in Pos /\ U[j] = U[j - 1] + g[p[j]]
          BY <1>5, <2>3, <2>8
        <5> QED BY <2>3, <2>4, <2>5, <5>1
      <4>2. T[n + j] = z + x
        BY <1>5, <2>3, <2>4, <2>5, <3>1, <3>3
      <4> QED BY <2>6, <3>1, <3>4, <4>1, <4>2
    <3>6. U[j] = T[n + j] - 1 /\ T[n + j] > 1
      BY <3>4, <3>5
    <3> QED BY <2>3, <3>6
  <2> QED BY <2>7, <2>8
<1> QED BY <1>6, <1>7 DEF SumsTicked

-----------------------------------------------------------------------------
(* The countdowns r are those that q and the sums T stand for. *)
CountsOf(r, q, T) ==
  /\ r = [u \in Range(q) |-> r[u]]
  /\ \A i \in 1..Len(q) : r[q[i]] = T[i]

(* Remaining has the sums as countdowns, *)
LEMMA RemainingIs == sleepQ \in Queue(Thread) => CountsOf(Remaining, sleepQ, TicksUntil)
<1> SUFFICES ASSUME sleepQ \in Queue(Thread) PROVE CountsOf(Remaining, sleepQ, TicksUntil)
  OBVIOUS
<1>1. PICK T : T = TicksUntil
  OBVIOUS
<1>2. Remaining = [t \in Range(sleepQ) |-> T[Place(t)]]
  BY <1>1 DEF Remaining
<1>3. sleepQ \in Seq(Thread) /\ \A i, j \in 1..Len(sleepQ) : sleepQ[i] = sleepQ[j] => i = j
  BY QueueDef DEF Queue
<1>4. ASSUME NEW i \in 1..Len(sleepQ) PROVE Remaining[sleepQ[i]] = T[i]
  <2>1. sleepQ[i] \in Range(sleepQ)
    BY <1>3, QueueDef
  <2>2. Place(sleepQ[i]) = i
    BY <1>3 DEF Place
  <2> QED BY <1>2, <2>1, <2>2
<1>5. Remaining = [u \in Range(sleepQ) |-> Remaining[u]]
  BY <1>2
<1> QED BY <1>1, <1>4, <1>5 DEF CountsOf

(* and after a step as well. *)
LEMMA RemainingNext == (sleepQ \in Queue(Thread) => CountsOf(Remaining, sleepQ, TicksUntil))'
BY RemainingIs, PTL

-----------------------------------------------------------------------------
(* A step of the countdowns, or none. *)
ClockStep == Clock!Next \/ Remaining' = Remaining

(* At boot nobody sleeps. *)
LEMMA ClockInit == Init => Clock!Init
<1> SUFFICES ASSUME Init PROVE Remaining = [t \in {} |-> 0]
  BY DEF Clock!Init
<1>1. PICK T : T = TicksUntil
  OBVIOUS
<1>2. Range(sleepQ) = {}
  BY QueueEmpty DEF Init
<1>3. Remaining = [t \in {} |-> T[Place(t)]]
  BY <1>1, <1>2 DEF Remaining
<1> QED BY <1>3

(* The sums depend on the sleepers' own times only. *)
LEMMA SumsAgree ==
  ASSUME NEW q \in Seq(Thread), NEW f, NEW g, \A i \in 1..Len(q) : g[q[i]] = f[q[i]],
         NEW T, SumOf(T, q, f), NEW U, SumOf(U, q, g)
  PROVE  \A i \in 1..Len(q) : U[i] = T[i]
<1> DEFINE K == {i \in 1..Len(q) : U[i] # T[i]}
<1>1. SUFFICES ASSUME K # {} PROVE FALSE
  OBVIOUS
<1>2. PICK k \in K : \A j \in K : k <= j
  <2>1. K \in SUBSET Nat
    OBVIOUS
  <2> HIDE DEF K
  <2> QED BY <1>1, <2>1, Least
<1>3. Len(q) \in Nat /\ k \in 1..Len(q) /\ k \in Pos /\ U[k] # T[k] /\ g[q[k]] = f[q[k]]
  BY DEF Pos
<1>4. /\ T[k] = IF k = 1 THEN f[q[1]] ELSE T[k - 1] + f[q[k]]
      /\ U[k] = IF k = 1 THEN g[q[1]] ELSE U[k - 1] + g[q[k]]
  BY <1>3 DEF SumOf
<1>5. k # 1 => U[k - 1] = T[k - 1]
  <2>1. k # 1 => k - 1 \in 1..Len(q) /\ ~(k <= k - 1)
    BY <1>3
  <2>2. k # 1 => k - 1 \notin K
    <3> HIDE DEF K
    <3> QED BY <1>2, <2>1
  <2> QED BY <2>1, <2>2
<1> QED BY <1>3, <1>4, <1>5

(* Countdowns are equal if the queue is the same and the sums are. *)
LEMMA CountsAgree ==
  ASSUME NEW q \in Seq(Thread), NEW T, NEW U, \A i \in 1..Len(q) : U[i] = T[i],
         NEW r, CountsOf(r, q, T), NEW s, CountsOf(s, q, U)
  PROVE  s = r
<1>1. ASSUME NEW u \in Range(q) PROVE s[u] = r[u]
  <2>1. PICK i \in 1..Len(q) : q[i] = u
    BY QueueDef
  <2> QED BY <2>1 DEF CountsOf
<1> QED BY <1>1 DEF CountsOf

(* No countdown moves while the list and its times stay as they are: a     *)
(* TCB that is constructed is not in it.                                   *)
LEMMA ClockFrame ==
  ASSUME SleepInv, sleepQ' = sleepQ, \A t \in sleeping : sleepTime'[t] = sleepTime[t]
  PROVE  Remaining' = Remaining
<1>1. sleepQ \in Queue(Thread) /\ sleepQ \in Seq(Thread) /\ Range(sleepQ) = sleeping
  BY DEF SleepInv, Queue
<1>2. CountsOf(Remaining, sleepQ, TicksUntil)
  BY <1>1, RemainingIs
<1>3. CountsOf(Remaining', sleepQ, TicksUntil')
  BY <1>1, RemainingNext
<1>4. SumOf(TicksUntil, sleepQ, sleepTime) /\ SumOf(TicksUntil', sleepQ, sleepTime')
  BY TicksSum, TicksSumNext
<1>5. \A i \in 1..Len(sleepQ) : sleepTime'[sleepQ[i]] = sleepTime[sleepQ[i]]
  BY <1>1, QueueDef
<1> HIDE DEF TicksUntil, Remaining
<1>6. \A i \in 1..Len(sleepQ) : TicksUntil'[i] = TicksUntil[i]
  <2>1. PICK q, f, g, T, U : q = sleepQ /\ f = sleepTime /\ g = sleepTime' /\ T = TicksUntil /\ U = TicksUntil'
    OBVIOUS
  <2>2. /\ q \in Seq(Thread) /\ SumOf(T, q, f) /\ SumOf(U, q, g)
        /\ \A i \in 1..Len(q) : g[q[i]] = f[q[i]]
    BY <1>1, <1>4, <1>5, <2>1
  <2>3. \A i \in 1..Len(q) : U[i] = T[i]
    BY <2>2, SumsAgree
  <2> QED BY <2>1, <2>3
<1> QED BY <1>1, <1>2, <1>3, <1>6, CountsAgree

(* putSleeping gives the new sleeper its time and moves nobody's deadline. *)
LEMMA ClockInsert ==
  ASSUME SleepInv, SleepInv', NEW t \in Thread, t \notin sleeping, NEW time \in 1..MaxSleep,
         PutSleeping(t, time)
  PROVE  Clock!FallAsleep(t, time)
<1>1. PICK k \in 0..Len(sleepQ), rest \in 0..time :
        /\ Insertion(k, rest, time)
        /\ sleepQ' = SubSeq(sleepQ, 1, k) \o <<t>> \o SubSeq(sleepQ, k + 1, Len(sleepQ))
        /\ sleepTime' = Shares(t, k, rest)
  BY DEF PutSleeping
<1>2. PICK q, f, p, g : q = sleepQ /\ f = sleepTime /\ p = sleepQ' /\ g = sleepTime'
  OBVIOUS
<1>3. PICK T, U, r, s : T = TicksUntil /\ U = TicksUntil' /\ r = Remaining /\ s = Remaining'
  OBVIOUS
<1>4. /\ q \in Queue(Thread) /\ q \in Seq(Thread) /\ p \in Queue(Thread) /\ p \in Seq(Thread)
      /\ f \in [Thread -> Nat] /\ t \in Thread \ Range(q) /\ Len(q) \in Nat /\ k \in 0..Len(q) /\ k \in Nat
  BY <1>1, <1>2 DEF SleepInv, Queue
<1>5. SumOf(T, q, f) /\ SumOf(U, p, g)
  BY <1>2, <1>3, TicksSum, TicksSumNext
<1>6. CountsOf(r, q, T) /\ CountsOf(s, p, U)
  BY <1>2, <1>3, <1>4, RemainingIs, RemainingNext
<1>7. rest = IF k = 0 THEN time ELSE time - T[k]
  BY <1>1, <1>3 DEF Insertion, Left
<1>8. p = Inserted(q, k, t)
  BY <1>1, <1>2 DEF Inserted
<1>9. SharesBehind(g, f, q, k, t, rest)
  BY <1>1, <1>2 DEF Shares, SharesBehind
<1>10. time \in Nat
  OBVIOUS
<1>11. SumsBehind(U, T, q, k, time)
  BY <1>4, <1>5, <1>7, <1>8, <1>9, <1>10, InsertSums
<1>12. HasBehind(p, q, k, t)
  BY <1>4, <1>8, InsertedAt
<1>13. /\ \A j \in 1..k : U[j] = T[j]
       /\ U[k + 1] = time
       /\ \A j \in (k + 1)..Len(q) : U[j + 1] = T[j]
  BY <1>11 DEF SumsBehind
<1>14. /\ p[k + 1] = t /\ Len(p) = Len(q) + 1
       /\ \A j \in 1..k : p[j] = q[j]
       /\ \A j \in (k + 1)..Len(q) : p[j + 1] = q[j]
  BY <1>12 DEF HasBehind
<1>15. Range(p) = Range(q) \cup {t}
  BY <1>4, <1>8, QueueInsert
<1>16. s[t] = time
  <2>1. k + 1 \in 1..Len(p)
    BY <1>4, <1>14
  <2> QED BY <1>6, <1>13, <1>14, <2>1 DEF CountsOf
<1>17. ASSUME NEW u \in Range(q) PROVE s[u] = r[u]
  <2>1. PICK i \in 1..Len(q) : q[i] = u
    BY <1>4, QueueDef
  <2>2. r[u] = T[i]
    BY <1>6, <2>1 DEF CountsOf
  <2>3. CASE i \in 1..k
    <3>1. i \in 1..Len(p)
      BY <1>4, <1>14
    <3>2. s[p[i]] = U[i]
      BY <1>6, <3>1 DEF CountsOf
    <3> QED BY <1>13, <1>14, <2>1, <2>2, <2>3, <3>2
  <2>4. CASE i \in (k + 1)..Len(q)
    <3>1. i + 1 \in 1..Len(p)
      BY <1>4, <1>14
    <3>2. s[p[i + 1]] = U[i + 1]
      BY <1>6, <3>1 DEF CountsOf
    <3> QED BY <1>13, <1>14, <2>1, <2>2, <2>4, <3>2
  <2> QED BY <1>4, <2>3, <2>4
<1>18. DOMAIN r = Range(q) /\ s = [u \in Range(p) |-> s[u]]
  BY <1>6 DEF CountsOf
<1>19. s = [u \in Range(q) \cup {t} |-> IF u = t THEN time ELSE r[u]]
  BY <1>4, <1>15, <1>16, <1>17, <1>18
<1>20. t \notin DOMAIN r
  BY <1>4, <1>18
<1> HIDE DEF Remaining, TicksUntil
<1> QED BY <1>3, <1>18, <1>19, <1>20 DEF Clock!FallAsleep, Clock!Sleepers

(* A tick takes one off every countdown, and those at zero are over. *)
LEMMA ClockTick ==
  ASSUME SleepInv, SleepInv', sleepTime' = Ticked, NEW n \in 0..Len(sleepQ), Wakes(n),
         sleepQ' = SubSeq(sleepQ, n + 1, Len(sleepQ))
  PROVE  Clock!Tick
<1>1. PICK q, f, p, g : q = sleepQ /\ f = sleepTime /\ p = sleepQ' /\ g = sleepTime'
  OBVIOUS
<1>2. PICK T, U, r, s : T = TicksUntil /\ U = TicksUntil' /\ r = Remaining /\ s = Remaining'
  OBVIOUS
<1>3. /\ q \in Queue(Thread) /\ q \in Seq(Thread) /\ p \in Queue(Thread) /\ p \in Seq(Thread)
      /\ f \in [Thread -> Nat] /\ Len(q) \in Nat /\ n \in 0..Len(q) /\ n \in Nat
      /\ p = SubSeq(q, n + 1, Len(q)) /\ (q # <<>> => f[Head(q)] > 0)
  BY <1>1 DEF SleepInv, Queue, SleepHeadPositive
<1>4. SumOf(T, q, f) /\ SumOf(U, p, g)
  BY <1>1, <1>2, TicksSum, TicksSumNext
<1>5. CountsOf(r, q, T) /\ CountsOf(s, p, U)
  BY <1>1, <1>2, <1>3, RemainingIs, RemainingNext
<1>6. g = [u \in Thread |-> IF q # <<>> /\ u = Head(q) THEN f[u] - 1 ELSE f[u]]
  BY <1>1 DEF Ticked
<1>7. (\A i \in 1..n : g[q[i]] = 0) /\ (n < Len(q) => g[q[n + 1]] # 0)
  BY <1>1 DEF Wakes
<1>8. /\ \A j \in 1..n : T[j] = 1
      /\ \A j \in 1..(Len(q) - n) : U[j] = T[n + j] - 1 /\ T[n + j] > 1
  <2>1. SumsTicked(U, T, q, n)
    BY <1>3, <1>4, <1>6, <1>7, TickSums
  <2> QED BY <2>1 DEF SumsTicked
<1>9. /\ Len(p) = Len(q) - n
       /\ \A j \in 1..(Len(q) - n) : p[j] = q[n + j]
  BY <1>3, QueueSplit
<1>10. ASSUME NEW u \in Range(p) PROVE u \in Range(q) /\ r[u] > 1 /\ s[u] = r[u] - 1
  <2>1. PICK j \in 1..(Len(q) - n) : p[j] = u /\ q[n + j] = u
    <3>1. PICK j \in 1..Len(p) : p[j] = u
      <4>1. p \in Seq(Thread)
        BY <1>3
      <4> QED BY <4>1, QueueDef
    <3> QED BY <1>9, <3>1
  <2>2. n + j \in 1..Len(q) /\ j \in 1..Len(p)
    BY <1>3, <1>9
  <2>3. r[u] = T[n + j] /\ s[u] = U[j]
    BY <1>5, <2>1, <2>2 DEF CountsOf
  <2>4. u \in Range(q)
    BY <1>3, <2>1, <2>2, QueueDef
  <2> QED BY <1>8, <2>3, <2>4
<1>11. ASSUME NEW u \in Range(q), r[u] > 1 PROVE u \in Range(p)
  <2>1. PICK i \in 1..Len(q) : q[i] = u
    BY <1>3, QueueDef
  <2>2. r[u] = T[i]
    BY <1>5, <2>1 DEF CountsOf
  <2>3. i \notin 1..n
    BY <1>8, <1>11, <2>2
  <2>4. PICK j \in 1..(Len(q) - n) : n + j = i
    <3>1. i - n \in 1..(Len(q) - n) /\ n + (i - n) = i
      BY <1>3, <2>3
    <3> QED BY <3>1
  <2> QED BY <1>3, <1>9, <2>1, <2>4, QueueDef
<1>12. DOMAIN r = Range(q) /\ s = [u \in Range(p) |-> s[u]]
  BY <1>5 DEF CountsOf
<1>13. Range(p) = {u \in Range(q) : r[u] > 1}
  BY <1>10, <1>11
<1>14. s = [u \in {w \in Range(q) : r[w] > 1} |-> r[u] - 1]
  BY <1>10, <1>12, <1>13
<1> HIDE DEF Remaining, TicksUntil
<1> QED BY <1>2, <1>12, <1>14 DEF Clock!Tick, Clock!Sleepers

(* Every step of Kernel is a step of the countdowns, or none. *)
LEMMA ClockNext == ASSUME Inv, Inv', [Next]_vars PROVE ClockStep
<1>1. SleepInv /\ SleepInv' /\ sleeping \subseteq alive
  BY DEF Inv, FlagInv
<1>2. CASE UNCHANGED sleepVars
  <2>1. sleepQ' = sleepQ /\ sleepTime' = sleepTime
    BY <1>2 DEF sleepVars
  <2> QED BY <1>1, <2>1, ClockFrame DEF ClockStep
<1>3. CASE \E t \in Thread, b \in Bodies : ThreadCreate(t, b) \/ ThreadCreateOnly(t, b)
  <2>1. PICK t \in Thread, b \in Bodies : Construct(t, b)
    BY <1>3 DEF ThreadCreate, ThreadCreateOnly
  <2>2. sleepQ' = sleepQ /\ t \notin alive /\ sleepTime' = [sleepTime EXCEPT ![t] = 0]
    BY <1>3, <2>1 DEF Construct, ThreadCreate, ThreadCreateOnly
  <2>3. \A u \in sleeping : sleepTime'[u] = sleepTime[u]
    BY <1>1, <2>2
  <2> QED BY <1>1, <2>2, <2>3, ClockFrame DEF ClockStep
<1>4. CASE \E time \in 1..MaxSleep : TimeSleep(time)
  <2>1. PICK time \in 1..MaxSleep : PutSleeping(running, time) /\ ClientCalls
    BY <1>4 DEF TimeSleep
  <2>2. running \in Thread /\ running \notin sleeping
    <3>1. running # idle
      BY <2>1 DEF ClientCalls, Client, System
    <3> QED BY <3>1, RunningRunnable DEF Inv, CpuInv, Runnable
  <2>3. Clock!FallAsleep(running, time)
    BY <1>1, <2>1, <2>2, ClockInsert
  <2> QED BY <2>2, <2>3 DEF ClockStep, Clock!Next
<1>5. CASE InterruptTimer
  <2>1. PICK n \in 0..Len(sleepQ) : Wakes(n) /\ sleepQ' = SubSeq(sleepQ, n + 1, Len(sleepQ))
    BY <1>5 DEF InterruptTimer
  <2>2. Clock!Tick
    BY <1>1, <1>5, <2>1, ClockTick DEF InterruptTimer
  <2> QED BY <2>2 DEF ClockStep, Clock!Next
<1>6. CASE \/ ThreadExit \/ ThreadDispatch
           \/ \E t \in Thread : ThreadScheduleOnly(t) \/ ThreadDeleteOnly(t) \/ ThreadJoin(t)
           \/ \E s \in Sem : \/ \E init \in 0..MaxVal : SemOpen(s, init)
                             \/ SemClose(s) \/ SemWait(s) \/ SemSignal(s)
  <2>1. UNCHANGED sleepVars
    BY <1>6 DEF ThreadExit, ThreadDispatch, ThreadScheduleOnly, ThreadDeleteOnly, ThreadJoin,
                JoinTest, SemOpen, SemClose, SemWait, SemSignal, Wait, SignalFrame
  <2> QED BY <1>2, <2>1
<1>7. CASE KernelStep \/ DrainLoop \/ Putc \/ KProducer \/ RaiseTimer \/ UNCHANGED vars
  <2>1. UNCHANGED sleepVars
    BY <1>7 DEF KernelStep, DrainLoop, Putc, KProducer, RaiseTimer, vars, StartBody, ReturnFromEcall,
                ReturnFromTimer, JoinLoop, MainJoin, JoinTest, DrainAgain, LeaveDrain, Continue,
                Wait, SignalFrame
  <2> QED BY <1>2, <2>1
<1> QED BY <1>3, <1>4, <1>5, <1>6, <1>7 DEF Next, ClientSyscall

(* The sleep list of relative times implements one countdown per sleeper:  *)
(* nobody's deadline moves when others fall asleep, wake or are deleted.   *)
THEOREM KernelImplementsClock == ASSUME SafeDelete PROVE Spec => KeepsCountdowns
<1>1. Inv /\ Inv' /\ [Next]_vars => [Clock!Next]_Remaining
  BY ClockNext DEF ClockStep
<1> QED BY <1>1, ClockInit, Invariance, PTL DEF Spec, KeepsCountdowns, Clock!Spec
=============================================================================
