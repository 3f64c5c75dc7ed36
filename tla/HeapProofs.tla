------------------------------ MODULE HeapProofs ------------------------------
(***************************************************************************)
(* The heap is well formed in every reachable state, for every heap size,  *)
(* block size and modulus that HeapAssumption allows.  HeapInv says of the *)
(* two lists what the code keeps true of them: each is the ordered list of *)
(* a set of blocks (Linked), the two sets together tile the heap (Tiled),  *)
(* no two free blocks touch (Apart), and the allocated ones are those of   *)
(* the pointers returned and not freed (Met).  First come the facts about  *)
(* following a list, then what each helper of MemoryAllocator does to a    *)
(* well-formed heap, then mem_alloc and mem_free, the steps of KernelHeap, *)
(* and what follows from the invariant.                                    *)
(***************************************************************************)
EXTENDS KernelHeap, QueueLemmas

Headers == [next : Words \cup {Null}, prev : Words \cup {Null}, size : 0..(HeapEnd - HeapStart)]
Heaps == [heads : [List -> Words \cup {Null}], hdr : [Words -> Headers]]

(* Words are numbers above Null. *)
LEMMA WordsAre ==
  /\ HeapStart \in Nat /\ HeapEnd \in Nat /\ Header \in Nat /\ Block \in Nat /\ Modulus \in Nat
  /\ HeapStart > 0 /\ Header > 0 /\ Block > 0 /\ Header < Block /\ HeapStart < HeapEnd
  /\ HeapStart + Header <= HeapEnd /\ HeapEnd < Modulus
  /\ \A w \in Words : w \in Int /\ w # Null /\ w > Null /\ HeapStart <= w /\ w < HeapEnd
BY HeapAssumption DEF Words, Null

NextSet(h, r, a, to) ==
  /\ r \in Heaps /\ r.heads = h.heads
  /\ \A w \in Words : /\ r.hdr[w].size = h.hdr[w].size /\ r.hdr[w].prev = h.hdr[w].prev
                      /\ w = a => r.hdr[w].next = to
                      /\ w # a => r.hdr[w] = h.hdr[w]

(* Assigning the next link of a block changes that link alone; for Null it *)
(* changes nothing.                                                        *)
LEMMA SetNext ==
  ASSUME NEW h \in Heaps, NEW a \in Words \cup {Null}, NEW to \in Words \cup {Null},
         NEW r, r = SetLink(h, a, "next", to)
  PROVE  NextSet(h, r, a, to)
<1>1. CASE a = Null
  BY <1>1, WordsAre DEF SetLink, NextSet
<1>2. CASE a \in Words
  <2>1. r = [h EXCEPT !.hdr[a]["next"] = to]
    BY <1>2, WordsAre DEF SetLink
  <2>2. h.hdr \in [Words -> Headers] /\ h.heads \in [List -> Words \cup {Null}]
    BY DEF Heaps
  <2>3. h.hdr[a] = [next |-> h.hdr[a].next, prev |-> h.hdr[a].prev, size |-> h.hdr[a].size]
    BY <1>2, <2>2 DEF Headers
  <2> QED BY <1>2, <2>1, <2>2 DEF Heaps, Headers, NextSet
<1> QED BY <1>1, <1>2

(* Following next leads up. *)
Ascends(h) == \A w \in Words : h.hdr[w].next = Null \/ w < h.hdr[w].next

Upper(k) == {w \in Words : k <= w} \cup {Null}

(* The walk along next that From defines by recursion exists when the      *)
(* links ascend: it is built from the top of the heap downwards, one       *)
(* address at a time, and the least address it could not be built for does *)
(* not exist.                                                              *)
LEMMA ChainExists ==
  ASSUME NEW h \in Heaps, Ascends(h)
  PROVE  /\ From(h)[Null] = <<>>
         /\ \A a \in Words : From(h)[a] = <<a>> \o From(h)[h.hdr[a].next]
<1> DEFINE Walk(k, f) == f = [a \in Upper(k) |-> IF a = Null THEN <<>> ELSE <<a>> \o f[h.hdr[a].next]]
           K == {k \in HeapStart..HeapEnd : \E f : Walk(k, f)}
<1>1. K \in SUBSET Nat
  BY WordsAre
<1>2. HeapEnd \in K
  <2>1. Upper(HeapEnd) = {Null}
    BY WordsAre DEF Upper
  <2> DEFINE f == [a \in {Null} |-> <<>>]
  <2>2. Walk(HeapEnd, f)
    BY <2>1
  <2>3. \E e : Walk(HeapEnd, e)
    <3> HIDE DEF Walk, f
    <3> QED BY <2>2
  <2> HIDE DEF Walk
  <2> QED BY <2>3, WordsAre
<1>3. PICK k \in K : \A j \in K : k <= j
  BY <1>1, <1>2, Least
<1>4. ASSUME k # HeapStart PROVE FALSE
  <2>1. k \in HeapStart..HeapEnd /\ k - 1 \in Words
    BY <1>4, WordsAre DEF Words
  <2>2. PICK f : Walk(k, f)
    OBVIOUS
  <2> DEFINE b == k - 1
             n(a) == h.hdr[a].next
             g == [a \in Upper(b) |-> IF a = b THEN <<b>> \o f[n(b)] ELSE f[a]]
  <2>3. Upper(b) = Upper(k) \cup {b} /\ b \notin Upper(k) /\ b # Null
    BY <2>1, WordsAre DEF Upper
  <2>4. \A a \in Upper(b) \ {Null} : n(a) \in Upper(k)
    BY <2>1, WordsAre DEF Upper, Heaps, Headers, Ascends
  <2>5. ASSUME NEW a \in Upper(b)
        PROVE  g[a] = IF a = Null THEN <<>> ELSE <<a>> \o g[n(a)]
    <3>1. CASE a = b
      <4>1. g[n(b)] = f[n(b)]
        BY <2>3, <2>4
      <4> QED BY <3>1, <4>1, <2>3
    <3>2. CASE a = Null
      BY <2>2, <2>3, <3>2
    <3>3. CASE a # b /\ a # Null
      <4>1. g[n(a)] = f[n(a)]
        BY <2>3, <2>4, <3>3
      <4>2. g[a] = f[a] /\ a \in Upper(k)
        BY <2>3, <3>3
      <4> HIDE DEF g
      <4> QED BY <2>2, <3>3, <4>1, <4>2
    <3> QED BY <3>1, <3>2, <3>3
  <2>6. Walk(b, g)
    <3>1. g = [a \in Upper(b) |-> g[a]]
      OBVIOUS
    <3> HIDE DEF g
    <3> QED BY <2>5, <3>1
  <2>7. b \in K
    <3>1. \E e : Walk(b, e)
      <4> HIDE DEF Walk, g
      <4> QED BY <2>6
    <3> HIDE DEF Walk
    <3> QED BY <2>1, <3>1, WordsAre DEF Words
  <2> QED BY <1>3, <2>1, <2>7
<1>5. Upper(HeapStart) = Words \cup {Null}
  BY WordsAre DEF Upper
<1>6. PICK f : Walk(HeapStart, f)
  BY <1>3, <1>4
<1>7. From(h) = [a \in Words \cup {Null} |-> IF a = Null THEN <<>> ELSE <<a>> \o From(h)[h.hdr[a].next]]
  BY <1>5, <1>6 DEF From
<1> HIDE DEF Walk, K
<1> QED BY <1>7, WordsAre

(* n is the next member of S above a; p is the next one below. *)
After(S, a, n) ==
  \/ n = Null /\ \A b \in S : b <= a
  \/ n \in S /\ a < n /\ \A b \in S : b <= a \/ n <= b
Before(S, a, p) ==
  \/ p = Null /\ \A b \in S : a <= b
  \/ p \in S /\ p < a /\ \A b \in S : b <= p \/ a <= b

(* The list of h holds the blocks S, in the order of their addresses. *)
Linked(h, list, S) ==
  /\ After(S, Null, h.heads[list])
  /\ \A a \in S : After(S, a, h.hdr[a].next) /\ Before(S, a, h.hdr[a].prev)

(* Seen from block a on, the list is c. *)
Follows(h, S, a, c) ==
  /\ c \in Seq(Words) /\ c # <<>> /\ c[1] = a
  /\ Range(c) = {b \in S : a <= b}
  /\ \A i \in 1..Len(c) : IF i = Len(c) THEN h.hdr[c[i]].next = Null
                                        ELSE c[i + 1] = h.hdr[c[i]].next /\ c[i] < c[i + 1]

(* What a sequence with one more element in front of it is. *)
LEMMA PrefixedIs ==
  ASSUME NEW a \in Words, NEW s \in Seq(Words)
  PROVE  /\ <<a>> \o s \in Seq(Words) /\ <<a>> \o s # <<>>
         /\ Len(<<a>> \o s) = Len(s) + 1 /\ Len(s) \in Nat
         /\ (<<a>> \o s)[1] = a
         /\ \A i \in 1..Len(s) : (<<a>> \o s)[i + 1] = s[i]
         /\ Range(<<a>> \o s) = {a} \cup Range(s)
<1> PICK c : c = <<a>> \o s
  OBVIOUS
<1>1. /\ c \in Seq(Words) /\ c # <<>> /\ Len(c) = Len(s) + 1 /\ Len(s) \in Nat /\ c[1] = a
      /\ DOMAIN c = 1..Len(c) /\ DOMAIN s = 1..Len(s)
  OBVIOUS
<1>2. \A i \in 1..Len(s) : c[i + 1] = s[i]
  OBVIOUS
<1>3. ASSUME NEW x \in Range(c) PROVE x \in {a} \cup Range(s)
  <2>1. PICK i \in 1..Len(c) : x = c[i]
    BY <1>1 DEF Range
  <2>2. CASE i # 1
    <3>1. i - 1 \in 1..Len(s) /\ (i - 1) + 1 = i
      BY <1>1, <2>2
    <3> QED BY <1>1, <1>2, <2>1, <3>1 DEF Range
  <2> QED BY <1>1, <2>1, <2>2
<1>4. ASSUME NEW x \in {a} \cup Range(s) PROVE x \in Range(c)
  <2>1. CASE x = a
    BY <1>1, <2>1 DEF Range
  <2>2. CASE x \in Range(s)
    <3>1. PICK i \in 1..Len(s) : x = s[i]
      BY <1>1, <2>2 DEF Range
    <3>2. i + 1 \in DOMAIN c /\ c[i + 1] = x
      BY <1>1, <1>2, <3>1
    <3> QED BY <3>2 DEF Range
  <2> QED BY <2>1, <2>2
<1> QED BY <1>1, <1>2, <1>3, <1>4

(* Seen from any block of a list on, the walk meets the blocks of the list *)
(* that are not below it, each once and upwards.  Were there a block for   *)
(* which it does not, there would be a highest one.                        *)
LEMMA FollowsFrom ==
  ASSUME NEW h \in Heaps, Ascends(h), NEW list \in List, NEW S \in SUBSET Words, Linked(h, list, S)
  PROVE  \A a \in S : Follows(h, S, a, From(h)[a])
<1> DEFINE C(a) == From(h)[a]
           Bad == {a \in S : ~Follows(h, S, a, C(a))}
           D == {HeapEnd - a : a \in Bad}
<1>1. /\ C(Null) = <<>>
      /\ \A a \in Words : C(a) = <<a>> \o C(h.hdr[a].next)
  BY ChainExists
<1> HIDE DEF C
<1> SUFFICES ASSUME Bad # {} PROVE FALSE
  BY DEF C
<1>2. D \in SUBSET Nat /\ D # {}
  BY WordsAre
<1>3. PICK d \in D : \A e \in D : d <= e
  BY <1>2, Least
<1>4. PICK a \in Bad : d = HeapEnd - a
  OBVIOUS
<1>5. \A b \in Bad : b <= a
  BY <1>3, <1>4, WordsAre
<1>6. a \in S /\ a \in Words /\ \A b \in S : b > a => Follows(h, S, b, C(b))
  BY <1>5, WordsAre
<1>7. PICK n : n = h.hdr[a].next
  OBVIOUS
<1>8. C(a) = <<a>> \o C(n) /\ After(S, a, n)
  BY <1>1, <1>6, <1>7 DEF Linked
<1>9. ASSUME n = Null, \A b \in S : b <= a PROVE FALSE
  <2>1. PICK s : s = C(n) /\ s \in Seq(Words) /\ Range(s) = {} /\ Len(s) = 0
    <3>1. <<>> \in Seq(Words) /\ Len(<<>>) = 0 /\ Range(<<>>) = {}
      BY DEF Range
    <3> QED BY <1>1, <1>9, <3>1
  <2>2. PICK c : c = <<a>> \o s
    OBVIOUS
  <2>3. c \in Seq(Words) /\ c # <<>> /\ c[1] = a /\ Len(c) = Len(s) + 1 /\ Range(c) = {a} \cup Range(s)
    BY <1>6, <2>1, <2>2, PrefixedIs
  <2>6. Len(c) = 1 /\ Range(c) = {a}
    BY <2>1, <2>3
  <2>4. {b \in S : a <= b} = {a}
    BY <1>6, <1>9, WordsAre
  <2>5. Follows(h, S, a, c)
    <3>1. \A i \in 1..Len(c) : i = Len(c) /\ h.hdr[c[i]].next = Null
      <4> TAKE i \in 1..Len(c)
      <4>1. i = 1 /\ Len(c) = 1
        BY <2>6
      <4>2. c[i] = a
        BY <2>3, <4>1
      <4> QED BY <1>7, <1>9, <4>1, <4>2
    <3> QED BY <2>3, <2>4, <2>6, <3>1 DEF Follows
  <2> QED BY <1>8, <2>1, <2>2, <2>5
<1>10. ASSUME n \in S, a < n, \A b \in S : b <= a \/ n <= b PROVE FALSE
  <2>1. PICK s : s = C(n)
    OBVIOUS
  <2>2. Follows(h, S, n, s)
    BY <1>6, <1>10, <2>1
  <2>3. PICK c : c = <<a>> \o s
    OBVIOUS
  <2>4. s \in Seq(Words) /\ s # <<>> /\ s[1] = n /\ Len(s) \in Nat /\ Len(s) >= 1
    BY <2>2 DEF Follows
  <2>5. /\ c \in Seq(Words) /\ c # <<>> /\ Len(c) = Len(s) + 1 /\ c[1] = a
        /\ \A i \in 1..Len(s) : c[i + 1] = s[i]
        /\ Range(c) = {a} \cup Range(s)
    BY <1>6, <2>3, <2>4, PrefixedIs
  <2>6. Range(c) = {b \in S : a <= b}
    <3>1. Range(s) = {b \in S : n <= b}
      BY <2>2 DEF Follows
    <3> QED BY <1>6, <1>10, <2>5, <3>1, WordsAre
  <2>7. ASSUME NEW i \in 1..Len(c)
        PROVE  IF i = Len(c) THEN h.hdr[c[i]].next = Null
                             ELSE c[i + 1] = h.hdr[c[i]].next /\ c[i] < c[i + 1]
    <3>1. CASE i = 1
      <4>1. c[2] = n
        BY <2>4, <2>5
      <4> QED BY <1>7, <1>10, <2>4, <2>5, <3>1, <4>1
    <3>2. CASE i # 1
      <4>1. PICK j \in 1..Len(s) : i = j + 1
        <5>1. i - 1 \in 1..Len(s) /\ i = (i - 1) + 1
          BY <2>4, <2>5, <3>2
        <5> QED BY <5>1
      <4>2. c[i] = s[j] /\ (j # Len(s) => c[i + 1] = s[j + 1]) /\ (i = Len(c) <=> j = Len(s))
        BY <2>4, <2>5, <4>1
      <4>3. IF j = Len(s) THEN h.hdr[s[j]].next = Null
                          ELSE s[j + 1] = h.hdr[s[j]].next /\ s[j] < s[j + 1]
        BY <2>2 DEF Follows
      <4> QED BY <4>2, <4>3
    <3> QED BY <3>1, <3>2
  <2>8. Follows(h, S, a, c)
    BY <2>5, <2>6, <2>7 DEF Follows
  <2> QED BY <1>8, <2>1, <2>3, <2>8
<1> QED BY <1>8, <1>9, <1>10 DEF After

(* The walk through a list meets its blocks, each once and upwards. *)
LEMMA ChainOf ==
  ASSUME NEW h \in Heaps, Ascends(h), NEW list \in List, NEW S \in SUBSET Words, Linked(h, list, S)
  PROVE  /\ Chain(h, list) \in Seq(Words) /\ Range(Chain(h, list)) = S
         /\ Chain(h, list) = <<>> <=> h.heads[list] = Null
         /\ Chain(h, list) # <<>> => Chain(h, list)[1] = h.heads[list]
         /\ \A i \in 1..Len(Chain(h, list)) :
              IF i = Len(Chain(h, list)) THEN h.hdr[Chain(h, list)[i]].next = Null
              ELSE /\ Chain(h, list)[i + 1] = h.hdr[Chain(h, list)[i]].next
                   /\ Chain(h, list)[i] < Chain(h, list)[i + 1]
<1> PICK c, a : c = Chain(h, list) /\ a = h.heads[list]
  OBVIOUS
<1>1. After(S, Null, a)
  BY DEF Linked
<1>2. c = From(h)[a]
  BY DEF Chain
<1>3. CASE a = Null
  <2>1. c = <<>>
    BY <1>2, <1>3, ChainExists
  <2>2. S = {}
    BY <1>1, <1>3, WordsAre DEF After, Null
  <2>3. <<>> \in Seq(Words) /\ Range(<<>>) = {} /\ 1..Len(<<>>) = {}
    BY DEF Range
  <2> QED BY <1>3, <2>1, <2>2, <2>3
<1>4. CASE a # Null
  <2>1. a \in S /\ {b \in S : a <= b} = S
    BY <1>1, <1>4, WordsAre DEF After, Null
  <2>2. Follows(h, S, a, c)
    BY <1>2, <2>1, FollowsFrom
  <2> QED BY <1>4, <2>1, <2>2 DEF Follows
<1> QED BY <1>3, <1>4

PrevSet(h, r, a, to) ==
  /\ r \in Heaps /\ r.heads = h.heads
  /\ \A w \in Words : /\ r.hdr[w].size = h.hdr[w].size /\ r.hdr[w].next = h.hdr[w].next
                      /\ w = a => r.hdr[w].prev = to
                      /\ w # a => r.hdr[w] = h.hdr[w]

(* Assigning the prev link of a block changes that link alone. *)
LEMMA SetPrev ==
  ASSUME NEW h \in Heaps, NEW a \in Words \cup {Null}, NEW to \in Words \cup {Null},
         NEW r, r = SetLink(h, a, "prev", to)
  PROVE  PrevSet(h, r, a, to)
<1>1. CASE a = Null
  BY <1>1, WordsAre DEF SetLink, PrevSet
<1>2. CASE a \in Words
  <2>1. r = [h EXCEPT !.hdr[a]["prev"] = to]
    BY <1>2, WordsAre DEF SetLink
  <2>2. h.hdr \in [Words -> Headers] /\ h.heads \in [List -> Words \cup {Null}]
    BY DEF Heaps
  <2>3. h.hdr[a] = [next |-> h.hdr[a].next, prev |-> h.hdr[a].prev, size |-> h.hdr[a].size]
    BY <1>2, <2>2 DEF Headers
  <2> QED BY <1>2, <2>1, <2>2 DEF Heaps, Headers, PrevSet
<1> QED BY <1>1, <1>2

(* A list is not affected by what happens elsewhere. *)
LEMMA LinkedFrame ==
  ASSUME NEW h, NEW g, NEW list, NEW S, Linked(h, list, S), g.heads[list] = h.heads[list],
         \A a \in S : g.hdr[a].next = h.hdr[a].next /\ g.hdr[a].prev = h.hdr[a].prev
  PROVE  Linked(g, list, S)
BY DEF Linked

(* Assigning the head of a list. *)
LEMMA SetHead ==
  ASSUME NEW h \in Heaps, NEW list \in List, NEW to \in Words \cup {Null},
         NEW r, r = [h EXCEPT !.heads[list] = to]
  PROVE  /\ r \in Heaps /\ r.hdr = h.hdr /\ r.heads[list] = to
         /\ \A l \in List \ {list} : r.heads[l] = h.heads[l]
<1>1. h.hdr \in [Words -> Headers] /\ h.heads \in [List -> Words \cup {Null}]
  BY DEF Heaps
<1> QED BY <1>1 DEF Heaps

(* From h to r, only the links of the blocks in S and the head of their   *)
(* list change, so that it then holds the blocks T.                        *)
Relinked(h, r, list, S, T) ==
  /\ r \in Heaps /\ Linked(r, list, T)
  /\ \A l \in List \ {list} : r.heads[l] = h.heads[l]
  /\ \A w \in Words \ S : r.hdr[w] = h.hdr[w]
  /\ \A w \in Words : r.hdr[w].size = h.hdr[w].size

(* A block leaves its list. *)
LEMMA UnlinkIs ==
  ASSUME NEW h \in Heaps, NEW list \in List, NEW S \in SUBSET Words, Linked(h, list, S), NEW blk \in S,
         NEW r, r = Unlink(h, blk, list)
  PROVE  Relinked(h, r, list, S, S \ {blk}) /\ r.hdr[blk].next = Null
<1>0. PICK p, n : p = h.hdr[blk].prev /\ n = h.hdr[blk].next
  OBVIOUS
<1>1. After(S, blk, n) /\ Before(S, blk, p) /\ After(S, Null, h.heads[list])
  BY <1>0 DEF Linked
<1>2. /\ p \in S \cup {Null} /\ n \in S \cup {Null} /\ p # blk /\ n # blk /\ (p = n => p = Null)
      /\ blk \in Words /\ p \in Words \cup {Null} /\ n \in Words \cup {Null}
  BY <1>1, WordsAre DEF After, Before
<1>h1. PICK h1 : h1 = IF p # Null THEN SetLink(h, p, "next", n) ELSE [h EXCEPT !.heads[list] = n]
  OBVIOUS
<1>h2. PICK h2 : h2 = SetLink(h1, n, "prev", p)
  OBVIOUS
<1>h3. PICK h3 : h3 = SetLink(h2, blk, "next", Null)
  OBVIOUS
<1>3. r = SetLink(h3, blk, "prev", Null)
  BY <1>0, <1>h1, <1>h2, <1>h3 DEF Unlink
<1>4. /\ h1 \in Heaps
      /\ \A l \in List \ {list} : h1.heads[l] = h.heads[l]
      /\ h1.heads[list] = IF p = Null THEN n ELSE h.heads[list]
      /\ \A w \in Words : /\ h1.hdr[w].size = h.hdr[w].size /\ h1.hdr[w].prev = h.hdr[w].prev
                          /\ w = p => h1.hdr[w].next = n
                          /\ w # p => h1.hdr[w] = h.hdr[w]
  <2>1. CASE p # Null
    <3>1. h1 = SetLink(h, p, "next", n)
      BY <1>h1, <2>1
    <3>2. NextSet(h, h1, p, n)
      BY <1>2, <2>1, <3>1, SetNext
    <3> QED BY <2>1, <3>2 DEF NextSet
  <2>2. CASE p = Null
    <3>1. h1 = [h EXCEPT !.heads[list] = n]
      BY <1>h1, <2>2
    <3> QED BY <1>2, <2>2, <3>1, SetHead, WordsAre
  <2> QED BY <2>1, <2>2
<1>5. /\ h2 \in Heaps /\ h2.heads = h1.heads
      /\ \A w \in Words : /\ h2.hdr[w].size = h1.hdr[w].size /\ h2.hdr[w].next = h1.hdr[w].next
                          /\ w = n => h2.hdr[w].prev = p
                          /\ w # n => h2.hdr[w] = h1.hdr[w]
  <2>1. PrevSet(h1, h2, n, p)
    BY <1>2, <1>4, <1>h2, SetPrev
  <2> QED BY <2>1 DEF PrevSet
<1>6. /\ h3 \in Heaps /\ h3.heads = h1.heads
      /\ \A w \in Words : /\ h3.hdr[w].size = h2.hdr[w].size /\ h3.hdr[w].prev = h2.hdr[w].prev
                          /\ w = blk => h3.hdr[w].next = Null
                          /\ w # blk => h3.hdr[w] = h2.hdr[w]
  <2>1. NextSet(h2, h3, blk, Null)
    BY <1>2, <1>5, <1>h3, SetNext
  <2> QED BY <1>5, <2>1 DEF NextSet
<1>7. /\ r \in Heaps /\ r.heads = h1.heads
      /\ \A w \in Words : /\ r.hdr[w].size = h3.hdr[w].size /\ r.hdr[w].next = h3.hdr[w].next
                          /\ w = blk => r.hdr[w].prev = Null
                          /\ w # blk => r.hdr[w] = h3.hdr[w]
  <2>1. PrevSet(h3, r, blk, Null)
    BY <1>2, <1>3, <1>6, SetPrev
  <2> QED BY <1>6, <2>1 DEF PrevSet
<1>8. ASSUME NEW w \in Words
      PROVE  /\ r.hdr[w].size = h.hdr[w].size
             /\ w = blk => r.hdr[w].next = Null /\ r.hdr[w].prev = Null
             /\ w # blk => /\ r.hdr[w].next = IF w = p THEN n ELSE h.hdr[w].next
                           /\ r.hdr[w].prev = IF w = n THEN p ELSE h.hdr[w].prev
             /\ w \notin {blk, p, n} => r.hdr[w] = h.hdr[w]
  BY <1>0, <1>2, <1>4, <1>5, <1>6, <1>7
<1>9. After(S \ {blk}, Null, r.heads[list])
  <2>1. CASE p = Null
    BY <1>1, <1>4, <1>7, <2>1, WordsAre DEF After, Before, Null
  <2>2. CASE p # Null
    BY <1>1, <1>4, <1>7, <2>2, WordsAre DEF After, Before, Null
  <2> QED BY <2>1, <2>2
<1>10. ASSUME NEW a \in S \ {blk} PROVE After(S \ {blk}, a, r.hdr[a].next)
  <2>1. After(S, a, h.hdr[a].next)
    BY DEF Linked
  <2>2. CASE a = p
    BY <1>1, <1>8, <2>2, WordsAre DEF After, Before
  <2>3. CASE a # p
    <3>1. r.hdr[a].next = h.hdr[a].next
      BY <1>8, <2>3
    <3> QED BY <1>1, <2>1, <2>3, <3>1, WordsAre DEF After, Before
  <2> QED BY <2>2, <2>3
<1>11. ASSUME NEW a \in S \ {blk} PROVE Before(S \ {blk}, a, r.hdr[a].prev)
  <2>1. Before(S, a, h.hdr[a].prev)
    BY DEF Linked
  <2>2. CASE a = n
    BY <1>1, <1>8, <2>2, WordsAre DEF After, Before
  <2>3. CASE a # n
    <3>1. r.hdr[a].prev = h.hdr[a].prev
      BY <1>8, <2>3
    <3> QED BY <1>1, <2>1, <2>3, <3>1, WordsAre DEF After, Before
  <2> QED BY <2>2, <2>3
<1>12. Linked(r, list, S \ {blk})
  BY <1>9, <1>10, <1>11 DEF Linked
<1>13. \A l \in List \ {list} : r.heads[l] = h.heads[l]
  BY <1>4, <1>7
<1>14. \A w \in Words \ S : r.hdr[w] = h.hdr[w]
  BY <1>2, <1>8, WordsAre
<1> QED BY <1>2, <1>7, <1>8, <1>12, <1>13, <1>14 DEF Relinked

(* First chooses the least index. *)
LEMMA FirstIs ==
  ASSUME NEW S \in SUBSET Nat, S # {}
  PROVE  First(S) \in S /\ \A j \in S : First(S) <= j
BY Least DEF First

(* The walk of putIntoOrderedList stops at the block below blk. *)
LEMMA PlaceIs ==
  ASSUME NEW h \in Heaps, Ascends(h), NEW list \in List, NEW S \in SUBSET Words, Linked(h, list, S),
         NEW blk \in Words \ S, NEW c, c = Chain(h, list),
         NEW stops, stops = {i \in DOMAIN c : i = Len(c) \/ blk <= c[i + 1]},
         NEW cur, cur = IF c = <<>> \/ blk < c[1] THEN Null ELSE c[First(stops)]
  PROVE  Before(S, blk, cur)
<1>1. /\ c \in Seq(Words) /\ Range(c) = S
      /\ c = <<>> <=> h.heads[list] = Null
      /\ c # <<>> => c[1] = h.heads[list]
      /\ \A i \in 1..Len(c) : IF i = Len(c) THEN h.hdr[c[i]].next = Null
                              ELSE c[i + 1] = h.hdr[c[i]].next /\ c[i] < c[i + 1]
  BY ChainOf
<1>2. After(S, Null, h.heads[list])
  BY DEF Linked
<1>3. CASE c = <<>> \/ blk < c[1]
  <2>1. cur = Null /\ blk \in Int /\ \A b \in S : b \in Int /\ b # Null /\ b > Null
    BY <1>3, WordsAre
  <2>2. PICK first : first = h.heads[list]
    OBVIOUS
  <2>3. first = Null \/ (first \in S /\ blk < first /\ \A b \in S : first <= b)
    <3>1. CASE c = <<>>
      BY <1>1, <2>2, <3>1
    <3>2. CASE c # <<>>
      <4>1. first = c[1] /\ blk < first /\ first # Null
        BY <1>1, <1>3, <2>2, <3>2
      <4>2. first \in S /\ \A b \in S : b <= Null \/ first <= b
        BY <1>2, <2>2, <4>1 DEF After
      <4>3. Null \in Int
        BY DEF Null
      <4> QED BY <2>1, <4>1, <4>2, <4>3
    <3> QED BY <3>1, <3>2
  <2>4. first = Null => S = {}
    BY <1>2, <2>1, <2>2 DEF After, Null
  <2>5. \A b \in S : blk <= b
    <3>1. CASE first = Null
      BY <2>4, <3>1
    <3>2. CASE first # Null
      <4>1. first \in Int /\ blk < first /\ \A b \in S : first <= b
        BY <2>1, <2>3, <3>2
      <4> QED BY <2>1, <4>1
    <3> QED BY <3>1, <3>2
  <2> QED BY <2>1, <2>5 DEF Before
<1>4. CASE ~(c = <<>> \/ blk < c[1])
  <2>1. /\ Len(c) \in Nat /\ Len(c) >= 1 /\ DOMAIN c = 1..Len(c)
        /\ \A i \in 1..Len(c) : c[i] \in Words /\ c[i] \in S
    BY <1>1, <1>4 DEF Range
  <2>2. stops \in SUBSET Nat /\ stops # {}
    BY <2>1
  <2>3. PICK i : i = First(stops)
    OBVIOUS
  <2>4. i \in stops /\ \A j \in stops : i <= j
    BY <2>2, <2>3, FirstIs
  <2>5. i \in 1..Len(c) /\ cur = c[i] /\ cur \in S /\ cur \in Words
    BY <1>4, <2>1, <2>3, <2>4
  <2>6. cur < blk
    <3>1. CASE i = 1
      BY <1>4, <2>1, <2>5, <3>1, WordsAre
    <3>2. CASE i # 1
      <4>1. i - 1 \in 1..Len(c) /\ (i - 1) + 1 = i /\ i - 1 # Len(c)
        BY <2>1, <2>5, <3>2
      <4>2. i - 1 \notin stops
        BY <2>4, <4>1
      <4>3. ~(blk <= c[i])
        BY <2>1, <4>1, <4>2
      <4> QED BY <2>5, <4>3, WordsAre
    <3> QED BY <3>1, <3>2
  <2>7. After(S, cur, h.hdr[cur].next)
    BY <2>5 DEF Linked
  <2>8. PICK n : n = h.hdr[cur].next
    OBVIOUS
  <2>10. IF i = Len(c) THEN n = Null ELSE c[i + 1] = n /\ c[i] < c[i + 1]
    BY <1>1, <2>5, <2>8
  <2>11. n = Null \/ (n \in Words /\ blk <= n)
    <3>1. CASE i = Len(c)
      BY <2>10, <3>1
    <3>2. CASE i # Len(c)
      <4>1. blk <= c[i + 1] /\ i + 1 \in 1..Len(c)
        BY <2>1, <2>4, <2>5, <3>2
      <4> QED BY <2>1, <2>10, <3>2, <4>1
    <3> QED BY <3>1, <3>2
  <2>9. \A b \in S : b <= cur \/ blk <= b
    <3>1. \A b \in S : b \in Int /\ b # Null
      BY WordsAre
    <3>2. blk \in Int /\ After(S, cur, n)
      BY <2>7, <2>8, WordsAre
    <3>3. CASE n = Null
      BY <3>1, <3>2, <3>3 DEF After
    <3>4. CASE n # Null
      <4>1. n \in S /\ blk <= n /\ \A b \in S : b <= cur \/ n <= b
        BY <2>11, <3>2, <3>4 DEF After
      <4>2. cur \in Int /\ n \in Int
        BY <2>5, <3>1, <4>1
      <4>3. \A b \in S : n <= b => blk <= b
        BY <3>1, <3>2, <4>1, <4>2
      <4> QED BY <4>1, <4>3
    <3> QED BY <3>3, <3>4
  <2> QED BY <2>5, <2>6, <2>9 DEF Before
<1> QED BY <1>3, <1>4

(* A block is put into its place in a list. *)
LEMMA InsertIs ==
  ASSUME NEW h \in Heaps, Ascends(h), NEW list \in List, NEW S \in SUBSET Words, Linked(h, list, S),
         NEW blk \in Words \ S, NEW r, r = putIntoOrderedList(h, blk, list)
  PROVE  Relinked(h, r, list, S \cup {blk}, S \cup {blk})
<1>p. PICK p : p = Place(h, blk, list)
  OBVIOUS
<1>n. PICK n : n = IF p = Null THEN h.heads[list] ELSE h.hdr[p].next
  OBVIOUS
<1>h1. PICK h1 : h1 = SetLink(h, blk, "prev", p)
  OBVIOUS
<1>h2. PICK h2 : h2 = SetLink(h1, blk, "next", n)
  OBVIOUS
<1>h3. PICK h3 : h3 = SetLink(h2, n, "prev", blk)
  OBVIOUS
<1>r. r = IF p = Null THEN [h3 EXCEPT !.heads[list] = blk] ELSE SetLink(h3, p, "next", blk)
  BY <1>p, <1>n, <1>h1, <1>h2, <1>h3 DEF putIntoOrderedList, PutBehind
<1>1. Before(S, blk, p)
  BY <1>p, PlaceIs DEF Place
<1>2. /\ p \in S \cup {Null} /\ p \in Words \cup {Null} /\ blk \in Words
      /\ p = Null => After(S, Null, n) /\ n = h.heads[list]
      /\ p # Null => After(S, p, n) /\ n = h.hdr[p].next
  BY <1>1, <1>n, WordsAre DEF Before, Linked
<1>3. After(S, blk, n)
  BY <1>1, <1>2, WordsAre DEF Before, After, Null
<1>4. n \in S \cup {Null} /\ n \in Words \cup {Null} /\ p # blk /\ n # blk /\ (p = n => p = Null)
  BY <1>1, <1>2, <1>3, WordsAre DEF Before, After
<1>5. PrevSet(h, h1, blk, p)
  BY <1>2, <1>h1, SetPrev
<1>6. NextSet(h1, h2, blk, n)
  <2>1. h1 \in Heaps
    BY <1>5 DEF PrevSet
  <2> QED BY <1>2, <1>4, <1>h2, <2>1, SetNext
<1>7. PrevSet(h2, h3, n, blk)
  <2>1. h2 \in Heaps
    BY <1>6 DEF NextSet
  <2> QED BY <1>2, <1>4, <1>h3, <2>1, SetPrev
<1>8. /\ h3 \in Heaps /\ h3.heads = h.heads
      /\ \A w \in Words : /\ h3.hdr[w].size = h.hdr[w].size
                          /\ w = blk => h3.hdr[w].prev = p /\ h3.hdr[w].next = n
                          /\ w # blk => /\ h3.hdr[w].next = h.hdr[w].next
                                        /\ h3.hdr[w].prev = IF w = n THEN blk ELSE h.hdr[w].prev
                                        /\ w # n => h3.hdr[w] = h.hdr[w]
  BY <1>4, <1>5, <1>6, <1>7 DEF PrevSet, NextSet
<1>9. /\ r \in Heaps /\ \A l \in List \ {list} : r.heads[l] = h.heads[l]
      /\ r.heads[list] = IF p = Null THEN blk ELSE h.heads[list]
      /\ \A w \in Words : /\ r.hdr[w].size = h3.hdr[w].size /\ r.hdr[w].prev = h3.hdr[w].prev
                          /\ w = p => r.hdr[w].next = blk
                          /\ w # p => r.hdr[w] = h3.hdr[w]
  <2>1. CASE p # Null
    <3>1. NextSet(h3, r, p, blk)
      BY <1>2, <1>8, <1>r, <2>1, SetNext
    <3> QED BY <1>8, <2>1, <3>1 DEF NextSet
  <2>2. CASE p = Null
    <3>1. r = [h3 EXCEPT !.heads[list] = blk]
      BY <1>r, <2>2
    <3> QED BY <1>2, <1>8, <2>2, <3>1, SetHead, WordsAre
  <2> QED BY <2>1, <2>2
<1>10. ASSUME NEW w \in Words
       PROVE  /\ r.hdr[w].size = h.hdr[w].size
              /\ w = blk => r.hdr[w].next = n /\ r.hdr[w].prev = p
              /\ w # blk => /\ r.hdr[w].next = IF w = p THEN blk ELSE h.hdr[w].next
                            /\ r.hdr[w].prev = IF w = n THEN blk ELSE h.hdr[w].prev
              /\ w \notin {blk, p, n} => r.hdr[w] = h.hdr[w]
  BY <1>4, <1>8, <1>9
<1>11. After(S \cup {blk}, Null, r.heads[list])
  <2>1. CASE p = Null
    <3>1. \A b \in S : blk <= b
      BY <1>1, <2>1, WordsAre DEF Before
    <3>2. r.heads[list] = blk /\ blk > Null /\ blk <= blk
      BY <1>2, <1>9, <2>1, WordsAre
    <3> QED BY <1>2, <3>1, <3>2 DEF After, Null
  <2>2. CASE p # Null
    <3>1. After(S, Null, h.heads[list])
      BY DEF Linked
    <3> QED BY <1>1, <1>2, <1>9, <2>2, <3>1, WordsAre DEF After, Before, Null
  <2> QED BY <2>1, <2>2
<1>12. ASSUME NEW a \in S \cup {blk} PROVE After(S \cup {blk}, a, r.hdr[a].next)
  <2>1. CASE a = blk
    BY <1>2, <1>3, <1>10, <2>1, WordsAre DEF After
  <2>2. CASE a = p
    BY <1>1, <1>2, <1>4, <1>10, <2>2, WordsAre DEF Before, After
  <2>3. CASE a # blk /\ a # p
    <3>1. After(S, a, h.hdr[a].next) /\ a \in S
      BY <2>3 DEF Linked
    <3>2. r.hdr[a].next = h.hdr[a].next
      BY <1>10, <2>3
    <3> QED BY <1>1, <1>2, <1>3, <2>3, <3>1, <3>2, WordsAre DEF After, Before
  <2> QED BY <2>1, <2>2, <2>3
<1>13. ASSUME NEW a \in S \cup {blk} PROVE Before(S \cup {blk}, a, r.hdr[a].prev)
  <2>1. CASE a = blk
    BY <1>1, <1>2, <1>10, <2>1, WordsAre DEF Before
  <2>2. CASE a = n
    BY <1>2, <1>3, <1>4, <1>10, <2>2, WordsAre DEF Before, After
  <2>3. CASE a # blk /\ a # n
    <3>1. Before(S, a, h.hdr[a].prev) /\ a \in S
      BY <2>3 DEF Linked
    <3>2. r.hdr[a].prev = h.hdr[a].prev
      BY <1>10, <2>3
    <3> QED BY <1>1, <1>2, <1>3, <2>3, <3>1, <3>2, WordsAre DEF After, Before
  <2> QED BY <2>1, <2>2, <2>3
<1>14. Linked(r, list, S \cup {blk})
  BY <1>11, <1>12, <1>13 DEF Linked
<1>15. \A w \in Words \ (S \cup {blk}) : r.hdr[w] = h.hdr[w]
  BY <1>2, <1>4, <1>10, WordsAre
<1> QED BY <1>9, <1>10, <1>14, <1>15 DEF Relinked

Past(h, a) == a + Header + h.hdr[a].size

(* Without n, the members of S that were not next to n keep their          *)
(* neighbours,                                                             *)
LEMMA NeighboursStay ==
  ASSUME NEW S \in SUBSET Words, NEW n, NEW b, NEW c, c # n
  PROVE  (After(S, b, c) => After(S \ {n}, b, c)) /\ (Before(S, b, c) => Before(S \ {n}, b, c))
BY DEF After, Before

(* and those of n become neighbours of each other. *)
LEMMA NeighboursMeet ==
  ASSUME NEW S \in SUBSET Words, NEW a \in S, NEW n \in S, NEW m, After(S, a, n), After(S, n, m)
  PROVE  After(S \ {n}, a, m) /\ (m \in S => Before(S \ {n}, m, a))
<1>1. \A b \in S : b \in Int /\ b # Null
  BY WordsAre
<1>2. a \in Int /\ n \in Int /\ a < n /\ \A b \in S : b <= a \/ n <= b
  BY <1>1 DEF After
<1>3. CASE m = Null
  <2>1. \A b \in S : b <= n
    BY <1>1, <1>3 DEF After
  <2>2. \A b \in S \ {n} : b <= a
    BY <1>1, <1>2, <2>1
  <2> QED BY <1>1, <1>3, <2>2 DEF After
<1>4. CASE m # Null
  <2>1. m \in S /\ n < m /\ \A b \in S : b <= n \/ m <= b
    BY <1>4 DEF After
  <2>2. \A b \in S \ {n} : b <= a \/ m <= b
    BY <1>1, <1>2, <2>1
  <2>3. a < m /\ a \in S \ {n} /\ m \in S \ {n}
    BY <1>1, <1>2, <2>1
  <2> QED BY <2>2, <2>3 DEF After, Before
<1> QED BY <1>3, <1>4

(* A free block swallows the one behind it. *)
Swallowed(h, r, S, a, n) ==
  /\ r \in Heaps /\ r.heads = h.heads /\ Linked(r, "free", S \ {n})
  /\ r.hdr[n] = NoHeader /\ r.hdr[a].size = h.hdr[a].size + Header + h.hdr[n].size
  /\ \A w \in Words \ {a, n} : r.hdr[w].size = h.hdr[w].size
  /\ \A w \in Words \ S : r.hdr[w] = h.hdr[w]

(* When a free block swallows the one behind it, the free list holds the   *)
(* same blocks without that one, and only the sizes of the two differ.     *)
LEMMA SwallowIs ==
  ASSUME NEW h \in Heaps, NEW S \in SUBSET Words, Linked(h, "free", S), NEW a \in S,
         NEW n \in Words, n = h.hdr[a].next, Past(h, a) = n, Past(h, n) <= HeapEnd,
         NEW r, r = tryToJoin(h, a)
  PROVE  Swallowed(h, r, S, a, n)
<1>m. PICK m : m = h.hdr[n].next
  OBVIOUS
<1>z. PICK z : z = h.hdr[a].size + Header + h.hdr[n].size
  OBVIOUS
<1>1. /\ a \in Words /\ n # Null /\ n \in S /\ a < n /\ After(S, a, n) /\ After(S, n, m)
      /\ Before(S, n, h.hdr[n].prev)
  BY <1>m, WordsAre DEF Linked, After
<1>2. m \in Words \cup {Null} /\ m \in S \cup {Null} /\ m # a /\ m # n
  BY <1>1, WordsAre DEF After
<1>3. /\ h.hdr \in [Words -> Headers] /\ h.heads \in [List -> Words \cup {Null}]
      /\ h = [heads |-> h.heads, hdr |-> h.hdr]
      /\ \A w \in Words : /\ h.hdr[w].size \in Nat /\ h.hdr[w] \in Headers
                          /\ h.hdr[w] = [next |-> h.hdr[w].next, prev |-> h.hdr[w].prev, size |-> h.hdr[w].size]
  BY WordsAre DEF Heaps, Headers
<1>4. z \in 0..(HeapEnd - HeapStart)
  <2>1. PICK s, u \in Nat : s = h.hdr[a].size /\ u = h.hdr[n].size
    BY <1>1, <1>3
  <2>2. a + Header + s + Header + u <= HeapEnd
    BY <2>1, WordsAre DEF Past
  <2>3. PICK x, k, u0, u1 : x = a /\ k = Header /\ u0 = HeapStart /\ u1 = HeapEnd
    OBVIOUS
  <2>4. x \in Int /\ k \in Nat /\ u0 \in Nat /\ u1 \in Nat /\ u0 <= x
    BY <1>1, <2>3, WordsAre
  <2>5. z = s + k + u /\ x + k + s + k + u <= u1
    BY <1>z, <2>1, <2>2, <2>3
  <2>6. z \in 0..(u1 - u0)
    BY <2>1, <2>4, <2>5
  <2> QED BY <2>3, <2>6
<1>5. PICK q : q = [h EXCEPT !.hdr[a].size = JoinedSize(h, a, n), !.hdr[a].next = m, !.hdr[n] = NoHeader]
  OBVIOUS
<1>6. r = SetLink(q, m, "prev", a)
  BY <1>1, <1>m, <1>5, WordsAre DEF tryToJoin, Past
<1>7. NoHeader \in Headers
  BY WordsAre DEF NoHeader, Headers
<1>8. /\ q \in Heaps /\ q.heads = h.heads
      /\ q.hdr[n] = NoHeader
      /\ q.hdr[a].size = z /\ q.hdr[a].next = m /\ q.hdr[a].prev = h.hdr[a].prev
      /\ \A w \in Words \ {a, n} : q.hdr[w] = h.hdr[w]
  <2>1. PICK k : k = [next |-> m, prev |-> h.hdr[a].prev, size |-> z]
    OBVIOUS
  <2>2. k \in Headers
    BY <1>1, <1>2, <1>3, <1>4, <2>1 DEF Headers
  <2>3. q.heads = h.heads /\ q.hdr = [w \in Words |-> IF w = n THEN NoHeader ELSE IF w = a THEN k ELSE h.hdr[w]]
    <3>1. q = [[[h EXCEPT !.hdr[a].size = z] EXCEPT !.hdr[a].next = m] EXCEPT !.hdr[n] = NoHeader]
      BY <1>5, <1>z DEF JoinedSize
    <3>2. PICK x : x = [h EXCEPT !.hdr[a].size = z]
      OBVIOUS
    <3>3. PICK y : y = [x EXCEPT !.hdr[a].next = m]
      OBVIOUS
    <3>4. q = [y EXCEPT !.hdr[n] = NoHeader]
      BY <3>1, <3>2, <3>3
    <3>5. /\ x = [heads |-> h.heads, hdr |-> x.hdr]
          /\ x.hdr = [h.hdr EXCEPT ![a] = [next |-> h.hdr[a].next, prev |-> h.hdr[a].prev, size |-> z]]
      <4>1. x.heads = h.heads /\ x.hdr = [h.hdr EXCEPT ![a] = [h.hdr[a] EXCEPT !.size = z]]
        BY <1>1, <1>3, <3>2
      <4>2. PICK e : e = h.hdr[a]
        OBVIOUS
      <4>3. e = [next |-> e.next, prev |-> e.prev, size |-> e.size]
        BY <1>1, <1>3, <4>2
      <4>4. [e EXCEPT !.size = z] = [next |-> e.next, prev |-> e.prev, size |-> z]
        BY <4>3
      <4>5. x = [heads |-> x.heads, hdr |-> x.hdr]
        BY <1>3, <3>2
      <4> QED BY <4>1, <4>2, <4>4, <4>5
    <3>6. /\ y = [heads |-> h.heads, hdr |-> y.hdr]
          /\ y.hdr = [h.hdr EXCEPT ![a] = k]
      <4>1. PICK e : e = [next |-> h.hdr[a].next, prev |-> h.hdr[a].prev, size |-> z]
        OBVIOUS
      <4>2. x = [heads |-> x.heads, hdr |-> x.hdr] /\ x.heads = h.heads /\ x.hdr = [h.hdr EXCEPT ![a] = e]
        BY <3>5, <4>1
      <4>3. x.hdr[a] = e
        BY <1>1, <1>3, <4>2
      <4>4. [e EXCEPT !.next = m] = k
        BY <2>1, <4>1
      <4>5. y = [heads |-> y.heads, hdr |-> y.hdr] /\ y.heads = x.heads
            /\ y.hdr = [x.hdr EXCEPT ![a] = [x.hdr[a] EXCEPT !.next = m]]
        BY <3>3, <4>2
      <4>6. y.hdr = [[h.hdr EXCEPT ![a] = e] EXCEPT ![a] = k]
        BY <4>2, <4>3, <4>4, <4>5
      <4>7. y.hdr = [h.hdr EXCEPT ![a] = k]
        BY <1>3, <4>6
      <4> QED BY <4>2, <4>5, <4>7
    <3>7. q.heads = h.heads /\ q.hdr = [y.hdr EXCEPT ![n] = NoHeader]
      BY <3>4, <3>6
    <3> QED BY <1>1, <1>3, <3>6, <3>7
  <2>4. q = [heads |-> q.heads, hdr |-> q.hdr]
    BY <1>3, <1>5
  <2>5. q.hdr \in [Words -> Headers]
    BY <1>3, <1>7, <2>2, <2>3
  <2>6. q \in Heaps
    BY <1>3, <2>3, <2>4, <2>5 DEF Heaps
  <2> QED BY <1>1, <2>1, <2>3, <2>6, WordsAre
<1>9. PrevSet(q, r, m, a)
  BY <1>1, <1>2, <1>6, <1>8, SetPrev
<1>10. /\ r \in Heaps /\ r.heads = h.heads /\ r.hdr[n] = NoHeader
       /\ r.hdr[a].size = z /\ r.hdr[a].next = m /\ r.hdr[a].prev = h.hdr[a].prev
       /\ \A w \in Words \ {a, n} : /\ r.hdr[w].size = h.hdr[w].size /\ r.hdr[w].next = h.hdr[w].next
                                    /\ r.hdr[w].prev = IF w = m THEN a ELSE h.hdr[w].prev
                                    /\ w # m => r.hdr[w] = h.hdr[w]
  <2>1. /\ r \in Heaps /\ r.heads = q.heads
        /\ \A w \in Words : /\ r.hdr[w].size = q.hdr[w].size /\ r.hdr[w].next = q.hdr[w].next
                            /\ w = m => r.hdr[w].prev = a
                            /\ w # m => r.hdr[w] = q.hdr[w]
    BY <1>9 DEF PrevSet
  <2>2. r.heads = h.heads /\ r.hdr[n] = NoHeader
    BY <1>2, <1>8, <2>1
  <2>3. r.hdr[a].size = z /\ r.hdr[a].next = m /\ r.hdr[a].prev = h.hdr[a].prev
    BY <1>1, <1>2, <1>8, <2>1
  <2>4. ASSUME NEW w \in Words \ {a, n}
        PROVE  /\ r.hdr[w].size = h.hdr[w].size /\ r.hdr[w].next = h.hdr[w].next
               /\ r.hdr[w].prev = IF w = m THEN a ELSE h.hdr[w].prev
               /\ w # m => r.hdr[w] = h.hdr[w]
    <3>1. q.hdr[w] = h.hdr[w]
      BY <1>8
    <3> QED BY <2>1, <3>1
  <2> QED BY <2>1, <2>2, <2>3, <2>4
<1>11. After(S \ {n}, Null, r.heads["free"])
  <2>1. After(S, Null, h.heads["free"])
    BY DEF Linked
  <2>2. \A b \in S : b \in Int /\ b # Null /\ b > Null
    BY WordsAre
  <2>3. h.heads["free"] # n
    <3>1. SUFFICES ASSUME h.heads["free"] = n PROVE FALSE
      OBVIOUS
    <3>2. \A b \in S : b <= Null \/ n <= b
      BY <1>1, <2>1, <3>1 DEF After
    <3>3. a \in Int /\ n \in Int /\ Null \in Int /\ a > Null /\ a < n
      BY <1>1, <2>2 DEF Null
    <3> QED BY <3>2, <3>3
  <2>4. PICK first : first = h.heads["free"]
    OBVIOUS
  <2>5. After(S \ {n}, Null, first)
    BY <2>1, <2>3, <2>4, NeighboursStay
  <2> QED BY <1>10, <2>4, <2>5
<1>12. ASSUME NEW b \in S \ {n} PROVE After(S \ {n}, b, r.hdr[b].next)
  <2>1. CASE b = a
    BY <1>1, <1>10, <2>1, NeighboursMeet
  <2>2. CASE b # a
    <3>1. After(S, b, h.hdr[b].next) /\ r.hdr[b].next = h.hdr[b].next
      BY <1>10, <2>2 DEF Linked
    <3>2. \A w \in S : w \in Int /\ w # Null
      BY WordsAre
    <3>3. h.hdr[b].next # n
      BY <1>1, <2>2, <3>1, <3>2 DEF After
    <3> QED BY <3>1, <3>3, NeighboursStay
  <2> QED BY <2>1, <2>2
<1>13. ASSUME NEW b \in S \ {n} PROVE Before(S \ {n}, b, r.hdr[b].prev)
  <2>1. Before(S, b, h.hdr[b].prev) /\ b \in Words
    BY DEF Linked
  <2>4. \A w \in S : w \in Int /\ w # Null
    BY WordsAre
  <2>2. CASE b = m
    <3>1. r.hdr[b].prev = a
      <4>1. CASE b = a
        BY <1>2, <2>2, <4>1
      <4>2. CASE b # a
        BY <1>10, <2>1, <2>2, <4>2
      <4> QED BY <4>1, <4>2
    <3> QED BY <1>1, <2>2, <3>1, NeighboursMeet
  <2>3. CASE b # m
    <3>1. r.hdr[b].prev = h.hdr[b].prev
      BY <1>10, <2>1, <2>3
    <3>2. h.hdr[b].prev # n
      <4>1. SUFFICES ASSUME n < b, \A c \in S : c <= n \/ b <= c PROVE FALSE
        BY <1>1, <2>1, <2>4 DEF Before
      <4> QED BY <1>1, <2>3, <2>4, <4>1 DEF After
    <3> QED BY <2>1, <3>1, <3>2, NeighboursStay
  <2> QED BY <2>2, <2>3
<1>14. Linked(r, "free", S \ {n})
  BY <1>11, <1>12, <1>13 DEF Linked
<1>15. \A w \in Words \ S : r.hdr[w] = h.hdr[w]
  BY <1>1, <1>2, <1>10, WordsAre
<1> QED BY <1>1, <1>z, <1>10, <1>14, <1>15 DEF Swallowed

(* tryToJoin leaves the heap as it is unless a touches the next block. *)
LEMMA JoinNot ==
  ASSUME NEW h, NEW a, a = Null \/ h.hdr[a].next = Null \/ Past(h, a) # h.hdr[a].next
  PROVE  tryToJoin(h, a) = h
BY DEF tryToJoin, Past

(* The blocks B lie side by side and fill the heap. *)
Tiled(h, B) ==
  /\ \A a \in B : Past(h, a) <= HeapEnd
  /\ \A a, b \in B : a < b => Past(h, a) <= b
  /\ \A w \in Words : \E a \in B : a <= w /\ w < Past(h, a)

Apart(h, F) == \A a, b \in F : Past(h, a) # b

(* The heap h has the free blocks F and the allocated blocks A. *)
Well(h, F, A) ==
  /\ h \in Heaps /\ F \in SUBSET Words /\ A \in SUBSET Words /\ F \cap A = {}
  /\ Linked(h, "free", F) /\ Linked(h, "alloc", A)
  /\ \A w \in Words \ (F \cup A) : h.hdr[w] = NoHeader
  /\ Tiled(h, F \cup A)

(* The same, with the block t in neither list. *)
Loose(h, F, A, t) ==
  /\ h \in Heaps /\ F \in SUBSET Words /\ A \in SUBSET Words /\ F \cap A = {}
  /\ t \in Words /\ t \notin F \cup A
  /\ Linked(h, "free", F) /\ Linked(h, "alloc", A)
  /\ h.hdr[t].next = Null
  /\ \A w \in Words \ (F \cup A \cup {t}) : h.hdr[w] = NoHeader
  /\ Tiled(h, F \cup A \cup {t})

(* Whether blocks fill the heap depends on their sizes alone. *)
LEMMA TiledFrame ==
  ASSUME NEW h, NEW r, NEW B, Tiled(h, B), \A a \in B : r.hdr[a].size = h.hdr[a].size
  PROVE  Tiled(r, B)
<1>1. \A a \in B : Past(r, a) = Past(h, a)
  BY DEF Past
<1> QED BY <1>1 DEF Tiled

(* Sizes are numbers, and a block ends above its start. *)
LEMMA SizesAre ==
  ASSUME NEW h \in Heaps
  PROVE  \A w \in Words : h.hdr[w].size \in Nat /\ Past(h, w) \in Int /\ Past(h, w) > w
<1>1. \A w \in Words : h.hdr[w].size \in Nat
  BY WordsAre DEF Heaps, Headers
<1> QED BY <1>1, WordsAre DEF Past

(* Links lead up while a block is in neither list, *)
LEMMA LooseAscends ==
  ASSUME NEW h, NEW F, NEW A, NEW t, Loose(h, F, A, t)
  PROVE  Ascends(h)
<1>1. \A w \in F \cup A : h.hdr[w].next = Null \/ w < h.hdr[w].next
  BY DEF Loose, Linked, After
<1>2. \A w \in Words \ (F \cup A \cup {t}) : h.hdr[w].next = Null
  BY DEF Loose, NoHeader
<1> QED BY <1>1, <1>2 DEF Loose, Ascends

(* and when every block is in one. *)
LEMMA WellAscends ==
  ASSUME NEW h, NEW F, NEW A, Well(h, F, A)
  PROVE  Ascends(h)
<1>1. \A w \in F \cup A : h.hdr[w].next = Null \/ w < h.hdr[w].next
  BY DEF Well, Linked, After
<1>2. \A w \in Words \ (F \cup A) : h.hdr[w].next = Null
  BY DEF Well, NoHeader
<1> QED BY <1>1, <1>2 DEF Ascends

(* A loose block becomes allocated, or free. *)
LEMMA InsertAlloc ==
  ASSUME NEW h, NEW F, NEW A, NEW t, Loose(h, F, A, t), NEW r, r = putIntoOrderedList(h, t, "alloc")
  PROVE  Well(r, F, A \cup {t}) /\ \A w \in Words : r.hdr[w].size = h.hdr[w].size
<1>1. /\ r \in Heaps /\ Linked(r, "alloc", A \cup {t}) /\ r.heads["free"] = h.heads["free"]
      /\ \A w \in Words \ (A \cup {t}) : r.hdr[w] = h.hdr[w]
      /\ \A w \in Words : r.hdr[w].size = h.hdr[w].size
  <2>1. Ascends(h) /\ h \in Heaps /\ A \in SUBSET Words /\ Linked(h, "alloc", A) /\ t \in Words \ A
    BY LooseAscends DEF Loose
  <2>2. "alloc" \in List /\ "free" \in List \ {"alloc"}
    BY DEF List
  <2>3. Relinked(h, r, "alloc", A \cup {t}, A \cup {t})
    BY <2>1, <2>2, InsertIs
  <2> QED BY <2>2, <2>3 DEF Relinked
<1>2. Linked(r, "free", F)
  <2>1. \A a \in F : r.hdr[a] = h.hdr[a]
    BY <1>1 DEF Loose
  <2> QED BY <1>1, <2>1, LinkedFrame DEF Loose
<1>3. Tiled(r, F \cup (A \cup {t}))
  <2>1. F \cup (A \cup {t}) = F \cup A \cup {t} /\ F \cup A \cup {t} \subseteq Words
    BY DEF Loose
  <2>2. Tiled(h, F \cup A \cup {t})
    BY DEF Loose
  <2>3. \A a \in F \cup A \cup {t} : r.hdr[a].size = h.hdr[a].size
    BY <1>1, <2>1
  <2>4. Tiled(r, F \cup A \cup {t})
    BY <2>2, <2>3, TiledFrame
  <2> QED BY <2>1, <2>4
<1> QED BY <1>1, <1>2, <1>3 DEF Well, Loose

(* A loose block becomes free: no size changes. *)
LEMMA InsertFree ==
  ASSUME NEW h, NEW F, NEW A, NEW t, Loose(h, F, A, t), NEW r, r = putIntoOrderedList(h, t, "free")
  PROVE  Well(r, F \cup {t}, A) /\ \A w \in Words : r.hdr[w].size = h.hdr[w].size
<1>1. /\ r \in Heaps /\ Linked(r, "free", F \cup {t}) /\ r.heads["alloc"] = h.heads["alloc"]
      /\ \A w \in Words \ (F \cup {t}) : r.hdr[w] = h.hdr[w]
      /\ \A w \in Words : r.hdr[w].size = h.hdr[w].size
  <2>1. Ascends(h) /\ h \in Heaps /\ F \in SUBSET Words /\ Linked(h, "free", F) /\ t \in Words \ F
    BY LooseAscends DEF Loose
  <2>2. "free" \in List /\ "alloc" \in List \ {"free"}
    BY DEF List
  <2>3. Relinked(h, r, "free", F \cup {t}, F \cup {t})
    BY <2>1, <2>2, InsertIs
  <2> QED BY <2>2, <2>3 DEF Relinked
<1>2. Linked(r, "alloc", A)
  <2>1. \A a \in A : r.hdr[a] = h.hdr[a]
    BY <1>1 DEF Loose
  <2> QED BY <1>1, <2>1, LinkedFrame DEF Loose
<1>3. Tiled(r, F \cup {t} \cup A)
  <2>1. F \cup {t} \cup A = F \cup A \cup {t} /\ F \cup A \cup {t} \subseteq Words
    BY DEF Loose
  <2>2. Tiled(h, F \cup A \cup {t})
    BY DEF Loose
  <2>3. \A a \in F \cup A \cup {t} : r.hdr[a].size = h.hdr[a].size
    BY <1>1, <2>1
  <2>4. Tiled(r, F \cup A \cup {t})
    BY <2>2, <2>3, TiledFrame
  <2> QED BY <2>1, <2>4
<1> QED BY <1>1, <1>2, <1>3 DEF Well, Loose

(* A free block, or an allocated one, leaves its list. *)
LEMMA RemoveFree ==
  ASSUME NEW h, NEW F, NEW A, Well(h, F, A), NEW t \in F, NEW r, r = Unlink(h, t, "free")
  PROVE  Loose(r, F \ {t}, A, t) /\ \A w \in Words : r.hdr[w].size = h.hdr[w].size
<1>1. /\ r \in Heaps /\ Linked(r, "free", F \ {t}) /\ r.heads["alloc"] = h.heads["alloc"]
      /\ \A w \in Words \ F : r.hdr[w] = h.hdr[w]
      /\ \A w \in Words : r.hdr[w].size = h.hdr[w].size
      /\ r.hdr[t].next = Null
  <2>1. h \in Heaps /\ F \in SUBSET Words /\ Linked(h, "free", F)
    BY DEF Well
  <2>2. "free" \in List /\ "alloc" \in List \ {"free"}
    BY DEF List
  <2>3. Relinked(h, r, "free", F, F \ {t}) /\ r.hdr[t].next = Null
    BY <2>1, <2>2, UnlinkIs
  <2> QED BY <2>2, <2>3 DEF Relinked
<1>2. Linked(r, "alloc", A)
  <2>1. \A a \in A : r.hdr[a] = h.hdr[a]
    BY <1>1 DEF Well
  <2> QED BY <1>1, <2>1, LinkedFrame DEF Well
<1>3. Tiled(r, (F \ {t}) \cup A \cup {t})
  <2>1. (F \ {t}) \cup A \cup {t} = F \cup A /\ F \cup A \subseteq Words
    BY DEF Well
  <2>2. Tiled(h, F \cup A)
    BY DEF Well
  <2>3. \A a \in F \cup A : r.hdr[a].size = h.hdr[a].size
    BY <1>1, <2>1
  <2>4. Tiled(r, F \cup A)
    BY <2>2, <2>3, TiledFrame
  <2> QED BY <2>1, <2>4
<1> QED BY <1>1, <1>2, <1>3 DEF Well, Loose

(* An allocated block leaves its list: no size changes. *)
LEMMA RemoveAlloc ==
  ASSUME NEW h, NEW F, NEW A, Well(h, F, A), NEW t \in A, NEW r, r = Unlink(h, t, "alloc")
  PROVE  Loose(r, F, A \ {t}, t) /\ \A w \in Words : r.hdr[w].size = h.hdr[w].size
<1>1. /\ r \in Heaps /\ Linked(r, "alloc", A \ {t}) /\ r.heads["free"] = h.heads["free"]
      /\ \A w \in Words \ A : r.hdr[w] = h.hdr[w]
      /\ \A w \in Words : r.hdr[w].size = h.hdr[w].size
      /\ r.hdr[t].next = Null
  <2>1. h \in Heaps /\ A \in SUBSET Words /\ Linked(h, "alloc", A)
    BY DEF Well
  <2>2. "alloc" \in List /\ "free" \in List \ {"alloc"}
    BY DEF List
  <2>3. Relinked(h, r, "alloc", A, A \ {t}) /\ r.hdr[t].next = Null
    BY <2>1, <2>2, UnlinkIs
  <2> QED BY <2>2, <2>3 DEF Relinked
<1>2. Linked(r, "free", F)
  <2>1. \A a \in F : r.hdr[a] = h.hdr[a]
    BY <1>1 DEF Well
  <2> QED BY <1>1, <2>1, LinkedFrame DEF Well
<1>3. Tiled(r, F \cup (A \ {t}) \cup {t})
  <2>1. F \cup (A \ {t}) \cup {t} = F \cup A /\ F \cup A \subseteq Words
    BY DEF Well
  <2>2. Tiled(h, F \cup A)
    BY DEF Well
  <2>3. \A a \in F \cup A : r.hdr[a].size = h.hdr[a].size
    BY <1>1, <2>1
  <2>4. Tiled(r, F \cup A)
    BY <2>2, <2>3, TiledFrame
  <2> QED BY <2>1, <2>4
<1> QED BY <1>1, <1>2, <1>3 DEF Well, Loose

(* A number below the modulus is its own remainder. *)
LEMMA SmallMod ==
  ASSUME NEW m \in Nat, NEW x \in Nat, x < m
  PROVE  x % m = x
OBVIOUS

(* A block is cut: its far end becomes the loose block t. *)
Cut(h, r, F, A, blk, t, need) ==
  /\ Loose(r, F, A, t) /\ r.hdr[t].size = need
  /\ \A w \in Words \ {blk, t} : r.hdr[w] = h.hdr[w]
  /\ Past(r, blk) = t

(* getFromFreeList, when it splits blk: what is left of blk stays in the   *)
(* free list, the far end is loose, and the blocks still fill the heap.    *)
LEMMA CutIs ==
  ASSUME NEW h, NEW F, NEW A, Well(h, F, A), NEW blk \in F, NEW need \in Nat, NEW rem \in Nat,
         h.hdr[blk].size = rem + Header + need, NEW t, t = blk + Header + rem,
         NEW r, r = [h EXCEPT !.hdr[blk].size = rem, !.hdr[t] = [NoHeader EXCEPT !.size = need]]
  PROVE  Cut(h, r, F, A, blk, t, need)
<1>1. /\ blk \in Words /\ blk \in F \cup A /\ h \in Heaps /\ F \cup A \in SUBSET Words
      /\ Tiled(h, F \cup A) /\ Past(h, blk) = t + Header + need /\ Past(h, blk) <= HeapEnd
  <2>1. blk \in Words /\ blk \in F \cup A /\ h \in Heaps /\ F \cup A \in SUBSET Words /\ Tiled(h, F \cup A)
    BY DEF Well
  <2>2. Past(h, blk) = t + Header + need
    BY <2>1, WordsAre DEF Past
  <2> QED BY <2>1, <2>2 DEF Tiled
<1>2. t \in Words /\ blk < t /\ t < Past(h, blk) /\ need <= HeapEnd - HeapStart /\ rem <= HeapEnd - HeapStart
  <2>1. t \in Int /\ blk < t /\ t < Past(h, blk) /\ need <= HeapEnd - HeapStart /\ rem <= HeapEnd - HeapStart
        /\ HeapStart <= t /\ t < HeapEnd
    BY <1>1, WordsAre
  <2> QED BY <2>1, WordsAre DEF Words
<1>3. t \notin F \cup A
  BY <1>1, <1>2, WordsAre DEF Tiled
<1>4. /\ h.hdr \in [Words -> Headers] /\ h.heads \in [List -> Words \cup {Null}]
      /\ h = [heads |-> h.heads, hdr |-> h.hdr]
      /\ h.hdr[blk] = [next |-> h.hdr[blk].next, prev |-> h.hdr[blk].prev, size |-> h.hdr[blk].size]
      /\ h.hdr[blk].next \in Words \cup {Null} /\ h.hdr[blk].prev \in Words \cup {Null}
  BY <1>1 DEF Heaps, Headers
<1>5. PICK k, j : /\ k = [next |-> h.hdr[blk].next, prev |-> h.hdr[blk].prev, size |-> rem]
                  /\ j = [next |-> Null, prev |-> Null, size |-> need]
  OBVIOUS
<1>6. k \in Headers /\ j \in Headers
  BY <1>2, <1>4, <1>5, WordsAre DEF Headers
<1>7. /\ r = [heads |-> h.heads, hdr |-> r.hdr]
      /\ r.hdr = [[h.hdr EXCEPT ![blk] = k] EXCEPT ![t] = j]
  <2>1. r = [[h EXCEPT !.hdr[blk].size = rem] EXCEPT !.hdr[t] = j]
    <3>1. [NoHeader EXCEPT !.size = need] = j
      BY <1>5 DEF NoHeader
    <3> QED BY <3>1
  <2>2. PICK x : x = [h EXCEPT !.hdr[blk].size = rem]
    OBVIOUS
  <2>3. x.heads = h.heads /\ x.hdr = [h.hdr EXCEPT ![blk] = [h.hdr[blk] EXCEPT !.size = rem]]
    BY <1>1, <1>4, <2>2
  <2>4. PICK e : e = h.hdr[blk]
    OBVIOUS
  <2>5. [e EXCEPT !.size = rem] = [next |-> e.next, prev |-> e.prev, size |-> rem]
    BY <1>4, <2>4
  <2>6. x = [heads |-> x.heads, hdr |-> x.hdr]
    BY <1>4, <2>2
  <2>7. x.hdr = [h.hdr EXCEPT ![blk] = k]
    BY <1>5, <2>3, <2>4, <2>5
  <2>8. r = [x EXCEPT !.hdr[t] = j]
    BY <2>1, <2>2
  <2> QED BY <2>3, <2>6, <2>7, <2>8
<1>8. /\ r \in Heaps /\ r.heads = h.heads /\ r.hdr[blk] = k /\ r.hdr[t] = j
      /\ \A w \in Words \ {blk, t} : r.hdr[w] = h.hdr[w]
  <2>1. r.hdr \in [Words -> Headers]
    <3>1. PICK g : g = h.hdr /\ g \in [Words -> Headers]
      BY <1>4
    <3>2. [g EXCEPT ![blk] = k] \in [Words -> Headers]
      BY <1>6, <3>1
    <3>3. [[g EXCEPT ![blk] = k] EXCEPT ![t] = j] \in [Words -> Headers]
      BY <1>6, <3>2
    <3> QED BY <1>7, <3>1, <3>3
  <2>2. r.heads = h.heads
    BY <1>7
  <2>3. r \in Heaps
    BY <1>4, <1>7, <2>1 DEF Heaps
  <2> QED BY <1>1, <1>2, <1>4, <1>7, <2>2, <2>3, WordsAre
<1>9. r.hdr[blk].size = rem /\ r.hdr[t].size = need /\ r.hdr[t].next = Null
  BY <1>5, <1>8
<1>10. Past(r, blk) = t /\ Past(r, t) = Past(h, blk)
  BY <1>1, <1>9, WordsAre DEF Past
<1>11. Linked(r, "free", F)
  <2>1. \A a \in F : r.hdr[a].next = h.hdr[a].next /\ r.hdr[a].prev = h.hdr[a].prev
    BY <1>1, <1>3, <1>5, <1>8
  <2> QED BY <1>8, <2>1, LinkedFrame DEF Well
<1>12. Linked(r, "alloc", A)
  <2>1. \A a \in A : r.hdr[a].next = h.hdr[a].next /\ r.hdr[a].prev = h.hdr[a].prev
    BY <1>1, <1>3, <1>8 DEF Well
  <2> QED BY <1>8, <2>1, LinkedFrame DEF Well
<1>13. Tiled(r, F \cup A \cup {t})
  <2>1. \A a \in (F \cup A) \ {blk} : Past(r, a) = Past(h, a) /\ Past(h, a) \in Int
    <3>1. \A a \in (F \cup A) \ {blk} : a \in Words \ {blk, t}
      BY <1>1, <1>3
    <3> QED BY <1>1, <1>8, <3>1, SizesAre DEF Past
  <2>2. ASSUME NEW a \in F \cup A \cup {t} PROVE Past(r, a) <= HeapEnd
    BY <1>1, <1>2, <1>10, <2>1, WordsAre DEF Tiled
  <2>3. ASSUME NEW a \in F \cup A \cup {t}, NEW b \in F \cup A \cup {t}, a < b PROVE Past(r, a) <= b
    <3>1. a \in F \cup A /\ b \in F \cup A => Past(h, a) <= b
      BY <1>1, <2>3 DEF Tiled
    <3>2. CASE a = blk
      <4>1. CASE b = t
        BY <1>10, <1>2, <3>2, <4>1, WordsAre
      <4>2. CASE b # t
        BY <1>1, <1>2, <1>10, <2>3, <3>1, <3>2, <4>2, WordsAre
      <4> QED BY <4>1, <4>2
    <3>3. CASE a = t
      <4>1. b \in F \cup A /\ blk < b
        BY <1>1, <1>2, <2>3, <3>3, WordsAre
      <4>2. Past(h, blk) <= b
        BY <1>1, <4>1 DEF Tiled
      <4> QED BY <1>10, <3>3, <4>2
    <3>4. CASE a # blk /\ a # t
      <4>1. a \in F \cup A /\ Past(r, a) = Past(h, a) /\ Past(h, a) \in Int
        BY <2>1, <3>4
      <4>2. CASE b = t
        <5>1. a < blk
          <6>1. a \in Words
            BY <1>1, <4>1
          <6>2. ~(blk < a)
            <7>1. blk < a => Past(h, blk) <= a
              BY <1>1, <4>1 DEF Tiled
            <7> QED BY <1>1, <1>2, <2>3, <4>2, <6>1, <7>1, WordsAre
          <6> QED BY <1>1, <3>4, <6>1, <6>2, WordsAre
        <5>2. Past(h, a) <= blk
          BY <1>1, <4>1, <5>1 DEF Tiled
        <5> QED BY <1>1, <1>2, <4>1, <4>2, <5>2, WordsAre
      <4>3. CASE b # t
        BY <3>1, <4>1, <4>3
      <4> QED BY <4>2, <4>3
    <3> QED BY <3>2, <3>3, <3>4
  <2>4. ASSUME NEW w \in Words PROVE \E a \in F \cup A \cup {t} : a <= w /\ w < Past(r, a)
    <3>1. PICK a \in F \cup A : a <= w /\ w < Past(h, a)
      BY <1>1 DEF Tiled
    <3>2. CASE a # blk
      BY <2>1, <3>1, <3>2
    <3>3. CASE a = blk
      <4>1. CASE w < t
        BY <1>10, <3>1, <3>3, <4>1
      <4>2. CASE ~(w < t)
        BY <1>2, <1>10, <3>1, <3>3, <4>2, WordsAre
      <4> QED BY <4>1, <4>2
    <3> QED BY <3>2, <3>3
  <2> QED BY <2>2, <2>3, <2>4 DEF Tiled
<1>14. \A w \in Words \ (F \cup A \cup {t}) : r.hdr[w] = NoHeader
  BY <1>1, <1>8 DEF Well
<1> QED BY <1>2, <1>3, <1>8, <1>9, <1>10, <1>11, <1>12, <1>13, <1>14 DEF Cut, Loose, Well

(* A block, or the far end of one, is taken from the free list. *)
LEMMA TakeIs ==
  ASSUME NEW h, NEW F, NEW A, Well(h, F, A), Apart(h, F), NEW blk \in F, NEW need \in Nat,
         need + Header < Modulus, h.hdr[blk].size >= need + Header,
         NEW t, t = Taken(h, blk, need), NEW r, r = getFromFreeList(h, blk, need)
  PROVE  /\ \E G : Loose(r, G, A, t) /\ Apart(r, G)
         /\ r.hdr[t].size >= need
         /\ \A a \in A : r.hdr[a].size = h.hdr[a].size
<1>1. blk \in Words /\ h \in Heaps /\ F \subseteq Words /\ A \subseteq Words /\ blk \notin A
  BY DEF Well
<1>2. PICK s \in Nat : s = h.hdr[blk].size /\ s < Modulus
  <2>1. h.hdr[blk].size \in 0..(HeapEnd - HeapStart)
    BY <1>1 DEF Heaps, Headers
  <2> QED BY <2>1, WordsAre
<1>3. PICK rem \in Nat : rem = s - Header - need
  BY <1>2, WordsAre
<1>4. Remaining(h, blk, need) = rem
  <2>1. rem < Modulus /\ Modulus \in Nat
    BY <1>2, <1>3, WordsAre
  <2> QED BY <1>2, <1>3, <2>1, SmallMod DEF Remaining
<1>5. CASE Splits(h, blk, need)
  <2>1. /\ r = [h EXCEPT !.hdr[blk].size = rem, !.hdr[t] = [NoHeader EXCEPT !.size = need]]
        /\ t = blk + Header + rem
    BY <1>4, <1>5 DEF getFromFreeList, Taken
  <2>2. s = rem + Header + need
    BY <1>2, <1>3, WordsAre
  <2>3. /\ Loose(r, F, A, t) /\ r.hdr[t].size = need
        /\ \A w \in Words \ {blk, t} : r.hdr[w] = h.hdr[w]
        /\ Past(r, blk) = t
    <3>1. h.hdr[blk].size = rem + Header + need
      BY <1>2, <2>2
    <3>2. Cut(h, r, F, A, blk, t, need)
      BY <2>1, <3>1, CutIs
    <3> QED BY <3>2 DEF Cut
  <2>4. \A a \in F \cup A : a # t
    BY <2>3 DEF Loose
  <2>5. \A a \in F \ {blk} : Past(r, a) = Past(h, a)
    BY <1>1, <2>3, <2>4 DEF Past
  <2>6. Apart(r, F)
    <3>1. \A b \in F : Past(r, blk) # b
      BY <2>3, <2>4
    <3> QED BY <2>5, <3>1 DEF Apart
  <2>7. \A a \in A : r.hdr[a].size = h.hdr[a].size
    BY <1>1, <2>3, <2>4
  <2> QED BY <2>3, <2>6, <2>7
<1>6. CASE ~Splits(h, blk, need)
  <2>1. r = Unlink(h, blk, "free") /\ t = blk
    BY <1>6 DEF getFromFreeList, Taken
  <2>2. Loose(r, F \ {blk}, A, t) /\ \A w \in Words : r.hdr[w].size = h.hdr[w].size
    BY <2>1, RemoveFree
  <2>3. \A a \in F : Past(r, a) = Past(h, a)
    BY <1>1, <2>2 DEF Past
  <2>4. Apart(r, F \ {blk})
    BY <2>3 DEF Apart
  <2>5. r.hdr[t].size >= need
    BY <1>1, <1>2, <1>3, <2>1, <2>2, WordsAre
  <2> QED BY <1>1, <2>2, <2>4, <2>5
<1> QED BY <1>5, <1>6

(* First fit finds a block that fits, if there is one. *)
LEMMA FitIs ==
  ASSUME NEW h, NEW F, NEW A, Well(h, F, A), NEW need, NEW b, b = findFirstFit(h, need)
  PROVE  /\ b = Null => \A a \in F : ~Fits(h, a, need)
         /\ b # Null => b \in F /\ Fits(h, b, need)
<1>1. PICK c : c = Chain(h, "free")
  OBVIOUS
<1>2. c \in Seq(Words) /\ Range(c) = F
  <2>1. /\ h \in Heaps /\ Ascends(h) /\ "free" \in List /\ F \in SUBSET Words /\ Linked(h, "free", F)
    BY WellAscends DEF Well, List
  <2> QED BY <1>1, <2>1, ChainOf
<1>3. PICK fits : fits = {i \in DOMAIN c : Fits(h, c[i], need)}
  OBVIOUS
<1>4. b = IF fits = {} THEN Null ELSE c[First(fits)]
  BY <1>1, <1>3 DEF findFirstFit
<1>5. fits \in SUBSET Nat /\ DOMAIN c = 1..Len(c)
  BY <1>2, <1>3
<1>6. CASE fits = {}
  <2>1. \A a \in F : \E i \in DOMAIN c : a = c[i]
    BY <1>2 DEF Range
  <2>2. \A a \in F : ~Fits(h, a, need)
    BY <1>3, <1>6, <2>1
  <2> QED BY <1>4, <1>6, <2>2
<1>7. CASE fits # {}
  <2>1. PICK i \in fits : b = c[i]
    BY <1>4, <1>5, <1>7, FirstIs
  <2>2. b \in F /\ Fits(h, b, need)
    BY <1>2, <1>3, <2>1 DEF Range
  <2>3. F \subseteq Words
    BY DEF Well
  <2> QED BY <2>2, <2>3, WordsAre
<1> QED BY <1>6, <1>7

(* Multiples of the block size that differ, differ by a block. *)
LEMMA Multiples ==
  ASSUME NEW x \in Nat, NEW y \in Nat, x < y, x % Block = 0, y % Block = 0
  PROVE  x + Block <= y
<1>1. Block \in Nat /\ Block > 0
  BY WordsAre
<1>2. PICK j, k \in Nat : x = Block * j /\ y = Block * k
  <2>1. x = Block * (x \div Block) /\ y = Block * (y \div Block) /\ x \div Block \in Nat /\ y \div Block \in Nat
    BY <1>1
  <2> QED BY <2>1
<1>3. j < k
  <2>1. ASSUME k <= j PROVE FALSE
    <3>1. Block * k <= Block * j
      BY <1>1, <2>1
    <3> QED BY <1>2, <3>1
  <2> QED BY <2>1
<1>4. Block * (j + 1) <= Block * k
  BY <1>1, <1>3
<1>5. Block * (j + 1) = Block * j + Block
  BY <1>1
<1> QED BY <1>2, <1>4, <1>5

(* The next multiple of the block size is one block further. *)
LEMMA NextMultiple ==
  ASSUME NEW x \in Nat, x % Block = 0
  PROVE  /\ (x + Block) % Block = 0
         /\ x >= Block => (x - Block) % Block = 0
<1>1. Block \in Nat /\ Block > 0
  BY WordsAre
<1>2. PICK j \in Nat : x = Block * j
  <2>1. x = Block * (x \div Block) /\ x \div Block \in Nat
    BY <1>1
  <2> QED BY <2>1
<1>3. \A k \in Nat : (Block * k) % Block = 0
  BY <1>1
<1>4. x + Block = Block * (j + 1)
  BY <1>1, <1>2
<1>5. ASSUME x >= Block PROVE (x - Block) % Block = 0
  <2>1. j # 0
    BY <1>1, <1>2, <1>5
  <2>2. PICK k \in Nat : j = k + 1
    <3>1. j - 1 \in Nat /\ j = (j - 1) + 1
      BY <2>1
    <3> QED BY <3>1
  <2>3. x - Block = Block * k
    BY <1>1, <1>2, <2>2
  <2> QED BY <1>3, <2>3
<1> QED BY <1>3, <1>4, <1>5

(* Rounding a request up to blocks gives a multiple of the block size that *)
(* is not below it, if the request is not within a block of the modulus:   *)
(* there is no wrap.                                                       *)
LEMMA RoundIs ==
  ASSUME NEW size \in Nat, size > 0, size <= Modulus - Block
  PROVE  /\ RoundedUp(size) \in Nat /\ RoundedUp(size) >= size
         /\ RoundedUp(size) <= Modulus - Block
<1>1. Block \in Nat /\ Block > 0 /\ Modulus \in Nat /\ Modulus % Block = 0 /\ Block < Modulus
  BY WordsAre, HeapAssumption
<1>2. CASE size % Block = 0
  BY <1>2 DEF RoundedUp
<1>3. CASE size % Block # 0
  <2>1. PICK m \in 1..(Block - 1) : m = size % Block
    BY <1>1, <1>3
  <2>2. PICK x \in Nat : x = size - m /\ x % Block = 0
    <3>1. size = Block * (size \div Block) + (size % Block) /\ size \div Block \in Nat
      BY <1>1
    <3>2. PICK j \in Nat : j = size \div Block
      BY <3>1
    <3>3. Block * j \in Nat /\ (Block * j) % Block = 0
      BY <1>1
    <3> QED BY <2>1, <3>1, <3>2, <3>3
  <2>3. PICK y \in Nat : y = x + Block /\ y % Block = 0
    <3>1. (x + Block) % Block = 0
      BY <2>2, NextMultiple
    <3> QED BY <1>1, <2>2, <3>1
  <2>4. x + Block <= Modulus
    BY <1>1, <2>1, <2>2, Multiples
  <2>5. x < Modulus - Block /\ (Modulus - Block) % Block = 0 /\ Modulus - Block \in Nat
    <3>1. x < Modulus - Block
      BY <1>1, <2>1, <2>2
    <3> QED BY <1>1, <3>1, NextMultiple
  <2>6. x + Block <= Modulus - Block
    BY <2>2, <2>5, Multiples
  <2>7. y < Modulus /\ y >= size
    BY <1>1, <2>1, <2>2, <2>3, <2>6
  <2>8. RoundedUp(size) = y % Modulus
    <3>1. size + Block - m = y
      BY <1>1, <2>1, <2>2, <2>3
    <3> QED BY <1>3, <2>1, <3>1 DEF RoundedUp
  <2>9. y % Modulus = y
    BY <1>1, <2>7, SmallMod
  <2> QED BY <2>3, <2>6, <2>7, <2>8, <2>9
<1> QED BY <1>2, <1>3

(* The whole blocks that mem_alloc of the C API asks for. *)
LEMMA WholeBlocksAre ==
  ASSUME NEW request \in 0..(Modulus - 1), NEW size, size = (Blocks(request) * Block) % Modulus, size # 0
  PROVE  /\ size \in Nat /\ size > 0 /\ size <= Modulus - Block
         /\ request > 0 /\ request <= size
<1>1. Block \in Nat /\ Block > 0 /\ Modulus \in Nat /\ Modulus % Block = 0
  BY WordsAre, HeapAssumption
<1>2. PICK q, m \in Nat : /\ q = request \div Block /\ m = request % Block /\ m < Block
                          /\ request = Block * q + m
  BY <1>1
<1>3. PICK k \in Nat : k = Blocks(request) /\ (m = 0 => k = q) /\ (m # 0 => k = q + 1)
  BY <1>1, <1>2 DEF Blocks
<1>4. PICK g \in Nat : g = k * Block /\ g % Block = 0
  <2>1. k * Block \in Nat /\ (k * Block) % Block = 0
    BY <1>1
  <2> QED BY <2>1
<1>5. request <= g /\ g < request + Block
  <2>1. k * Block = Block * k /\ Block * (q + 1) = Block * q + Block
    BY <1>1
  <2> QED BY <1>1, <1>2, <1>3, <1>4, <2>1
<1>6. g <= Modulus
  <2>1. ASSUME g > Modulus PROVE FALSE
    <3>1. Modulus + Block <= g
      BY <1>1, <1>4, <2>1, Multiples
    <3> QED BY <1>1, <1>5, <3>1
  <2> QED BY <1>1, <2>1
<1>7. g # Modulus
  <2>1. Modulus % Modulus = 0
    BY <1>1
  <2> QED BY <1>3, <1>4, <2>1
<1>8. g < Modulus /\ size = g
  <2>1. g < Modulus
    BY <1>1, <1>6, <1>7
  <2> QED BY <1>1, <1>3, <1>4, <2>1, SmallMod
<1>9. g + Block <= Modulus
  BY <1>1, <1>4, <1>8, Multiples
<1>10. request > 0
  <2>1. request = 0 => g = 0
    BY <1>1, <1>2, <1>3, <1>4
  <2> QED BY <1>8, <2>1
<1> QED BY <1>1, <1>5, <1>8, <1>9, <1>10

(* Free neighbours in the heap are neighbours in the free list. *)
LEMMA NeighboursAre ==
  ASSUME NEW h, NEW F, NEW A, Well(h, F, A), NEW a \in F, NEW b \in F, Past(h, a) = b
  PROVE  h.hdr[a].next = b /\ h.hdr[b].prev = a /\ a < b
<1>1. /\ h \in Heaps /\ a \in Words /\ b \in Words /\ F \subseteq Words
      /\ \A x, y \in F : x < y => Past(h, x) <= y
      /\ After(F, a, h.hdr[a].next) /\ Before(F, b, h.hdr[b].prev)
  BY DEF Well, Tiled, Linked
<1>2. a < b
  BY <1>1, SizesAre
<1>3. h.hdr[a].next = b
  BY <1>1, <1>2, WordsAre DEF After
<1>4. h.hdr[b].prev = a
  BY <1>1, <1>2, WordsAre DEF Before
<1> QED BY <1>2, <1>3, <1>4

(* tryToJoin joins a with the free block n behind it, or there is none. *)
JoinedWith(h, r, F, A, a, n) ==
  /\ n = h.hdr[a].next /\ n \in F /\ a < n /\ Past(h, a) = n
  /\ Well(r, F \ {n}, A) /\ Past(r, a) = Past(h, n)
  /\ \A w \in (F \cup A) \ {a, n} : r.hdr[w].size = h.hdr[w].size /\ Past(r, w) = Past(h, w)
NotJoined(h, r, a) ==
  r = h /\ (h.hdr[a].next = Null \/ Past(h, a) # h.hdr[a].next)

(* tryToJoin of a free block does nothing, or makes one free block of two  *)
(* neighbours and leaves the heap well formed.                             *)
LEMMA JoinStep ==
  ASSUME NEW h, NEW F, NEW A, Well(h, F, A), NEW a \in F, NEW r, r = tryToJoin(h, a)
  PROVE  NotJoined(h, r, a) \/ JoinedWith(h, r, F, A, a, h.hdr[a].next)
<1>1. PICK n : n = h.hdr[a].next
  OBVIOUS
<1>2. /\ h \in Heaps /\ F \in SUBSET Words /\ A \in SUBSET Words /\ F \cap A = {} /\ a \in Words
      /\ Linked(h, "free", F) /\ Linked(h, "alloc", A) /\ Tiled(h, F \cup A)
      /\ \A w \in Words \ (F \cup A) : h.hdr[w] = NoHeader
  BY DEF Well
<1>3. CASE n = Null \/ Past(h, a) # n
  BY <1>1, <1>3, JoinNot DEF NotJoined
<1>4. CASE n # Null /\ Past(h, a) = n
  <2>1. n \in F /\ a < n /\ n \in Words
    BY <1>1, <1>2, <1>4 DEF Linked, After
  <2>2. Past(h, n) <= HeapEnd
    BY <1>2, <2>1 DEF Tiled
  <2>3. /\ r \in Heaps /\ r.heads = h.heads /\ Linked(r, "free", F \ {n})
        /\ r.hdr[n] = NoHeader
        /\ r.hdr[a].size = h.hdr[a].size + Header + h.hdr[n].size
        /\ \A w \in Words \ {a, n} : r.hdr[w].size = h.hdr[w].size
        /\ \A w \in Words \ F : r.hdr[w] = h.hdr[w]
    <3>1. Swallowed(h, r, F, a, n)
      BY <1>1, <1>2, <1>4, <2>1, <2>2, SwallowIs
    <3> QED BY <3>1 DEF Swallowed
  <2>4. Past(r, a) = Past(h, n)
    <3>1. PICK s, u \in Nat : s = h.hdr[a].size /\ u = h.hdr[n].size
      BY <1>2, <2>1, SizesAre
    <3>2. n = a + Header + s
      BY <1>4, <3>1 DEF Past
    <3> QED BY <1>2, <2>3, <3>1, <3>2, WordsAre DEF Past
  <2>5. \A w \in (F \cup A) \ {a, n} : r.hdr[w].size = h.hdr[w].size /\ Past(r, w) = Past(h, w)
    BY <1>2, <2>3 DEF Past
  <2>6. Linked(r, "alloc", A)
    <3>1. \A w \in A : r.hdr[w] = h.hdr[w]
      BY <1>2, <2>3
    <3> QED BY <1>2, <2>3, <3>1, LinkedFrame
  <2>7. \A w \in Words \ ((F \ {n}) \cup A) : r.hdr[w] = NoHeader
    BY <1>2, <2>1, <2>3
  <2>8. Tiled(r, (F \ {n}) \cup A)
    <3>1. n \notin A /\ (F \ {n}) \cup A = (F \cup A) \ {n} /\ F \cup A \subseteq Words
      BY <1>2, <2>1
    <3>2. \A x, y \in F \cup A : x < y => Past(h, x) <= y
      BY <1>2 DEF Tiled
    <3>3. \A w \in Words : Past(h, w) \in Int /\ w < Past(h, w) /\ w \in Int
      BY <1>2, SizesAre, WordsAre
    <3>4. ASSUME NEW x \in (F \cup A) \ {n} PROVE Past(r, x) <= HeapEnd
      BY <1>2, <2>2, <2>4, <2>5, <3>4 DEF Tiled
    <3>5. ASSUME NEW x \in (F \cup A) \ {n}, NEW y \in (F \cup A) \ {n}, x < y
          PROVE  Past(r, x) <= y
      <4>1. CASE x = a
        <5>1. Past(h, a) <= y
          BY <3>2, <3>5, <4>1
        <5>2. n < y
          BY <1>4, <2>1, <3>1, <3>3, <3>5, <5>1
        <5> QED BY <2>1, <2>4, <3>2, <4>1, <5>2
      <4>2. CASE x # a
        BY <2>5, <3>2, <3>5, <4>2
      <4> QED BY <4>1, <4>2
    <3>6. ASSUME NEW w \in Words PROVE \E x \in (F \cup A) \ {n} : x <= w /\ w < Past(r, x)
      <4>1. PICK x \in F \cup A : x <= w /\ w < Past(h, x)
        BY <1>2 DEF Tiled
      <4>2. CASE x \in {a, n}
        <5>1. a <= w /\ w < Past(r, a)
          BY <1>4, <2>1, <2>4, <3>3, <4>1, <4>2, <1>2
        <5> QED BY <2>1, <3>1, <3>3, <5>1, <1>2
      <4>3. CASE x \notin {a, n}
        BY <2>5, <4>1, <4>3
      <4> QED BY <4>2, <4>3
    <3> QED BY <3>1, <3>4, <3>5, <3>6 DEF Tiled
  <2> QED BY <1>1, <1>2, <1>4, <2>1, <2>3, <2>4, <2>5, <2>6, <2>7, <2>8 DEF JoinedWith, Well
<1> QED BY <1>3, <1>4

(* The free neighbours of a block that has become free are joined with it. *)
LEMMA JoinedIs ==
  ASSUME NEW h, NEW F, NEW A, Well(h, F, A), NEW blk \in F,
         \A a, b \in F : Past(h, a) = b => a = blk \/ b = blk,
         NEW r, r = Joined(h, blk)
  PROVE  \E G : Well(r, G, A) /\ Apart(r, G) /\ \A a \in A : r.hdr[a].size = h.hdr[a].size
<1>1. PICK f : f = tryToJoin(h, blk)
  OBVIOUS
<1>2. /\ F \subseteq Words /\ F \cap A = {} /\ h \in Heaps
      /\ \A w \in Words : Past(h, w) \in Int /\ w < Past(h, w) /\ w \in Int /\ w # Null
  BY SizesAre, WordsAre DEF Well
(* After the join forwards, at most blk has a free neighbour below it. *)
<1>3. PICK G : /\ Well(f, G, A) /\ blk \in G /\ G \subseteq F
               /\ \A a, b \in G : Past(f, a) = b => b = blk
               /\ \A a \in A : f.hdr[a].size = h.hdr[a].size
  <2>1. CASE NotJoined(h, f, blk)
    <3>1. f = h /\ (h.hdr[blk].next = Null \/ Past(h, blk) # h.hdr[blk].next)
      BY <2>1 DEF NotJoined
    <3>2. ASSUME NEW b \in F, Past(h, blk) = b PROVE FALSE
      <4>1. h.hdr[blk].next = b
        BY <3>2, NeighboursAre
      <4> QED BY <1>2, <3>1, <3>2, <4>1
    <3> QED BY <3>1, <3>2
  <2>2. CASE JoinedWith(h, f, F, A, blk, h.hdr[blk].next)
    <3>1. PICK n : /\ n \in F /\ blk < n /\ Well(f, F \ {n}, A) /\ Past(f, blk) = Past(h, n)
                   /\ \A w \in (F \cup A) \ {blk, n} : f.hdr[w].size = h.hdr[w].size /\ Past(f, w) = Past(h, w)
      BY <2>2 DEF JoinedWith
    <3>2. blk \in F \ {n} /\ F \ {n} \subseteq F /\ n \notin A /\ blk \notin A
      BY <1>2, <3>1
    <3>3. ASSUME NEW a \in F \ {n}, NEW b \in F \ {n}, Past(f, a) = b PROVE b = blk
      <4>1. CASE a = blk
        BY <1>2, <3>1, <3>3, <4>1
      <4>2. CASE a # blk
        BY <3>1, <3>3, <4>2
      <4> QED BY <4>1, <4>2
    <3>4. \A a \in A : f.hdr[a].size = h.hdr[a].size
      BY <3>1, <3>2
    <3> QED BY <3>1, <3>2, <3>3, <3>4
  <2> QED BY <1>1, <2>1, <2>2, JoinStep
<1>4. PICK p : p = f.hdr[blk].prev
  OBVIOUS
<1>5. r = IF p = Null THEN f ELSE tryToJoin(f, p)
  BY <1>1, <1>4 DEF Joined
<1>6. ASSUME NEW a \in G, NEW b \in G, Past(f, a) = b
      PROVE  b = blk /\ p = a /\ p # Null /\ f.hdr[p].next = blk /\ Past(f, p) = blk
  <2>1. b = blk
    BY <1>3, <1>6
  <2>2. f.hdr[a].next = b /\ f.hdr[b].prev = a
    BY <1>3, <1>6, NeighboursAre
  <2> QED BY <1>2, <1>3, <1>4, <1>6, <2>1, <2>2
<1>7. CASE p = Null
  <2>1. Apart(f, G)
    BY <1>6, <1>7 DEF Apart
  <2> QED BY <1>3, <1>5, <1>7, <2>1
<1>8. CASE p # Null
  <2>1. p \in G /\ r = tryToJoin(f, p)
    BY <1>3, <1>4, <1>5, <1>8 DEF Well, Linked, Before
  <2>2. CASE NotJoined(f, r, p)
    <3>1. r = f /\ (f.hdr[p].next = Null \/ Past(f, p) # f.hdr[p].next)
      BY <2>2 DEF NotJoined
    <3>2. Apart(r, G)
      <4> SUFFICES ASSUME NEW a \in G, NEW b \in G, Past(f, a) = b PROVE FALSE
        BY <3>1 DEF Apart
      <4>1. f.hdr[p].next = blk /\ Past(f, p) = blk
        BY <1>6
      <4> QED BY <1>2, <1>3, <3>1, <4>1
    <3> QED BY <1>3, <3>1, <3>2
  <2>3. CASE JoinedWith(f, r, G, A, p, f.hdr[p].next)
    <3>1. PICK n : /\ n \in G /\ p < n /\ Past(f, p) = n
                   /\ Well(r, G \ {n}, A) /\ Past(r, p) = Past(f, n)
                   /\ \A w \in (G \cup A) \ {p, n} : r.hdr[w].size = f.hdr[w].size /\ Past(r, w) = Past(f, w)
      BY <2>3 DEF JoinedWith
    <3>2. n = blk
      BY <1>6, <2>1, <3>1
    <3>3. ASSUME NEW a \in G \ {n}, NEW b \in G \ {n}, Past(r, a) = b PROVE FALSE
      <4>1. CASE a = p
        BY <1>3, <3>1, <3>2, <3>3, <4>1
      <4>2. CASE a # p
        BY <1>3, <3>1, <3>2, <3>3, <4>2
      <4> QED BY <4>1, <4>2
    <3>4. Apart(r, G \ {n})
      BY <3>3 DEF Apart
    <3>5. \A a \in A : r.hdr[a].size = h.hdr[a].size
      BY <1>2, <1>3, <2>1, <3>1
    <3> QED BY <3>1, <3>4, <3>5
  <2> QED BY <1>3, <2>1, <2>2, <2>3, JoinStep
<1> QED BY <1>7, <1>8

(* Releasing an allocated block leaves the others. *)
Releases(h, r, A, b) ==
  \E G : /\ Well(r, G, A \ {b}) /\ Apart(r, G)
         /\ \A a \in A \ {b} : r.hdr[a].size = h.hdr[a].size

(* mem_free of a pointer to an allocated block releases that block and no  *)
(* other.                                                                  *)
LEMMA FreeIs ==
  ASSUME NEW h, NEW F, NEW A, Well(h, F, A), Apart(h, F), NEW p \in Int, p - Header \in A,
         NEW r, r = Freed(h, p)
  PROVE  Releases(h, r, A, p - Header)
<1>1. PICK blk : blk = p - Header
  OBVIOUS
<1>2. /\ h \in Heaps /\ A \in SUBSET Words /\ F \in SUBSET Words /\ F \cap A = {} /\ Linked(h, "alloc", A)
      /\ Ascends(h) /\ "alloc" \in List /\ blk \in A
  BY <1>1, WellAscends DEF Well, List
<1>3. Range(Chain(h, "alloc")) = A
  BY <1>2, ChainOf
<1>4. p # Null
  BY <1>1, <1>2, WordsAre DEF Null
<1>5. PICK g : g = Unlink(h, blk, "alloc")
  OBVIOUS
<1>6. PICK k : k = putIntoOrderedList(g, blk, "free")
  OBVIOUS
<1>7. r = Joined(k, blk)
  BY <1>1, <1>2, <1>3, <1>4, <1>5, <1>6 DEF Freed
<1>8. Loose(g, F, A \ {blk}, blk) /\ \A w \in Words : g.hdr[w].size = h.hdr[w].size
  BY <1>2, <1>5, RemoveAlloc
<1>9. Well(k, F \cup {blk}, A \ {blk}) /\ \A w \in Words : k.hdr[w].size = g.hdr[w].size
  BY <1>6, <1>8, InsertFree
<1>10. \A a, b \in F \cup {blk} : Past(k, a) = b => a = blk \/ b = blk
  <2>1. \A a \in F : Past(k, a) = Past(h, a)
    BY <1>2, <1>8, <1>9 DEF Past
  <2> QED BY <2>1 DEF Apart
<1>11. \E G : Well(r, G, A \ {blk}) /\ Apart(r, G) /\ \A a \in A \ {blk} : r.hdr[a].size = k.hdr[a].size
  <2>1. blk \in F \cup {blk}
    OBVIOUS
  <2> QED BY <1>7, <1>9, <1>10, <2>1, JoinedIs
<1> QED BY <1>1, <1>2, <1>8, <1>9, <1>11 DEF Releases

(* What is no pointer to an allocated block is refused. *)
LEMMA FreeNot ==
  ASSUME NEW h, NEW F, NEW A, Well(h, F, A), NEW p, p = Null \/ p - Header \notin A
  PROVE  Freed(h, p) = h
<1>1. /\ h \in Heaps /\ A \in SUBSET Words /\ Linked(h, "alloc", A) /\ Ascends(h) /\ "alloc" \in List
  BY WellAscends DEF Well, List
<1>2. Range(Chain(h, "alloc")) = A
  BY <1>1, ChainOf
<1> QED BY <1>2 DEF Freed

(* What a successful allocation does: p points behind the header of a new  *)
(* allocated block, which is large enough.                                 *)
Gives(h, r, A, p, size) ==
  /\ p \in Int /\ p # Null /\ p - Header \in Words \ A
  /\ \E G : Well(r, G, A \cup {p - Header}) /\ Apart(r, G)
  /\ r.hdr[p - Header].size >= size
  /\ \A a \in A : r.hdr[a].size = h.hdr[a].size

(* mem_alloc returns Null and leaves the heap, or gives a new block. *)
LEMMA AllocIs ==
  ASSUME NEW h, NEW F, NEW A, Well(h, F, A), Apart(h, F), NEW size \in Nat, size <= Modulus - Block,
         NEW p, p = Pointer(h, size), NEW r, r = Allocated(h, size)
  PROVE  (p = Null /\ r = h) \/ (size > 0 /\ Gives(h, r, A, p, size))
<1>1. CASE size = 0
  BY <1>1 DEF Pointer, Allocated
<1>2. CASE size > 0
  <2>1. PICK need \in Nat : need = RoundedUp(size) /\ need >= size /\ need <= Modulus - Block
    BY <1>2, RoundIs
  <2>2. PICK b : b = findFirstFit(h, need)
    OBVIOUS
  <2>3. CASE b = Null
    BY <2>1, <2>2, <2>3 DEF Pointer, Allocated
  <2>4. CASE b # Null
    <3>1. b \in F /\ Fits(h, b, need)
      BY <2>2, <2>4, FitIs
    <3>2. need + Header < Modulus /\ need + Header \in Nat
      BY <2>1, WordsAre
    <3>3. h.hdr[b].size >= need + Header
      <4>1. (need + Header) % Modulus = need + Header
        BY <3>2, WordsAre, SmallMod
      <4> QED BY <3>1, <4>1 DEF Fits
    <3>4. PICK t, g : t = Taken(h, b, need) /\ g = getFromFreeList(h, b, need)
      OBVIOUS
    <3>5. PICK G : Loose(g, G, A, t) /\ Apart(g, G) /\ g.hdr[t].size >= need
                   /\ \A a \in A : g.hdr[a].size = h.hdr[a].size
      BY <3>1, <3>2, <3>3, <3>4, TakeIs
    <3>6. p = t + Header /\ r = putIntoOrderedList(g, t, "alloc")
      BY <1>2, <2>1, <2>2, <2>4, <3>4 DEF Pointer, Allocated
    <3>7. Well(r, G, A \cup {t}) /\ \A w \in Words : r.hdr[w].size = g.hdr[w].size
      BY <3>5, <3>6, InsertAlloc
    <3>8. t \in Words /\ t \notin A /\ G \subseteq Words /\ A \subseteq Words /\ g \in Heaps
      BY <3>5 DEF Loose
    <3>9. p \in Int /\ p # Null /\ p - Header = t
      BY <3>6, <3>8, WordsAre DEF Null
    <3>10. Apart(r, G)
      <4>1. \A a \in G : Past(r, a) = Past(g, a)
        BY <3>7, <3>8 DEF Past
      <4> QED BY <3>5, <4>1 DEF Apart
    <3>11. r.hdr[t].size >= size
      <4>1. r.hdr[t].size \in Nat /\ r.hdr[t].size >= need
        BY <3>5, <3>7, <3>8, SizesAre
      <4> QED BY <2>1, <4>1
    <3>12. \A a \in A : r.hdr[a].size = h.hdr[a].size
      BY <3>5, <3>7, <3>8
    <3> QED BY <1>2, <3>7, <3>8, <3>9, <3>10, <3>11, <3>12 DEF Gives
  <2> QED BY <2>3, <2>4
<1> QED BY <1>1, <1>2

(* If nothing fits there is no run of words, outside the allocated blocks, *)
(* for the blocks that are wanted and two headers.                         *)
LEMMA FullIs ==
  ASSUME NEW h, NEW F, NEW A, Well(h, F, A), Apart(h, F),
         NEW n \in 1..((HeapEnd - HeapStart) \div Block), Pointer(h, n * Block) = Null,
         NEW a \in Words, NEW room \in Int, room = n * Block + 2 * Header, a + room <= HeapEnd
  PROVE  \E w \in a..(a + room - 1), c \in A : c <= w /\ w < Past(h, c)
<1>0. Block \in Nat /\ Block > 0 /\ Modulus \in Nat /\ Modulus % Block = 0
  BY WordsAre, HeapAssumption
<1>1. PICK need \in Nat : need = n * Block /\ need > 0 /\ need % Block = 0 /\ need < Modulus
  <2>1. PICK d \in Nat : d = (HeapEnd - HeapStart) \div Block /\ d * Block <= HeapEnd - HeapStart
    <3>1. PICK x \in Nat : x = HeapEnd - HeapStart
      BY WordsAre
    <3>2. x \div Block \in Nat /\ (x \div Block) * Block <= x
      BY <1>0, <3>1
    <3> QED BY <3>1, <3>2
  <2>2. n \in Nat /\ n > 0 /\ n <= d
    BY <2>1
  <2>3. n * Block <= d * Block /\ n * Block > 0 /\ n * Block \in Nat /\ d * Block \in Nat
    BY <1>0, <2>2
  <2>4. (n * Block) % Block = 0
    BY <1>0, <2>2
  <2>5. n * Block < Modulus
    <3>1. PICK x \in Nat, y \in Nat : x = n * Block /\ y = d * Block
      BY <2>3
    <3> QED BY <2>1, <2>3, <3>1, WordsAre
  <2> QED BY <2>3, <2>4, <2>5
<1>2. need + Block <= Modulus /\ RoundedUp(need) = need
  <2>1. need + Block <= Modulus
    BY <1>0, <1>1, Multiples
  <2> QED BY <1>1, <2>1 DEF RoundedUp
<1>3. \A b \in F : ~(h.hdr[b].size >= need + Header)
  <2>1. PICK b : b = findFirstFit(h, need)
    OBVIOUS
  <2>2. b = Null
    <3>1. ASSUME b # Null PROVE FALSE
      <4>1. b \in F
        BY <2>1, <3>1, FitIs
      <4>2. Pointer(h, need) = Taken(h, b, need) + Header
        BY <1>1, <1>2, <2>1, <3>1 DEF Pointer
      <4>3. b \in Words /\ h.hdr[b].size \in Nat
        BY <4>1, SizesAre DEF Well
      <4>4. Remaining(h, b, need) \in Nat
        BY <1>1, <4>3, WordsAre DEF Remaining
      <4>5. Taken(h, b, need) \in Nat
        BY <4>3, <4>4, WordsAre DEF Taken
      <4> QED BY <1>1, <4>2, <4>5, WordsAre DEF Null
    <3> QED BY <3>1
  <2>3. \A x \in F : ~Fits(h, x, need)
    BY <2>1, <2>2, FitIs
  <2>4. (need + Header) % Modulus = need + Header
    <3>1. need + Header < Modulus /\ need + Header \in Nat
      BY <1>1, <1>2, WordsAre
    <3> QED BY <3>1, WordsAre, SmallMod
  <2> QED BY <2>3, <2>4 DEF Fits
<1>4. /\ h \in Heaps /\ F \subseteq Words /\ A \subseteq Words
      /\ \A w \in Words : h.hdr[w].size \in Nat /\ Past(h, w) \in Int /\ w < Past(h, w) /\ w \in Int
      /\ \A w \in Words : \E b \in F \cup A : b <= w /\ w < Past(h, b)
      /\ \A x, y \in F \cup A : x < y => Past(h, x) <= y
  BY SizesAre, WordsAre DEF Well, Tiled
<1> SUFFICES ASSUME \A w \in a..(a + room - 1), c \in A : ~(c <= w /\ w < Past(h, c))
             PROVE  FALSE
  OBVIOUS
<1>5. a \in Int /\ room >= 1 /\ a \in a..(a + room - 1)
  BY <1>1, WordsAre
<1>6. PICK b \in F : b <= a /\ a < Past(h, b)
  BY <1>4, <1>5
<1>7. PICK e \in Int : e = Past(h, b)
  BY <1>4, <1>6
<1>8. e <= a + room - 1 /\ e < HeapEnd /\ e > a
  <2>1. PICK s \in Nat : s = h.hdr[b].size /\ s < need + Header
    BY <1>1, <1>3, <1>4, <1>6, WordsAre
  <2>2. e = b + Header + s
    BY <1>7, <2>1 DEF Past
  <2>3. b \in Int /\ room = need + 2 * Header
    BY <1>1, <1>4
  <2> QED BY <1>1, <1>5, <1>6, <1>7, <2>1, <2>2, <2>3, WordsAre
<1>9. e \in Words /\ e \in a..(a + room - 1)
  BY <1>5, <1>8, WordsAre DEF Words
<1>10. PICK c \in F : c <= e /\ e < Past(h, c)
  BY <1>4, <1>9
<1>11. c # b
  BY <1>4, <1>7, <1>10
<1>12. c = e
  BY <1>4, <1>5, <1>6, <1>7, <1>8, <1>10, <1>11
<1> QED BY <1>7, <1>12 DEF Apart

(* The pointers own that have been returned are those of the blocks A, and *)
(* each block is as large as it was requested.                             *)
Met(h, A, own) ==
  /\ DOMAIN own \subseteq Int /\ A = {p - Header : p \in DOMAIN own}
  /\ \A p \in DOMAIN own : own[p] \in Nat /\ own[p] > 0 /\ h.hdr[p - Header].size >= own[p]

Whole(h, own) == \E F, A : Well(h, F, A) /\ Apart(h, F) /\ Met(h, A, own)

(* The inductive invariant. *)
HeapInv == Whole(heap, owned) /\ \A t \in threads : t.tcb \in Int /\ t.stack \in Int

(* An allocation keeps the invariant with the pointer it returned recorded *)
(* as owned.                                                               *)
LEMMA AllocWhole ==
  ASSUME NEW h, NEW own, Whole(h, own), NEW size \in Nat, size <= Modulus - Block,
         NEW request \in Nat, size > 0 => request > 0 /\ request <= size,
         NEW p, p = Pointer(h, size), NEW r, r = Allocated(h, size)
  PROVE  \/ p = Null /\ r = h
         \/ p # Null /\ p \in Int /\ Whole(r, With(own, p, request))
<1>1. PICK F, A : Well(h, F, A) /\ Apart(h, F) /\ Met(h, A, own)
  BY DEF Whole
<1>2. ASSUME size > 0, Gives(h, r, A, p, size)
      PROVE  p # Null /\ p \in Int /\ Whole(r, With(own, p, request))
  <2>1. PICK b : b = p - Header
    OBVIOUS
  <2>2. /\ p \in Int /\ p # Null /\ b \in Words /\ b \notin A /\ r.hdr[b].size >= size
        /\ \A a \in A : r.hdr[a].size = h.hdr[a].size
    BY <1>2, <2>1 DEF Gives
  <2>3. PICK G : Well(r, G, A \cup {b}) /\ Apart(r, G)
    BY <1>2, <2>1 DEF Gives
  <2>4. PICK mine : mine = With(own, p, request)
    OBVIOUS
  <2>5. /\ DOMAIN mine = DOMAIN own \cup {p}
        /\ \A q \in DOMAIN mine : mine[q] = IF q = p THEN request ELSE own[q]
    BY <2>4 DEF With
  <2>6. A \cup {b} = {q - Header : q \in DOMAIN mine}
    BY <1>1, <2>1, <2>5 DEF Met
  <2>7. ASSUME NEW q \in DOMAIN mine
        PROVE  q \in Int /\ mine[q] \in Nat /\ mine[q] > 0 /\ r.hdr[q - Header].size >= mine[q]
    <3>1. CASE q = p
      <4>1. r.hdr[b].size \in Nat
        BY <2>2, <2>3, SizesAre DEF Well
      <4> QED BY <1>2, <2>1, <2>2, <2>5, <3>1, <4>1
    <3>2. CASE q # p
      <4>1. q \in DOMAIN own /\ mine[q] = own[q] /\ q - Header \in A
        BY <1>1, <2>5, <3>2 DEF Met
      <4> QED BY <1>1, <2>2, <4>1 DEF Met
    <3> QED BY <3>1, <3>2
  <2>8. Met(r, A \cup {b}, mine)
    BY <2>6, <2>7 DEF Met
  <2> QED BY <2>2, <2>3, <2>4, <2>8 DEF Whole
<1> QED BY <1>1, <1>2, AllocIs

(* mem_free of any pointer keeps the invariant with that pointer no longer *)
(* owned: what is not owned is refused.                                    *)
LEMMA FreeWhole ==
  ASSUME NEW h, NEW own, Whole(h, own), NEW p \in Int
  PROVE  Whole(Freed(h, p), [q \in DOMAIN own \ {p} |-> own[q]])
<1>1. PICK F, A : Well(h, F, A) /\ Apart(h, F) /\ Met(h, A, own)
  BY DEF Whole
<1>2. PICK left : left = [q \in DOMAIN own \ {p} |-> own[q]]
  OBVIOUS
<1>3. DOMAIN left = DOMAIN own \ {p} /\ \A q \in DOMAIN left : left[q] = own[q]
  BY <1>2
<1>4. PICK r : r = Freed(h, p)
  OBVIOUS
<1>5. Header \in Nat
  BY WordsAre
<1>6. CASE p \in DOMAIN own
  <2>1. p - Header \in A
    BY <1>1, <1>6 DEF Met
  <2>2. PICK G : /\ Well(r, G, A \ {p - Header}) /\ Apart(r, G)
                 /\ \A a \in A \ {p - Header} : r.hdr[a].size = h.hdr[a].size
    <3>1. Releases(h, r, A, p - Header)
      BY <1>1, <1>4, <2>1, FreeIs
    <3> QED BY <3>1 DEF Releases
  <2>3. A \ {p - Header} = {q - Header : q \in DOMAIN left}
    BY <1>1, <1>3, <1>5, <1>6 DEF Met
  <2>4. Met(r, A \ {p - Header}, left)
    BY <1>1, <1>3, <2>2, <2>3 DEF Met
  <2> QED BY <1>2, <1>4, <2>2, <2>4 DEF Whole
<1>7. CASE p \notin DOMAIN own
  <2>1. p - Header \notin A
    BY <1>1, <1>5, <1>7 DEF Met
  <2>2. r = h
    BY <1>1, <1>4, <2>1, FreeNot
  <2>3. Met(r, A, left)
    <3>1. DOMAIN left = DOMAIN own
      BY <1>3, <1>7
    <3> QED BY <1>1, <1>3, <2>2, <3>1 DEF Met
  <2> QED BY <1>1, <1>2, <1>4, <2>2, <2>3 DEF Whole
<1> QED BY <1>6, <1>7

(* The heap that a step assigns is the one the next state has. *)
LEMMA BecomesWhole ==
  ASSUME NEW r, Whole(r, owned'), Becomes(r)
  PROVE  Whole(heap, owned)'
<1>1. r \in Heaps
  BY DEF Whole, Well
<1>2. heap' = r
  BY <1>1 DEF Becomes, heap, Heaps
<1>3. Whole(heap', owned')
  BY <1>2
<1> QED BY <1>3 DEF Whole, Well, Linked, Apart, Met, Tiled, After, Before, Past

(* The heap starts as one free block that fills it. *)
LEMMA HeapInitInv == HeapInit => HeapInv
<1> SUFFICES ASSUME HeapInit PROVE HeapInv
  OBVIOUS
<1>1. PICK h, b, own : h = heap /\ b = HeapStart /\ own = owned
  OBVIOUS
<1>2. /\ h.heads = [free |-> HeapStart, alloc |-> Null]
      /\ h.hdr = [w \in Words |-> IF w = HeapStart
                            THEN [NoHeader EXCEPT !.size = HeapEnd - HeapStart - Header]
                            ELSE NoHeader]
      /\ h = [heads |-> h.heads, hdr |-> h.hdr] /\ own = <<>>
  BY <1>1 DEF HeapInit, Init, heap
<1>3. b \in Words /\ Null \notin Words
  BY <1>1, WordsAre DEF Words
<1>4. PICK k : k = [next |-> Null, prev |-> Null, size |-> HeapEnd - HeapStart - Header]
  OBVIOUS
<1>5. h.hdr[b] = k /\ \A w \in Words \ {b} : h.hdr[w] = NoHeader
  <2>1. [NoHeader EXCEPT !.size = HeapEnd - HeapStart - Header] = k
    BY <1>4 DEF NoHeader
  <2> QED BY <1>1, <1>2, <1>3, <2>1
<1>6. h \in Heaps
  <2>1. k \in Headers /\ NoHeader \in Headers
    BY <1>4, WordsAre DEF Headers, NoHeader
  <2>2. h.hdr \in [Words -> Headers]
    BY <1>2, <1>3, <1>5, <2>1
  <2>3. h.heads \in [List -> Words \cup {Null}]
    BY <1>1, <1>2, <1>3 DEF List
  <2> QED BY <1>2, <2>2, <2>3 DEF Heaps
<1>7. Linked(h, "free", {b})
  <2>1. h.heads["free"] = b /\ h.hdr[b].next = Null /\ h.hdr[b].prev = Null
    BY <1>1, <1>2, <1>4, <1>5
  <2> QED BY <1>3, <2>1, WordsAre DEF Linked, After, Before, Null
<1>8. Linked(h, "alloc", {})
  BY <1>2 DEF Linked, After
<1>9. Past(h, b) = HeapEnd
  <2>1. h.hdr[b].size = HeapEnd - HeapStart - Header
    BY <1>4, <1>5
  <2> QED BY <1>1, <2>1, WordsAre DEF Past
<1>10. Tiled(h, {b} \cup {})
  BY <1>1, <1>9, WordsAre DEF Tiled
<1>11. Apart(h, {b})
  BY <1>1, <1>9, WordsAre DEF Apart
<1>12. Well(h, {b}, {})
  BY <1>3, <1>5, <1>6, <1>7, <1>8, <1>10 DEF Well
<1>13. Met(h, {}, own)
  <2>1. DOMAIN own = {}
    BY <1>2
  <2> QED BY <2>1 DEF Met
<1> QED BY <1>1, <1>11, <1>12, <1>13 DEF HeapInv, Whole, HeapInit

(* The sizes of the kernel's own objects are far from wrapping. *)
LEMMA ObjectsAre ==
  /\ StackSize \in Nat /\ StackSize > 0 /\ StackSize <= Modulus - Block
  /\ TcbSize \in Nat /\ TcbSize > 0 /\ TcbSize <= Modulus - Block
  /\ SemSize \in Nat /\ SemSize > 0 /\ SemSize <= Modulus - Block
  /\ NoBlock \in Int /\ NoBlock - Header < HeapStart
<1>1. NoBlock \in Int /\ NoBlock - Header < HeapStart
  BY ObjectAssumption, WordsAre
<1>2. /\ StackSize \in 1..(Modulus - Block) /\ TcbSize \in 1..(Modulus - Block)
      /\ SemSize \in 1..(Modulus - Block)
  BY ObjectAssumption
<1> QED BY <1>1, <1>2, WordsAre

(* mem_alloc of a client, 0x01, keeps the invariant. *)
LEMMA ClientAllocStep == ASSUME HeapInv, ClientAlloc PROVE HeapInv'
<1>1. PICK request \in Requests : MemAlloc(request)
  BY DEF ClientAlloc
<1>2. UNCHANGED threads
  BY DEF ClientAlloc, kernelVars
<1>3. request \in 0..(Modulus - 1) /\ request \in Nat
  BY HeapAssumption
<1>4. PICK size : size = (Blocks(request) * Block) % Modulus
  OBVIOUS
<1>5. PICK p, r : p = Pointer(heap, size) /\ r = Allocated(heap, size)
  OBVIOUS
<1>6. Becomes(r) /\ owned' = IF p = Null THEN owned ELSE With(owned, p, request)
  BY <1>1, <1>4, <1>5 DEF MemAlloc
<1>7. /\ size \in Nat /\ size <= Modulus - Block
      /\ size > 0 => request > 0 /\ request <= size
  <2>1. CASE size = 0
    BY <2>1, WordsAre, HeapAssumption
  <2>2. CASE size # 0
    BY <1>3, <1>4, <2>2, WholeBlocksAre
  <2> QED BY <2>1, <2>2
<1>8. \/ p = Null /\ r = heap
      \/ p # Null /\ p \in Int /\ Whole(r, With(owned, p, request))
  BY <1>3, <1>5, <1>7, AllocWhole DEF HeapInv
<1>9. Whole(r, owned')
  BY <1>6, <1>8 DEF HeapInv
<1>10. Whole(heap, owned)'
  BY <1>6, <1>9, BecomesWhole
<1> QED BY <1>2, <1>10 DEF HeapInv

(* mem_free of a client, 0x02, keeps it. *)
LEMMA ClientFreeStep == ASSUME HeapInv, ClientFree PROVE HeapInv'
<1>1. PICK p \in (DOMAIN owned \ KernelMemory) \cup {Null, NoBlock} : MemFree(p)
  BY DEF ClientFree
<1>2. UNCHANGED threads
  BY DEF ClientFree, kernelVars
<1>3. p \in Int
  <2>1. DOMAIN owned \subseteq Int
    BY DEF HeapInv, Whole, Met
  <2> QED BY <2>1, ObjectsAre DEF Null
<1>4. PICK r : r = Freed(heap, p)
  OBVIOUS
<1>5. Becomes(r) /\ owned' = [q \in DOMAIN owned \ {p} |-> owned[q]]
  BY <1>1, <1>4 DEF MemFree
<1>6. Whole(r, owned')
  BY <1>3, <1>4, <1>5, FreeWhole DEF HeapInv
<1>7. Whole(heap, owned)'
  BY <1>5, <1>6, BecomesWhole
<1> QED BY <1>2, <1>7 DEF HeapInv

(* Creating a thread, with one or both allocations failing, keeps it. *)
LEMMA ThreadCreateStep == ASSUME HeapInv, ThreadCreate PROVE HeapInv'
<1>1. PICK stack, first : stack = Pointer(heap, StackSize) /\ first = Allocated(heap, StackSize)
  OBVIOUS
<1>2. PICK tcb, r : tcb = Pointer(first, TcbSize) /\ r = Allocated(first, TcbSize)
  OBVIOUS
<1>3. /\ stack # Null /\ Becomes(r)
      /\ IF tcb = Null
         THEN owned' = With(owned, stack, StackSize) /\ UNCHANGED threads
         ELSE /\ threads' = threads \cup {[tcb |-> tcb, stack |-> stack + StackSize]}
              /\ owned' = With(With(owned, stack, StackSize), tcb, TcbSize)
  BY <1>1, <1>2 DEF ThreadCreate
<1>4. PICK own : own = With(owned, stack, StackSize)
  OBVIOUS
<1>5. stack \in Int /\ Whole(first, own)
  BY <1>1, <1>3, <1>4, ObjectsAre, AllocWhole DEF HeapInv
<1>6. \/ tcb = Null /\ r = first
      \/ tcb # Null /\ tcb \in Int /\ Whole(r, With(own, tcb, TcbSize))
  BY <1>2, <1>5, ObjectsAre, AllocWhole
<1>7. Whole(r, owned')
  BY <1>3, <1>4, <1>5, <1>6
<1>8. Whole(heap, owned)'
  BY <1>3, <1>7, BecomesWhole
<1>9. \A t \in threads' : t.tcb \in Int /\ t.stack \in Int
  <2>1. CASE tcb = Null
    BY <1>3, <2>1 DEF HeapInv
  <2>2. CASE tcb # Null
    <3>1. PICK e : e = [tcb |-> tcb, stack |-> stack + StackSize]
      OBVIOUS
    <3>2. e.tcb \in Int /\ e.stack \in Int
      BY <1>5, <1>6, <2>2, <3>1, ObjectsAre
    <3> QED BY <1>3, <2>2, <3>1, <3>2 DEF HeapInv
  <2> QED BY <2>1, <2>2
<1> QED BY <1>8, <1>9 DEF HeapInv

(* Deleting a thread's object and stack keeps it. *)
LEMMA ThreadDeleteStep == ASSUME HeapInv, NEW t \in threads, ThreadDelete(t) PROVE HeapInv'
<1>1. PICK s, p : s = t.stack - StackSize /\ p = t.tcb
  OBVIOUS
<1>2. s \in Int /\ p \in Int
  BY <1>1, ObjectsAre DEF HeapInv
<1>3. PICK first, own : first = Freed(heap, s) /\ own = [q \in DOMAIN owned \ {s} |-> owned[q]]
  OBVIOUS
<1>4. PICK r : r = Freed(first, p)
  OBVIOUS
<1>5. /\ Becomes(r) /\ threads' = threads \ {t}
      /\ owned' = [q \in DOMAIN owned \ {p, s} |-> owned[q]]
  BY <1>1, <1>3, <1>4 DEF ThreadDelete, Destroyed
<1>6. Whole(first, own)
  BY <1>2, <1>3, FreeWhole DEF HeapInv
<1>7. Whole(r, [q \in DOMAIN own \ {p} |-> own[q]])
  BY <1>2, <1>4, <1>6, FreeWhole
<1>8. owned' = [q \in DOMAIN own \ {p} |-> own[q]]
  <2>1. DOMAIN own = DOMAIN owned \ {s} /\ \A q \in DOMAIN own : own[q] = owned[q]
    BY <1>3
  <2>2. DOMAIN own \ {p} = DOMAIN owned \ {p, s}
    BY <2>1
  <2> QED BY <1>5, <2>1, <2>2
<1>9. Whole(heap, owned)'
  BY <1>5, <1>7, <1>8, BecomesWhole
<1> QED BY <1>5, <1>9 DEF HeapInv

(* Opening a semaphore, with the allocation failing or not, keeps it. *)
LEMMA SemOpenStep == ASSUME HeapInv, SemOpen PROVE HeapInv'
<1>1. PICK p, r : p = Pointer(heap, SemSize) /\ r = Allocated(heap, SemSize)
  OBVIOUS
<1>2. /\ Becomes(r) /\ UNCHANGED threads
      /\ p = Null => owned' = owned
      /\ p # Null => owned' = With(owned, p, SemSize)
  BY <1>1 DEF SemOpen
<1>3. \/ p = Null /\ r = heap
      \/ p # Null /\ p \in Int /\ Whole(r, With(owned, p, SemSize))
  <2>1. Whole(heap, owned)
    BY DEF HeapInv
  <2> QED BY <1>1, <2>1, ObjectsAre, AllocWhole
<1>4. Whole(r, owned')
  BY <1>2, <1>3 DEF HeapInv
<1>5. Whole(heap, owned)'
  BY <1>2, <1>4, BecomesWhole
<1> QED BY <1>2, <1>5 DEF HeapInv

(* Closing a semaphore keeps it. *)
LEMMA SemCloseStep == ASSUME HeapInv, SemClose PROVE HeapInv'
<1>1. Becomes(Freed(heap, NoBlock)) /\ UNCHANGED <<owned, threads>>
  BY DEF SemClose, kernelVars
<1>2. Freed(heap, NoBlock) = heap
  <2>1. PICK F, A : Well(heap, F, A)
    BY DEF HeapInv, Whole
  <2>2. NoBlock - Header \notin A
    BY <2>1, ObjectsAre, WordsAre DEF Well
  <2> QED BY <2>1, <2>2, FreeNot
<1>3. Whole(heap, owned')
  BY <1>1 DEF HeapInv
<1>4. Whole(heap, owned)'
  BY <1>1, <1>2, <1>3, BecomesWhole
<1> QED BY <1>1, <1>4 DEF HeapInv

(* HeapInv is an inductive invariant of the heap. *)
THEOREM HeapInvariance == HeapSpec => []HeapInv
<1>1. HeapInit => HeapInv
  BY HeapInitInv
<1>2. HeapInv /\ [HeapNext]_<<heapVars, kernelVars>> => HeapInv'
  <2> SUFFICES ASSUME HeapInv, [HeapNext]_<<heapVars, kernelVars>> PROVE HeapInv'
    OBVIOUS
  <2>1. CASE ClientAlloc
    BY <2>1, ClientAllocStep
  <2>2. CASE ClientFree
    BY <2>2, ClientFreeStep
  <2>3. CASE ThreadCreate
    BY <2>3, ThreadCreateStep
  <2>4. CASE \E t \in threads : ThreadDelete(t)
    BY <2>4, ThreadDeleteStep
  <2>5. CASE SemOpen
    BY <2>5, SemOpenStep
  <2>6. CASE SemClose
    BY <2>6, SemCloseStep
  <2>7. CASE ThreadCreateFails \/ UNCHANGED <<heapVars, kernelVars>>
    <3>1. UNCHANGED <<heads, hdr, owned, threads>>
      BY <2>7 DEF ThreadCreateFails, heapVars, kernelVars
    <3>2. Becomes(heap) /\ Whole(heap, owned')
      BY <3>1 DEF Becomes, heap, HeapInv
    <3>3. Whole(heap, owned)'
      BY <3>2, BecomesWhole
    <3> QED BY <3>1, <3>3 DEF HeapInv
  <2> QED BY <2>1, <2>2, <2>3, <2>4, <2>5, <2>6, <2>7 DEF HeapNext
<1> QED BY <1>1, <1>2, PTL DEF HeapSpec

(* What the lists hold is what HeapInv says there is. *)
LEMMA HeapGives ==
  ASSUME HeapInv
  PROVE  /\ Well(heap, FreeBlocks, AllocBlocks) /\ Apart(heap, FreeBlocks)
         /\ Met(heap, AllocBlocks, owned)
<1>1. PICK F, A : Well(heap, F, A) /\ Apart(heap, F) /\ Met(heap, A, owned)
  BY DEF HeapInv, Whole
<1>2. PICK h : h = heap
  OBVIOUS
<1>3. /\ h \in Heaps /\ Ascends(h) /\ "free" \in List /\ "alloc" \in List
      /\ F \in SUBSET Words /\ Linked(h, "free", F)
      /\ A \in SUBSET Words /\ Linked(h, "alloc", A)
  BY <1>1, <1>2, WellAscends DEF Well, List
<1>4. Range(Chain(h, "free")) = F
  BY <1>3, ChainOf
<1>5. Range(Chain(h, "alloc")) = A
  BY <1>3, ChainOf
<1> QED BY <1>1, <1>2, <1>4, <1>5 DEF FreeBlocks, AllocBlocks

(* A block's words, as BlocksTileHeap has them. *)
LEMMA ExtentIs ==
  ASSUME HeapInv, NEW a \in Words
  PROVE  \A w \in Int : w \in Extent(a) <=> a <= w /\ w < Past(heap, a)
<1>1. heap \in Heaps /\ heap.hdr = hdr
  BY DEF HeapInv, Whole, Well, heap
<1>2. PICK e \in Int : e = Past(heap, a) /\ e = a + Header + hdr[a].size
  BY <1>1, SizesAre DEF Past
<1>3. PICK x, n, k : x = a /\ n = hdr[a].size /\ k = Header
  OBVIOUS
<1>4. x \in Int /\ n \in Int /\ k \in Int
  BY <1>1, <1>3, WordsAre DEF Heaps, Headers
<1>5. e = x + k + n /\ Extent(a) = x..(x + k + n - 1)
  BY <1>2, <1>3 DEF Extent
<1> QED BY <1>2, <1>3, <1>4, <1>5

(* The invariant has the types, *)
LEMMA HeapTypes == HeapInv => TypeOK
<1> SUFFICES ASSUME HeapInv PROVE TypeOK
  OBVIOUS
<1>1. Well(heap, FreeBlocks, AllocBlocks) /\ Met(heap, AllocBlocks, owned)
  BY HeapGives
<1>2. heads \in [List -> Words \cup {Null}] /\ hdr \in [Words -> Headers] /\ heap.hdr = hdr
  BY <1>1 DEF Well, Heaps, heap
<1>3. ASSUME NEW p \in DOMAIN owned PROVE p \in Words
  <2>1. PICK a : a = p - Header
    OBVIOUS
  <2>2. a \in AllocBlocks /\ p \in Int /\ owned[p] \in Nat /\ owned[p] > 0 /\ hdr[a].size >= owned[p]
    BY <1>1, <1>2, <2>1 DEF Met
  <2>3. a \in Words /\ Past(heap, a) <= HeapEnd /\ Past(heap, a) = a + Header + hdr[a].size
    BY <1>1, <1>2, <2>2 DEF Well, Tiled, Past
  <2>4. PICK s \in Nat : s = hdr[a].size
    BY <1>2, <2>3, WordsAre DEF Headers
  <2> QED BY <2>1, <2>2, <2>3, <2>4, WordsAre DEF Words
<1> QED BY <1>2, <1>3 DEF TypeOK, Headers

(* the blocks of the two lists as a tiling of the heap, *)
LEMMA HeapTiled == HeapInv => BlocksTileHeap
<1> SUFFICES ASSUME HeapInv PROVE BlocksTileHeap
  OBVIOUS
<1>1. PICK B : B = FreeBlocks \cup AllocBlocks
  OBVIOUS
<1>2. FreeBlocks \cap AllocBlocks = {} /\ B \subseteq Words /\ Tiled(heap, B) /\ heap \in Heaps
  BY <1>1, HeapGives DEF Well
<1>3. \A a \in B, w \in Int : w \in Extent(a) <=> a <= w /\ w < Past(heap, a)
  BY <1>2, ExtentIs
<1>4. \A a \in B : Extent(a) \subseteq Int /\ a \in Int
  BY <1>2, WordsAre DEF Extent
<1>5. ASSUME NEW a \in B, NEW b \in B, a < b PROVE Extent(a) \cap Extent(b) = {}
  <2>1. Past(heap, a) <= b /\ Past(heap, a) \in Int
    BY <1>2, <1>5, SizesAre DEF Tiled
  <2> QED BY <1>3, <1>4, <2>1
<1>6. \A a, b \in B : a # b => Extent(a) \cap Extent(b) = {}
  BY <1>4, <1>5
<1>7. ASSUME NEW a \in B, NEW w \in Extent(a) PROVE w \in Words
  <2>1. w \in Int /\ a <= w /\ w < Past(heap, a) /\ Past(heap, a) <= HeapEnd /\ Past(heap, a) \in Int /\ a \in Words
    BY <1>2, <1>3, <1>4, <1>7, SizesAre DEF Tiled
  <2> QED BY <2>1, WordsAre DEF Words
<1>8. ASSUME NEW w \in Words PROVE \E a \in B : w \in Extent(a)
  BY <1>2, <1>3, WordsAre DEF Tiled
<1>9. UNION {Extent(a) : a \in B} = Words
  BY <1>7, <1>8
<1> QED BY <1>1, <1>2, <1>6, <1>9 DEF BlocksTileHeap

(* the order of the lists, with prev undoing next, *)
LEMMA HeapOrdered == HeapInv => ListsAreOrdered
<1> SUFFICES ASSUME HeapInv, NEW list \in List, NEW c, c = Chain(heap, list), NEW i \in DOMAIN c
             PROVE  /\ hdr[c[i]].prev = IF i = 1 THEN Null ELSE c[i - 1]
                    /\ i < Len(c) => c[i] < c[i + 1]
  BY DEF ListsAreOrdered
<1>1. PICK S : S \in SUBSET Words /\ Linked(heap, list, S)
  BY HeapGives DEF Well, List
<1>2. heap \in Heaps /\ Ascends(heap) /\ heap.hdr = hdr
  BY HeapGives, WellAscends DEF Well, heap
<1>3. /\ c \in Seq(Words) /\ Range(c) = S
      /\ c = <<>> <=> heap.heads[list] = Null
      /\ c # <<>> => c[1] = heap.heads[list]
      /\ \A j \in 1..Len(c) : IF j = Len(c) THEN heap.hdr[c[j]].next = Null
                              ELSE c[j + 1] = heap.hdr[c[j]].next /\ c[j] < c[j + 1]
  BY <1>1, <1>2, ChainOf
<1>4. i \in 1..Len(c) /\ Len(c) \in Nat /\ \A j \in 1..Len(c) : c[j] \in S /\ c[j] \in Words
  BY <1>3 DEF Range
<1>5. i < Len(c) => c[i] < c[i + 1]
  BY <1>3, <1>4
<1>6. PICK p : p = hdr[c[i]].prev
  OBVIOUS
<1>7. Before(S, c[i], p)
  BY <1>1, <1>2, <1>4, <1>6 DEF Linked
<1>8. CASE i = 1
  <2>1. After(S, Null, c[1])
    <3>1. c # <<>>
      BY <1>4
    <3> QED BY <1>1, <1>3, <3>1 DEF Linked
  <2>2. \A b \in S : c[1] <= b
    BY <1>1, <1>4, <1>8, <2>1, WordsAre DEF After, Null
  <2>3. p = Null
    BY <1>1, <1>4, <1>7, <1>8, <2>2, WordsAre DEF Before
  <2> QED BY <1>5, <1>6, <1>8, <2>3
<1>9. CASE i # 1
  <2>1. PICK j \in 1..Len(c) : j = i - 1 /\ j # Len(c) /\ j + 1 = i
    BY <1>4, <1>9
  <2>2. c[j + 1] = heap.hdr[c[j]].next /\ c[j] < c[j + 1]
    BY <1>3, <2>1
  <2>3. PICK a : a = c[j] /\ a \in S /\ a \in Words /\ a < c[i] /\ After(S, a, c[i])
    BY <1>1, <1>4, <2>1, <2>2 DEF Linked
  <2>4. p = a
    BY <1>1, <1>4, <1>7, <2>3, WordsAre DEF Before, After
  <2> QED BY <1>5, <1>6, <1>9, <2>1, <2>3, <2>4
<1> QED BY <1>8, <1>9

(* no two free neighbours, *)
LEMMA HeapApart == HeapInv => FreeBlocksApart
<1> SUFFICES ASSUME HeapInv PROVE FreeBlocksApart
  OBVIOUS
<1>1. Apart(heap, FreeBlocks) /\ heap.hdr = hdr
  BY HeapGives DEF heap
<1> QED BY <1>1 DEF Apart, Past, FreeBlocksApart

(* a block of its own and large enough for each pointer returned, *)
LEMMA HeapMet == HeapInv => RequestsAreMet
<1> SUFFICES ASSUME HeapInv PROVE RequestsAreMet
  OBVIOUS
<1>1. Met(heap, AllocBlocks, owned) /\ heap.hdr = hdr
  BY HeapGives DEF heap
<1> QED BY <1>1 DEF Met, RequestsAreMet

(* and room that is taken wherever a request did not fit. *)
LEMMA HeapFull == HeapInv => FailsOnlyIfFull
<1> SUFFICES ASSUME HeapInv, NEW n \in 1..((HeapEnd - HeapStart) \div Block),
                    Pointer(heap, n * Block) = Null, NEW a \in Words, NEW room,
                    room = n * Block + 2 * Header, a + room <= HeapEnd
             PROVE  a..(a + room - 1) \cap Covered # {}
  BY DEF FailsOnlyIfFull
<1>1. Well(heap, FreeBlocks, AllocBlocks) /\ Apart(heap, FreeBlocks)
  BY HeapGives
<1>2. room \in Int
  <2>1. HeapEnd - HeapStart \in Nat /\ Block \in Nat /\ Block > 0 /\ Header \in Nat
    BY WordsAre
  <2>2. n \in Nat
    BY <2>1
  <2> QED BY <2>1, <2>2
<1>3. PICK w \in a..(a + room - 1), c \in AllocBlocks : c <= w /\ w < Past(heap, c)
  BY <1>1, <1>2, FullIs
<1>4. w \in Int /\ c \in Words
  BY <1>1, <1>2, <1>3, WordsAre DEF Well
<1>5. w \in Extent(c)
  BY <1>3, <1>4, ExtentIs
<1> QED BY <1>3, <1>5 DEF Covered

(* The lists' heads, the headers and the record of pointers have their     *)
(* types in every reachable state of the heap.                             *)
THEOREM HeapTypeCorrect == HeapSpec => []TypeOK
BY HeapInvariance, HeapTypes, PTL

(* Every word of the heap belongs to exactly one block of one of the       *)
(* lists, whatever is allocated and freed: no call leaks memory and no two *)
(* blocks overlap.                                                         *)
THEOREM BlocksTile == HeapSpec => []BlocksTileHeap
BY HeapInvariance, HeapTiled, PTL

(* Both lists stay ascending and prev undoes next: putIntoOrderedList,     *)
(* tryToJoin and the unlinking agree on where a block belongs.             *)
THEOREM ListsOrdered == HeapSpec => []ListsAreOrdered
BY HeapInvariance, HeapOrdered, PTL

(* Two free blocks never touch: mem_free joins with both neighbours. *)
THEOREM NeighboursJoined == HeapSpec => []FreeBlocksApart
BY HeapInvariance, HeapApart, PTL

(* Every pointer returned and not yet freed has an allocated block of its  *)
(* own with at least the size asked for, for every heap, block size and    *)
(* modulus, although the sizes are computed modulo the range of size_t.    *)
THEOREM RequestsMet == HeapSpec => []RequestsAreMet
BY HeapInvariance, HeapMet, PTL

(* mem_alloc returns 0 only if no run of words outside the allocated       *)
(* blocks has room for the blocks asked for and two headers.               *)
THEOREM RefusedOnlyIfFull == HeapSpec => []FailsOnlyIfFull
BY HeapInvariance, HeapFull, PTL
===============================================================================
