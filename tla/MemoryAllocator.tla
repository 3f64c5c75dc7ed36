-------------------------- MODULE MemoryAllocator ---------------------------
(***************************************************************************)
(* The heap (src/src/MemoryAllocator.cpp): a free list and a list of       *)
(* allocated blocks, doubly linked through the blocks' headers and ordered *)
(* by address.  It is called with interrupts masked, by mem_alloc/mem_free *)
(* system calls and by the kernel's own operators new and delete (see      *)
(* KernelHeap), one call at a time.  The unit of addresses and sizes is    *)
(* the 8-byte word.                                                        *)
(***************************************************************************)
EXTENDS Integers, Sequences, Functions, FiniteSets

CONSTANTS
  HeapStart, HeapEnd, \* HEAP_START_ADDR, HEAP_END_ADDR
  Header,             \* sizeof(BlockHeader)
  Block,              \* MEM_BLOCK_SIZE
  Modulus,            \* size_t counts modulo this
  Requests            \* bound: the sizes that clients ask for

ASSUME HeapAssumption ==
  /\ HeapStart \in Nat \ {0} /\ Header \in Nat \ {0} /\ Block \in Nat \ {0}
  /\ HeapEnd \in Nat /\ HeapEnd - HeapStart >= Header
  /\ Modulus \in Nat /\ HeapEnd < Modulus /\ Modulus % Block = 0 /\ Header < Block
  /\ Requests \subseteq 0..(Modulus - 1)

Null == 0
Words == HeapStart..(HeapEnd - 1)
List == {"free", "alloc"}

VARIABLES
  heads,  \* freeMemHead and allocMemHead
  hdr,    \* the block header that starts at each word, if one does
  owned   \* history: the request each pointer was returned for, until freed

heap == [heads |-> heads, hdr |-> hdr]
heapVars == <<heads, hdr, owned>>

NoHeader == [next |-> Null, prev |-> Null, size |-> 0]

Init ==
  /\ heads = [free |-> HeapStart, alloc |-> Null]
  /\ hdr = [w \in Words |-> IF w = HeapStart
                            THEN [NoHeader EXCEPT !.size = HeapEnd - HeapStart - Header]
                            ELSE NoHeader]
  /\ owned = <<>>

(* The blocks from a on, following next. *)
From(h) ==
  LET chain[a \in Words \cup {Null}] ==
        IF a = Null THEN <<>> ELSE <<a>> \o chain[h.hdr[a].next]
  IN  chain
Chain(h, list) == From(h)[h.heads[list]]

First(S) == CHOOSE i \in S : \A j \in S : i <= j

-----------------------------------------------------------------------------
(* The helpers, as functions of the heap they change. *)

SetLink(h, a, link, to) ==
  IF a = Null THEN h ELSE [h EXCEPT !.hdr[a][link] = to]

(* blk leaves its list; its links are cleared.  (A definition that directly *)
(* precedes one it varies is a mistake that the code could contain.)       *)
UnlinkOneWay(h, blk, list) ==
  LET b == h.hdr[blk]
      past == IF b.prev # Null THEN SetLink(h, b.prev, "next", b.next)
                               ELSE [h EXCEPT !.heads[list] = b.next]
  IN  SetLink(SetLink(past, blk, "next", Null), blk, "prev", Null)
Unlink(h, blk, list) ==
  LET b == h.hdr[blk]
      past == IF b.prev # Null THEN SetLink(h, b.prev, "next", b.next)
                               ELSE [h EXCEPT !.heads[list] = b.next]
      both == SetLink(past, b.next, "prev", b.prev)
  IN  SetLink(SetLink(both, blk, "next", Null), blk, "prev", Null)

(* The block of the list that blk goes behind, or Null. *)
Place(h, blk, list) ==
  LET c == Chain(h, list)
      stops == {i \in DOMAIN c : i = Len(c) \/ blk <= c[i + 1]}
  IN  IF c = <<>> \/ blk < c[1] THEN Null ELSE c[First(stops)]

PutBehind(h, cur, blk, list) ==
  LET next == IF cur = Null THEN h.heads[list] ELSE h.hdr[cur].next
      linked == SetLink(SetLink(h, blk, "prev", cur), blk, "next", next)
      behind == SetLink(linked, next, "prev", blk)
  IN  IF cur = Null THEN [behind EXCEPT !.heads[list] = blk]
                    ELSE SetLink(behind, cur, "next", blk)
putIntoOrderedList(h, blk, list) == PutBehind(h, Place(h, blk, list), blk, list)

FitsWithoutHeader(h, a, allocSize) == h.hdr[a].size >= allocSize
FitsWithRemainder(h, a, allocSize) == h.hdr[a].size >= allocSize + 2 * Header + Block
Fits(h, a, allocSize) == h.hdr[a].size >= (allocSize + Header) % Modulus

findFirstFit(h, allocSize) ==
  LET c == Chain(h, "free")
      fits == {i \in DOMAIN c : Fits(h, c[i], allocSize)}
  IN  IF fits = {} THEN Null ELSE c[First(fits)]

Remaining(h, blk, allocSize) == (h.hdr[blk].size - Header - allocSize) % Modulus
Splits(h, blk, allocSize) == Remaining(h, blk, allocSize) >= Header + Block

(* The block that is taken for allocSize: the far end of blk if enough is  *)
(* left for another block, or all of blk.                                  *)
Taken(h, blk, allocSize) ==
  IF Splits(h, blk, allocSize) THEN blk + Header + Remaining(h, blk, allocSize) ELSE blk

getFromFreeList(h, blk, allocSize) ==
  IF Splits(h, blk, allocSize)
  THEN [h EXCEPT !.hdr[blk].size = Remaining(h, blk, allocSize),
                 !.hdr[Taken(h, blk, allocSize)] = [NoHeader EXCEPT !.size = allocSize]]
  ELSE Unlink(h, blk, "free")

JoinedSizeLessHeader(h, cur, next) == h.hdr[cur].size + h.hdr[next].size
JoinedSize(h, cur, next) == h.hdr[cur].size + Header + h.hdr[next].size

(* cur swallows the free block behind it if they touch.  The swallowed     *)
(* header is plain memory from now on; the model forgets what it holds.    *)
tryToJoin(h, cur) ==
  LET next == h.hdr[cur].next
      after == h.hdr[next].next
      swallowed == [h EXCEPT !.hdr[cur].size = JoinedSize(h, cur, next),
                             !.hdr[cur].next = after,
                             !.hdr[next] = NoHeader]
  IN  IF cur # Null /\ next # Null /\ cur + Header + h.hdr[cur].size = next
      THEN SetLink(swallowed, after, "prev", cur)
      ELSE h

JoinedForward(h, blk) == tryToJoin(h, blk)
Joined(h, blk) ==
  LET forward == tryToJoin(h, blk)
      prev == forward.hdr[blk].prev
  IN  IF prev = Null THEN forward ELSE tryToJoin(forward, prev)

-----------------------------------------------------------------------------
RoundedUp(size) ==
  IF size % Block = 0 THEN size ELSE (size + Block - (size % Block)) % Modulus

Becomes(h) == heads' = h.heads /\ hdr' = h.hdr

(* p has been returned for a request of size. *)
With(own, p, size) == [q \in DOMAIN own \cup {p} |-> IF q = p THEN size ELSE own[q]]

(* MemoryAllocator::mem_alloc: the pointer that it returns, and the heap   *)
(* that it leaves.                                                         *)
Pointer(h, size) ==
  LET allocSize == RoundedUp(size)
      blk == findFirstFit(h, allocSize)
  IN  IF size = 0 \/ blk = Null THEN Null ELSE Taken(h, blk, allocSize) + Header
Allocated(h, size) ==
  LET allocSize == RoundedUp(size)
      blk == findFirstFit(h, allocSize)
  IN  IF size = 0 \/ blk = Null THEN h
      ELSE putIntoOrderedList(getFromFreeList(h, blk, allocSize),
                              Taken(h, blk, allocSize), "alloc")

(* mem_alloc of the C API, 0x01, asks for whole blocks. *)
Blocks(size) == IF size % Block = 0 THEN size \div Block ELSE size \div Block + 1
MemAlloc(request) ==
  LET size == (Blocks(request) * Block) % Modulus
      p == Pointer(heap, size)
  IN  /\ Becomes(Allocated(heap, size))
      /\ owned' = IF p = Null THEN owned ELSE With(owned, p, request)

(* MemoryAllocator::mem_free.  getFromAllocList looks the pointer up, so   *)
(* that anything else is refused with -1.                                  *)
Freed(h, p) ==
  LET blk == p - Header
  IN  IF p = Null \/ blk \notin Range(Chain(h, "alloc")) THEN h
      ELSE Joined(putIntoOrderedList(Unlink(h, blk, "alloc"), blk, "free"), blk)

(* mem_free, 0x02 *)
MemFree(p) ==
  /\ Becomes(Freed(heap, p))
  /\ owned' = [q \in DOMAIN owned \ {p} |-> owned[q]]

-----------------------------------------------------------------------------
(* Properties *)

TypeOK ==
  /\ heads \in [List -> Words \cup {Null}]
  /\ hdr \in [Words -> [next : Words \cup {Null}, prev : Words \cup {Null},
                        size : 0..(HeapEnd - HeapStart)]]
  /\ DOMAIN owned \subseteq Words

Extent(blk) == blk..(blk + Header + hdr[blk].size - 1)
FreeBlocks == Range(Chain(heap, "free"))
AllocBlocks == Range(Chain(heap, "alloc"))

(* Every word of the heap belongs to exactly one block of one of the lists: *)
(* no call leaks memory and no two blocks overlap.                         *)
BlocksTileHeap ==
  /\ FreeBlocks \cap AllocBlocks = {}
  /\ \A a, b \in FreeBlocks \cup AllocBlocks : a # b => Extent(a) \cap Extent(b) = {}
  /\ UNION {Extent(a) : a \in FreeBlocks \cup AllocBlocks} = Words

(* Both lists are ascending, and prev undoes next in them. *)
ListsAreOrdered ==
  \A list \in List :
    LET c == Chain(heap, list)
    IN  \A i \in DOMAIN c :
          /\ hdr[c[i]].prev = IF i = 1 THEN Null ELSE c[i - 1]
          /\ i < Len(c) => c[i] < c[i + 1]

(* Free neighbours are joined: when all is freed the heap is whole again. *)
FreeBlocksApart ==
  \A a, b \in FreeBlocks : a + Header + hdr[a].size # b

(* The allocated blocks are those of the pointers that have been returned  *)
(* and not been freed: every caller has a block of its own, with at least  *)
(* the size it wanted, whatever the sizes wrapped to.                      *)
RequestsAreMet ==
  /\ AllocBlocks = {p - Header : p \in DOMAIN owned}
  /\ \A p \in DOMAIN owned : owned[p] > 0 /\ hdr[p - Header].size >= owned[p]

(* An allocation fails only if no run of free words has room for the       *)
(* blocks asked for and two headers.                                       *)
Covered == UNION {Extent(a) : a \in AllocBlocks}
FailsOnlyIfFull ==
  \A n \in 1..((HeapEnd - HeapStart) \div Block) :
    Pointer(heap, n * Block) = Null =>
      \A a \in Words :
        LET room == n * Block + 2 * Header
        IN  a + room <= HeapEnd => a..(a + room - 1) \cap Covered # {}
=============================================================================
