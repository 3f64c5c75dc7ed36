\* Threads, semaphores and client requests of no, one, two and of more blocks
\* than size_t can express.
SPECIFICATION HeapSpec
CONSTANTS
  HeapStart = 1
  HeapEnd = 80
  Header = 3
  Block = 8
  Modulus = 128
  Requests = {0, 5, 9, 127}
  StackSize = 16
  TcbSize = 14
  SemSize = 3
  NoBlock = 2
INVARIANTS TypeOK BlocksTileHeap ListsAreOrdered FreeBlocksApart RequestsAreMet FailsOnlyIfFull
