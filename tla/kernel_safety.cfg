\* All the operations of two worker threads and a semaphore; workers are created
\* with and without a body, and clients delete safely.
SPECIFICATION LinkSpec
CONSTANTS
  main = main
  idle = idle
  userMain = userMain
  kProd = kProd
  u1 = u1
  u2 = u2
  s1 = s1
  NoThread = NoThread
  Null = Null
  itemAvailable = itemAvailable
  Thread = {main, idle, userMain, kProd, u1, u2}
  Sem = {itemAvailable, s1}
  KernelSem = {itemAvailable}
  BootVal <- OneItem
  TimeSlice = 1
  MaxSleep = 1
  MaxVal = 1
  Bodies = {TRUE, FALSE}
  Joins = TRUE
  SafeDelete = TRUE
INVARIANTS LinkedOnce FlagsMatchQueues RunnableIsReady ValCountsWaiters RunningMayRun LinksMatch
SYMMETRY Workers
