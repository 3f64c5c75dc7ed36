\* Up to three sleepers at once and sleeps of up to four ticks, so that equal,
\* earlier and later deadlines meet in the sleep list.
SPECIFICATION LinkSpec
CONSTANTS
  main = main
  idle = idle
  userMain = userMain
  kProd = kProd
  u1 = u1
  u2 = u2
  s1 = s1
  NoThread = NoThread
  Null = Null
  itemAvailable = itemAvailable
  Thread = {main, idle, userMain, kProd, u1, u2}
  Sem = {itemAvailable}
  KernelSem = {itemAvailable}
  BootVal <- OneItem
  TimeSlice = 2
  MaxSleep = 4
  MaxVal = 1
  Bodies = {TRUE}
  Joins = FALSE
  SafeDelete = TRUE
INVARIANTS TypeOK SleepHeadPositive LinksMatch
PROPERTY KeepsCountdowns
SYMMETRY Workers
