\* The same when clients do call thread_join.
SPECIFICATION FairSpec
CONSTANTS
  main = main
  idle = idle
  userMain = userMain
  kProd = kProd
  u1 = u1
  u2 = u2
  s1 = s1
  NoThread = NoThread
  itemAvailable = itemAvailable
  Thread = {main, idle, userMain, kProd, u1}
  Sem = {itemAvailable}
  KernelSem = {itemAvailable}
  BootVal <- OneItem
  TimeSlice = 2
  MaxSleep = 2
  MaxVal = 1
  Bodies = {TRUE}
  Joins = TRUE
  SafeDelete = TRUE
PROPERTY SleeperWakes
