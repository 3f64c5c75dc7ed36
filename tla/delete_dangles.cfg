\* Clients delete threads as the test programs do, whatever they are doing.
SPECIFICATION Spec
CONSTANTS
  main = main
  idle = idle
  userMain = userMain
  kProd = kProd
  u1 = u1
  u2 = u2
  s1 = s1
  NoThread = NoThread
  itemAvailable = itemAvailable
  Thread = {main, idle, userMain, kProd, u1}
  Sem = {itemAvailable}
  KernelSem = {itemAvailable}
  BootVal <- OneItem
  TimeSlice = 2
  MaxSleep = 1
  MaxVal = 1
  Bodies = {TRUE}
  Joins = FALSE
  SafeDelete = FALSE
INVARIANT NoDangling
