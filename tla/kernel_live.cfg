\* Ready threads run and sleepers wake, also with threads that poll in join.
SPECIFICATION FairSpec
CONSTANTS
  main = main
  idle = idle
  userMain = userMain
  kProd = kProd
  u1 = u1
  u2 = u2
  s1 = s1
  NoThread = NoThread
  itemAvailable = itemAvailable
  Thread = {main, idle, userMain, kProd, u1}
  Sem = {itemAvailable, s1}
  KernelSem = {itemAvailable}
  BootVal <- OneItem
  TimeSlice = 2
  MaxSleep = 2
  MaxVal = 1
  Bodies = {TRUE}
  Joins = TRUE
  SafeDelete = TRUE
PROPERTIES ReadyRuns SleeperWakesUnlessPolling LivesAreLegal
