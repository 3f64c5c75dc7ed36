\* Two client threads write behind the boot message into an output buffer for
\* two, and kProducer sends: order, token counts, and that output flows.
SPECIFICATION FairKeptSpec
CONSTANTS
  main = main
  idle = idle
  userMain = userMain
  kProd = kProd
  NoThread = NoThread
  Thread = {main, idle, userMain, kProd, u1}
  Sem <- AllSems
  KernelSem <- AllSems
  itemAvailable <- OutItem
  BootVal <- Values
  TimeSlice = 1
  MaxSleep = 0
  MaxVal = 1
  Bodies = {TRUE}
  Joins = TRUE
  SafeDelete = TRUE
  u1 = u1
  c1 = c1
  c2 = c2
  Char = {c1, c2}
  Written = {c1}
  Typed = {}
  NoChar = NoChar
  Cap = 2
  BootText <- Message
INVARIANTS ConsoleTypeOK TokensMatchRing MutexUncontended SendsWhenReady
PROPERTIES OutputIsFifo 
