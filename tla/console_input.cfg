\* Two characters arrive, again and again, at an input buffer for two, and one
\* thread reads: order, token counts, and when the device is served.
SPECIFICATION FairKeptSpec
CONSTANTS
  main = main
  idle = idle
  userMain = userMain
  kProd = kProd
  NoThread = NoThread
  Thread = {main, idle, userMain, kProd}
  Sem <- AllSems
  KernelSem <- AllSems
  itemAvailable <- OutItem
  BootVal <- Values
  TimeSlice = 1
  MaxSleep = 0
  MaxVal = 1
  Bodies = {}
  Joins = TRUE
  SafeDelete = TRUE
  u1 = u1
  c1 = c1
  c2 = c2
  Char = {c1, c2}
  Written = {}
  Typed = {c1, c2}
  NoChar = NoChar
  Cap = 2
  BootText <- Nothing
INVARIANT TokensMatchRing
PROPERTIES InputIsFifo InputIsTaken
