\* Characters arrive while the input buffer is full: a blocked idle runs on.
SPECIFICATION ConsoleSpec
CONSTANTS
  main = main
  idle = idle
  userMain = userMain
  kProd = kProd
  NoThread = NoThread
  Thread = {main, idle, userMain, kProd}
  Sem <- AllSems
  KernelSem <- AllSems
  itemAvailable <- OutItem
  BootVal <- Values
  TimeSlice = 1
  MaxSleep = 0
  MaxVal = 1
  Bodies = {}
  Joins = FALSE
  SafeDelete = TRUE
  u1 = u1
  c1 = c1
  c2 = c2
  Char = {c1}
  Written = {}
  Typed = {c1}
  NoChar = NoChar
  Cap = 1
  BootText <- Nothing
INVARIANT CapacityKept
