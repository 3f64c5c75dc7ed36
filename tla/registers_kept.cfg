\* One thread and the timer suffice.
SPECIFICATION Spec
CONSTANTS
  main = main
  t1 = t1
  t2 = t2
  t3 = t3
  Thread = {main, t1, t2}
  Length = 2
  Result = Result
  Junk = Junk
PROPERTY InterruptKeepsRegisters
SYMMETRY Others
