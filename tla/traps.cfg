\* main and two threads that make system calls, are interrupted and fault.
SPECIFICATION Spec
CONSTANTS
  main = main
  t1 = t1
  t2 = t2
  t3 = t3
  Thread = {main, t1, t2}
  Length = 2
  Result = Result
  Junk = Junk
INVARIANT ClientsInUserMode
PROPERTY ResumesAfterTrap
SYMMETRY Others
