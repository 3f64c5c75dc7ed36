------------------------------ MODULE MCTraps -------------------------------
(* Model values for Traps: main and interchangeable client threads.        *)
EXTENDS Traps, TLC
CONSTANTS t1, t2, t3

Others == Permutations(Thread \ {main})
=============================================================================
