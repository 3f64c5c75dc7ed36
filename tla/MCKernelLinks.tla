--------------------------- MODULE MCKernelLinks ----------------------------
(* Model values for KernelLinks: the four boot threads, two more clients   *)
(* that are interchangeable, the output buffer's semaphore and one of the  *)
(* clients.                                                                *)
EXTENDS KernelLinks, TLC
CONSTANTS u1, u2, s1

Workers == Permutations({u1, u2})

(* One character of the boot message is still in the output buffer. *)
OneItem == [s \in KernelSem |-> 1]
=============================================================================
