--------------------------- MODULE MCKernelTicks ----------------------------
(* Model values for KernelTicks, as in MCKernel. *)
EXTENDS KernelTicks
CONSTANTS u1, u2, s1
OneItem == [s \in KernelSem |-> 1]
=============================================================================
