------------------------------ MODULE MCKernel ------------------------------
(* Model values for Kernel: the four boot threads, up to two more clients, *)
(* the output buffer's semaphore and at most one semaphore of the clients. *)
EXTENDS KernelLife
CONSTANTS u1, u2, s1

(* One character of the boot message is still in the output buffer. *)
OneItem == [s \in KernelSem |-> 1]
=============================================================================
