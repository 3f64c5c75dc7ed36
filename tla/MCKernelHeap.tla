---------------------------- MODULE MCKernelHeap ----------------------------
(* A heap of a few blocks, with the kernel's ratio of header to block (24  *)
(* bytes to 64), stacks larger than TCBs and TCBs larger than semaphores,  *)
(* and a size_t that wraps soon above the heap's end.                      *)
EXTENDS KernelHeap
=============================================================================
